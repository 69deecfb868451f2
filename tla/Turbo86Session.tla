-------------------------- MODULE Turbo86Session --------------------------
(***************************************************************************)
(* A WebSocket session of the turbo86 server (src/turbo86/server/          *)
(* server.go) around one Runner: serve and handleSession on the main       *)
(* goroutine, the reader goroutine that handleSession starts, and the      *)
(* client at the other end of the socket.  Messages are kept by kind:      *)
(*   "start"  Start, LoadContext or LoadElf   "stop"   Stop                *)
(*   "code"   Code                            "pause"  Pause               *)
(*   "key"    KeyInput                        "bad"    one that does not   *)
(*                                                     parse               *)
(***************************************************************************)
EXTENDS Turbo86Runner, Sequences

CONSTANTS
  Messages,   \* the kinds of messages the client sends
  MaxInbox,   \* bound: messages sent and not yet read
  MayLeave    \* the client may go away without a Stop

MessageKinds == {"start", "code", "key", "stop", "pause", "bad"}

ASSUME MessagesAssumption == Messages \subseteq MessageKinds
ASSUME MaxInboxAssumption == MaxInbox \in Nat
ASSUME MayLeaveAssumption == MayLeave \in BOOLEAN

VARIABLES
  main,        \* where the main goroutine is
  reader,      \* where the reader goroutine is
  inbox,       \* what the client sent and the server has not read
  clientGone,  \* the client went away
  wsClosed,    \* the server closed the socket
  told         \* kind of the last terminal event the client received

serverVars == <<main, reader>>
wireVars == <<inbox, clientGone, wsClosed, told>>
sessionVars == <<serverVars, wireVars>>
allVars == <<vars, sessionVars>>

SessionInit ==
  /\ Init
  /\ main = "create" /\ reader = "off"
  /\ inbox = <<>> /\ clientGone = FALSE /\ wsClosed = FALSE /\ told = "none"

-----------------------------------------------------------------------------
(* The main goroutine. *)

(* runner.New returns: a Runner, or an error once the tracer is cleaned up. *)
Created ==
  /\ main = "create"
  /\ \/ startCh = "empty" /\ main' = "setup"
     \/ startCh = "void" /\ done /\ main' = "ending"
  /\ UNCHANGED <<vars, reader, wireVars>>

(* Phase 1 reads one message: a start message runs the guest and spawns the   *)
(* reader; Code is written; everything else, a refused ELF and a Code that    *)
(* cannot be written end the session.                                         *)
SetupReads ==
  /\ main = "setup" /\ inbox # <<>>
  /\ inbox' = Tail(inbox)
  /\ \/ /\ Head(inbox) = "start" /\ main' = "events" /\ reader' = "read"
        /\ \E m \in Modes, i \in BOOLEAN, n \in 0..MaxInjects : Run(m, i, n)
     \/ Head(inbox) = "code" /\ UNCHANGED <<vars, serverVars>>
     \/ main' = "closing" /\ UNCHANGED <<vars, reader>>
  /\ UNCHANGED <<clientGone, wsClosed, told>>

SetupReadFails ==
  /\ main = "setup" /\ inbox = <<>> /\ clientGone
  /\ main' = "closing"
  /\ UNCHANGED <<vars, reader, wireVars>>

(* Phase 2: for ev := range events, *)
TakeEvent ==
  /\ main = "events" /\ (ReceiveFromTracer \/ ReceiveFromTicker)
  /\ main' = "write"
  /\ UNCHANGED <<reader, wireVars>>

(* ws.Write of the event just taken.  To a client that went away it fails,    *)
(* unless the connection's loss has not been noticed yet; a failure leaves    *)
(* the loop.                                                                  *)
WriteEvent ==
  /\ main = "write"
  /\ \/ /\ main' = "events"
        /\ told' = IF last.kind \in Terminal /\ ~clientGone THEN last.kind ELSE told
     \/ clientGone /\ main' = "closing" /\ UNCHANGED told
  /\ UNCHANGED <<vars, reader, inbox, clientGone, wsClosed>>

(* the range ends once the channel is closed. *)
EventsEnd ==
  /\ main = "events" /\ eventsClosed /\ main' = "closing"
  /\ UNCHANGED <<vars, reader, wireVars>>

(* The deferred r.Close(): its first caller closes closeCh and kills the      *)
(* child,                                                                     *)
MainCloses == main = "closing" /\ Close /\ UNCHANGED sessionVars

(* Mutant: Close does not wait for done. *)
MainClosedEarly ==
  /\ main = "closing" /\ closeCh
  /\ main' = "ending"
  /\ UNCHANGED <<vars, reader, wireVars>>

(* and every caller waits for done. *)
MainClosed ==
  /\ main = "closing" /\ closeCh /\ done
  /\ main' = "ending"
  /\ UNCHANGED <<vars, reader, wireVars>>

(* Mutant: serve returns without closing the socket. *)
ServeEndsOpen ==
  /\ main = "ending" /\ main' = "returned"
  /\ UNCHANGED <<vars, reader, wireVars>>

(* serve closes the socket and returns. *)
ServeEnds ==
  /\ main = "ending" /\ main' = "returned" /\ wsClosed' = TRUE
  /\ UNCHANGED <<vars, reader, inbox, clientGone, told>>

-----------------------------------------------------------------------------
(* The reader goroutine. *)

(* Mutant: the reader returns without its deferred r.Close(). *)
ReaderReturnsUnclosed == reader' = "exited" /\ UNCHANGED vars

(* The reader returns from its loop, to its deferred r.Close(). *)
ReaderReturns == reader' = "closing" /\ UNCHANGED vars

(* One message after the start: Pause stops the child, a key goes to the      *)
(* input queue (not part of this model), Code is written or cannot be, and    *)
(* everything else ends the reader.                                           *)
ReaderReads ==
  /\ reader = "read" /\ inbox # <<>> /\ ~wsClosed
  /\ inbox' = Tail(inbox)
  /\ LET m == Head(inbox) IN
     \/ m = "pause" /\ Pause /\ UNCHANGED reader
     \/ m = "pause" /\ ~StopReaches /\ UNCHANGED <<vars, reader>>
     \/ m = "key" /\ UNCHANGED <<vars, reader>>
     \/ m = "code" /\ memOpen /\ UNCHANGED <<vars, reader>>
     \/ m \notin {"pause", "key"} /\ ReaderReturns
  /\ UNCHANGED <<main, clientGone, wsClosed, told>>

ReadFails ==
  /\ reader = "read" /\ (wsClosed \/ (clientGone /\ inbox = <<>>))
  /\ ReaderReturns
  /\ UNCHANGED <<main, wireVars>>

ReaderCloses == reader = "closing" /\ Close /\ UNCHANGED sessionVars

ReaderClosed ==
  /\ reader = "closing" /\ closeCh /\ done
  /\ reader' = "exited"
  /\ UNCHANGED <<vars, main, wireVars>>

-----------------------------------------------------------------------------
(* The client. *)

ClientSends(m) ==
  /\ ~clientGone /\ ~wsClosed /\ Len(inbox) < MaxInbox
  /\ inbox' = Append(inbox, m)
  /\ UNCHANGED <<vars, serverVars, clientGone, wsClosed, told>>

ClientLeaves ==
  /\ MayLeave /\ ~clientGone /\ ~wsClosed
  /\ clientGone' = TRUE
  /\ UNCHANGED <<vars, serverVars, inbox, wsClosed, told>>

-----------------------------------------------------------------------------
MainStep ==
  Created \/ SetupReads \/ SetupReadFails \/ TakeEvent \/ WriteEvent \/ EventsEnd
  \/ MainCloses \/ MainClosed \/ ServeEnds

ReaderStep == ReaderReads \/ ReadFails \/ ReaderCloses \/ ReaderClosed

ClientStep == ClientLeaves \/ \E m \in Messages : ClientSends(m)

RunnerStep == InnerStep /\ UNCHANGED sessionVars

(* Every goroutine of the session has ended. *)
Over == main = "returned" /\ reader \in {"off", "exited"} /\ tracer = "gone"

SessionNext ==
  RunnerStep \/ MainStep \/ ReaderStep \/ ClientStep \/ (Over /\ UNCHANGED allVars)

SessionSpec == SessionInit /\ [][SessionNext]_allVars

(* The Runner's own fairness, with the server in place of its user; nothing is *)
(* owed by the guest or the client.  A receive is fair to the tracer: senders  *)
(* on a channel queue.                                                         *)
SessionFairness ==
  /\ WF_allVars(TracerStep /\ UNCHANGED sessionVars)
  /\ WF_allVars(SyscallReturns /\ UNCHANGED sessionVars)
  /\ SF_allVars(StopDelivered /\ UNCHANGED sessionVars)
  /\ WF_allVars(TickerStops /\ UNCHANGED sessionVars)
  /\ SF_allVars(TakeEvent /\ ReceiveFromTracer)
  /\ WF_allVars(MainStep) /\ WF_allVars(ReaderStep)

FairSessionSpec == SessionSpec /\ SessionFairness

-----------------------------------------------------------------------------
SessionTypeOK ==
  /\ TypeOK
  /\ main \in {"create", "setup", "events", "write", "closing", "ending", "returned"}
  /\ reader \in {"off", "read", "closing", "exited"}
  /\ inbox \in Seq(MessageKinds)
  /\ clientGone \in BOOLEAN /\ wsClosed \in BOOLEAN
  /\ told \in Terminal \union {"none"}

(* No guest outlives the handler of its session: whichever goroutine ends it,  *)
(* handleSession returns only after the child is dead and reaped, the ticker   *)
(* joined and the memory file closed.                                          *)
GuestDiesWithSession ==
  main \in {"ending", "returned"} =>
    child \in {"none", "reaped"} /\ ~memOpen /\ ticker \notin {"idle", "send"}

(* A client that stays is told how the guest that ran for it ended, before its *)
(* socket is closed, whatever it sent meanwhile.                               *)
ClientTold == wsClosed /\ startCh = "taken" /\ ~clientGone => told # "none"

(* The reader's end "tears the session down", a spinning guest included. *)
ReaderEndsSession == reader \in {"closing", "exited"} ~> main = "returned"

(* The end of the session ends the reader, blocked in ws.Read. *)
SessionEndsReader == main = "ending" ~> Over

(* "Either side ending tears the session down": the main goroutine, once it    *)
(* left its loop, gets through r.Close() and returns.                          *)
MainEndsSession == main = "closing" ~> main = "returned"
===============================================================================
