---------------------------- MODULE ExplorerExec ----------------------------
(***************************************************************************)
(* How the explorer page runs a program: the local movie86 Vm and its run  *)
(* loop (src/explorer/src/hooks/useMovie86Vm.ts, runloop.mjs), the turbo86 *)
(* WebSocket session (useTurbo86Session.ts), the backend selection that    *)
(* hands a guest from one to the other (useExecBackend.ts, backend.mjs)    *)
(* and the buttons that drive them (Movie86Panel.tsx).                     *)
(*                                                                         *)
(* A step is one task of the page's event loop with the microtasks it      *)
(* queues: a click, a WebSocket event, a timer.  Between two tasks React   *)
(* has rendered, so a click sees the state the last task left.  The        *)
(* turbo86 server at the other end of a socket is what Turbo86Session      *)
(* shows of it: it takes one load, sends frames and then one terminal      *)
(* event, and closes.                                                      *)
(*                                                                         *)
(* The memory and registers of a Vm are abstracted to the program they are *)
(* a state of; a Vm is created with the program of its own number.         *)
(***************************************************************************)
EXTENDS Naturals, Sequences

CONSTANTS
  MaxVms,      \* bound: Vms created
  MaxSockets,  \* bound: WebSockets created
  MaxLoads,    \* bound: loadElf calls awaiting their Vm
  MaxQueue     \* bound: messages under way in one direction of a socket

ASSUME MaxVmsAssumption == MaxVms \in Nat \ {0}
ASSUME MaxSocketsAssumption == MaxSockets \in Nat \ {0}
ASSUME MaxLoadsAssumption == MaxLoads \in Nat \ {0}
ASSUME MaxQueueAssumption == MaxQueue \in Nat \ {0}

Vms == 1..MaxVms
Sockets == 1..MaxSockets
Null == 0      \* no Vm, no socket
Blank == 0     \* all registers zero and no memory: no program's state
BACKENDS == {"movie86", "turbo86"}

VARIABLES
  backend,       \* useExecBackend: the selected backend
  hasty,         \* history: the user has clicked while the session was unsettled
  vm,            \* useMovie86Vm: the mounted Vm
  made,          \* Vms created so far, numbered in that order
  freed,         \* Vms given to free()
  loading,       \* loadElf calls that await movie86.loadVm
  loop,          \* the Vm of the run loop whose run id is the latest
  stale,         \* the Vms of loops that sleep with an older run id
  localRunning,  \* useMovie86Vm: running
  halted,        \* Vms with a haltReason
  holds,         \* the program whose state is in a Vm
  wsRef,         \* useTurbo86Session: the socket of the session
  vmRef,         \* the Vm that frames are mirrored onto
  turboRunning,  \* running
  resolver,      \* pausedResolverRef: the Vm the reverse in flight loads, or Null
  ready,         \* readyState of every socket
  awaiting,      \* the Vm of the forward that waits for a socket to open
  toServer,      \* messages sent on a socket and not read
  toClient,      \* events sent on a socket and not received
  session,       \* the server's session at the other end
  guest          \* the program its guest runs

uiVars == <<backend, hasty>>
vmVars == <<vm, made, freed, loading>>
loopVars == <<loop, stale, localRunning>>
localVars == <<vmVars, loopVars, halted, holds>>
hookVars == <<wsRef, vmRef, turboRunning, resolver>>
wireVars == <<ready, awaiting, toServer, toClient>>
serverVars == <<session, guest>>
vars == <<uiVars, localVars, hookVars, wireVars, serverVars>>

Load(p) == [kind |-> "load", prog |-> p]
Pause == [kind |-> "pause", prog |-> Blank]
Stop == [kind |-> "stop", prog |-> Blank]
Frame == [kind |-> "frame", prog |-> Blank]
Messages == [kind : {"load", "pause", "stop"}, prog : 0..MaxVms]
Ends == {"exit", "fault", "paused", "killed"}
Events == [kind : {"frame"} \union Ends, prog : 0..MaxVms]

(* useExecBackend's unified run state. *)
Running == localRunning \/ turboRunning

(* The session's socket, if it is open. *)
IsOpen(s) == s # Null /\ ready[s] = "open"

(* The session is between two states: a forward waits for its socket to open, *)
(* a reverse for its Paused, the page for a socket to have closed.            *)
Unsettled ==
  resolver # Null \/ \E s \in Sockets : awaiting[s] # Null \/ ready[s] = "closing"

UserActs == hasty' = (hasty \/ Unsettled)

Init ==
  /\ backend = "movie86" /\ hasty = FALSE
  /\ vm = Null /\ made = 0 /\ freed = {} /\ loading = 0
  /\ loop = Null /\ stale = {} /\ localRunning = FALSE /\ halted = {}
  /\ holds = [v \in Vms |-> v]
  /\ wsRef = Null /\ vmRef = Null /\ turboRunning = FALSE /\ resolver = Null
  /\ ready = [s \in Sockets |-> "unused"] /\ awaiting = [s \in Sockets |-> Null]
  /\ toServer = [s \in Sockets |-> <<>>] /\ toClient = [s \in Sockets |-> <<>>]
  /\ session = [s \in Sockets |-> "setup"] /\ guest = [s \in Sockets |-> Blank]

-----------------------------------------------------------------------------
(* useMovie86Vm: the Vm and its run loop. *)

Sleepers == stale \union ({loop} \ {Null})

(* Mutant: the run id is not advanced. *)
CancelNot == UNCHANGED <<loop, stale>>

(* runIdRef.current++: the loop in flight, if any, is of an old run. *)
Cancel == loop' = Null /\ stale' = Sleepers

(* stop: cancel, and the Run button is back. *)
StopLocal == Cancel /\ localRunning' = FALSE

(* loadElf up to its await: cancel the run, free the Vm in use.  Freeing one *)
(* that was freed before throws.                                             *)
LoadElf ==
  /\ UserActs /\ loading < MaxLoads /\ made + loading < MaxVms
  /\ StopLocal
  /\ \/ /\ vm \notin freed
        /\ freed' = freed \union ({vm} \ {Null}) /\ loading' = loading + 1
     \/ vm \in freed /\ UNCHANGED <<freed, loading>>
  /\ UNCHANGED <<backend, vm, made, halted, holds, hookVars, wireVars, serverVars>>

(* Mutant: a load in flight is counted as in flight for ever. *)
LoadDoneAgain ==
  /\ loading > 0
  /\ made' = made + 1 /\ vm' = made'
  /\ UNCHANGED <<uiVars, freed, loading, loopVars, halted, holds, hookVars, wireVars,
                 serverVars>>

(* loadElf after its await: movie86.loadVm made a Vm *)
LoadDone ==
  /\ loading > 0 /\ loading' = loading - 1
  /\ made' = made + 1 /\ vm' = made'
  /\ UNCHANGED <<uiVars, freed, loopVars, halted, holds, hookVars, wireVars, serverVars>>

(* or rejected the ELF. *)
LoadRejected ==
  /\ loading > 0 /\ loading' = loading - 1
  /\ UNCHANGED <<uiVars, vm, made, freed, loopVars, halted, holds, hookVars, wireVars,
                 serverVars>>

(* run: a freed Vm throws, a halted one returns. *)
RunLocal ==
  /\ vm \notin freed \union halted
  /\ loop' = vm /\ stale' = Sleepers /\ localRunning' = TRUE

(* Mutant: the finally of run() does not compare run ids. *)
FinallyAlways(latest) == localRunning' = FALSE

(* The finally of run(): only the latest run gives the Run button back. *)
Finally(latest) == localRunning' = IF latest THEN FALSE ELSE localRunning

(* The loop's Vm halts in a step or a batch; steps that do not halt it are not *)
(* told apart.                                                                 *)
LoopHalts ==
  /\ loop \notin {Null} \union halted
  /\ halted' = halted \union {loop}
  /\ UNCHANGED <<uiVars, vmVars, loopVars, holds, hookVars, wireVars, serverVars>>

(* A loop wakes and shouldContinue says no: its Vm halted, or its run is old. *)
LoopEnds ==
  /\ loop \in halted /\ loop' = Null /\ Finally(TRUE)
  /\ UNCHANGED <<uiVars, vmVars, stale, halted, holds, hookVars, wireVars, serverVars>>

StaleEnds(v) ==
  /\ v \in stale /\ stale' = stale \ {v} /\ Finally(FALSE)
  /\ UNCHANGED <<uiVars, vmVars, loop, halted, holds, hookVars, wireVars, serverVars>>

(* The Step button. *)
ClickStep ==
  /\ UserActs /\ backend = "movie86" /\ vm \notin {Null} \union freed \union halted
  /\ halted' = halted \union {vm}
  /\ UNCHANGED <<backend, vmVars, loopVars, holds, hookVars, wireVars, serverVars>>

-----------------------------------------------------------------------------
(* useTurbo86Session: what the page starts. *)

Send(s, m) ==
  /\ Len(toServer[s]) < MaxQueue
  /\ toServer' = [toServer EXCEPT ![s] = Append(@, m)]

(* forward after its await: snapshot the Vm, a freed one throws, and send it. *)
SendLoad(s, v) ==
  \/ v \notin freed /\ Send(s, Load(holds[v])) /\ turboRunning' = TRUE
  \/ v \in freed /\ UNCHANGED <<toServer, turboRunning>>

(* ensureOpen makes a socket *)
Connect(s, v) ==
  /\ ready[s] = "unused" /\ \A t \in Sockets : t < s => ready[t] # "unused"
  /\ ready' = [ready EXCEPT ![s] = "connecting"]
  /\ awaiting' = [awaiting EXCEPT ![s] = v]
  /\ wsRef' = s

(* unless there is an open one, or the address is not one. *)
Forward(v) ==
  /\ vmRef' = v
  /\ \/ IsOpen(wsRef) /\ SendLoad(wsRef, v) /\ UNCHANGED <<wsRef, ready, awaiting>>
     \/ /\ ~IsOpen(wsRef)
        /\ \/ \E s \in Sockets : Connect(s, v)
           \/ UNCHANGED <<wsRef, ready, awaiting>>
        /\ UNCHANGED <<toServer, turboRunning>>
  /\ UNCHANGED <<resolver, toClient>>

(* reverse up to its await: ask for a Pause, if there is a session. *)
Reverse(v) ==
  /\ \/ IsOpen(wsRef) /\ Send(wsRef, Pause) /\ resolver' = v /\ UNCHANGED turboRunning
     \/ ~IsOpen(wsRef) /\ turboRunning' = FALSE /\ UNCHANGED <<toServer, resolver>>
  /\ UNCHANGED <<wsRef, vmRef, ready, awaiting, toClient>>

(* Mutant: Stop only gives the Run button back. *)
StopTurboUnsent ==
  /\ turboRunning' = FALSE
  /\ UNCHANGED <<toServer, wsRef, vmRef, resolver, ready, awaiting, toClient>>

(* stop: the guest is killed, the page does not wait for it. *)
StopTurbo ==
  /\ turboRunning' = FALSE
  /\ IF IsOpen(wsRef) THEN Send(wsRef, Stop) ELSE UNCHANGED toServer
  /\ UNCHANGED <<wsRef, vmRef, resolver, ready, awaiting, toClient>>

-----------------------------------------------------------------------------
(* useExecBackend: the backend selection and the Run and Stop buttons. *)

planBackendSelect(current, target, running) ==
  IF target = current THEN "none"
  ELSE IF ~running THEN "select"
  ELSE IF target = "turbo86" THEN "forward-handover" ELSE "reverse-handover"

planRun(b) == IF b = "movie86" THEN "local-run" ELSE "forward-handover"

(* Mutant: the local loop is not stopped before a forward handover. *)
HandForwardUnstopped ==
  /\ UNCHANGED loopVars
  /\ IF vm = Null THEN UNCHANGED <<hookVars, wireVars>> ELSE Forward(vm)

HandForward ==
  /\ StopLocal
  /\ IF vm = Null THEN UNCHANGED <<hookVars, wireVars>> ELSE Forward(vm)

HandBack ==
  /\ UNCHANGED loopVars
  /\ IF vm = Null THEN UNCHANGED <<hookVars, wireVars>> ELSE Reverse(vm)

SelectBackend(target) ==
  /\ UserActs /\ backend' = target
  /\ LET plan == planBackendSelect(backend, target, Running) IN
     \/ plan = "forward-handover" /\ HandForward
     \/ plan = "reverse-handover" /\ HandBack
     \/ plan \in {"none", "select"} /\ UNCHANGED <<loopVars, hookVars, wireVars>>
  /\ UNCHANGED <<vmVars, halted, holds, serverVars>>

ClickRun ==
  /\ UserActs /\ vm # Null /\ ~Running
  /\ \/ planRun(backend) = "local-run" /\ RunLocal /\ UNCHANGED <<hookVars, wireVars>>
     \/ planRun(backend) = "forward-handover" /\ Forward(vm) /\ UNCHANGED loopVars
  /\ UNCHANGED <<backend, vmVars, halted, holds, serverVars>>

ClickStop ==
  /\ UserActs /\ Running
  /\ IF backend = "movie86"
     THEN StopLocal /\ UNCHANGED <<hookVars, wireVars>>
     ELSE StopTurbo /\ UNCHANGED loopVars
  /\ UNCHANGED <<backend, vmVars, halted, holds, serverVars>>

-----------------------------------------------------------------------------
(* useTurbo86Session: what a socket's events do. *)

(* The open listener, and the forward that waited for it. *)
SocketOpens(s) ==
  /\ ready[s] = "connecting" /\ ready' = [ready EXCEPT ![s] = "open"]
  /\ awaiting' = [awaiting EXCEPT ![s] = Null]
  /\ SendLoad(s, awaiting[s])
  /\ UNCHANGED <<uiVars, localVars, wsRef, vmRef, resolver, toClient, serverVars>>

(* reverse after its await: the state lands in the Vm, unless that was freed. *)
Land(v, p) ==
  /\ turboRunning' = FALSE
  /\ IF v \in freed THEN UNCHANGED <<holds, halted>>
     ELSE holds' = [holds EXCEPT ![v] = p] /\ halted' = halted \ {v}

TakeFirst(s) ==
  /\ ready[s] = "open" /\ toClient[s] # <<>>
  /\ toClient' = [toClient EXCEPT ![s] = Tail(@)]
  /\ UNCHANGED <<uiVars, vmVars, loopVars, wsRef, vmRef, ready, awaiting, toServer,
                 serverVars>>

(* handleMessage: a frame is written to the Vm of vmRef, *)
ReceiveFrame(s) ==
  /\ TakeFirst(s) /\ Head(toClient[s]).kind = "frame"
  /\ UNCHANGED <<turboRunning, resolver, holds, halted>>

(* Exit and Fault end the run, *)
ReceiveEnd(s) ==
  /\ TakeFirst(s) /\ Head(toClient[s]).kind \in {"exit", "fault"}
  /\ turboRunning' = FALSE
  /\ UNCHANGED <<resolver, holds, halted>>

(* and Paused resolves the reverse in flight, whatever made the guest pause. *)
ReceivePaused(s) ==
  /\ TakeFirst(s) /\ Head(toClient[s]).kind \in {"paused", "killed"}
  /\ resolver' = Null
  /\ IF resolver = Null THEN UNCHANGED <<turboRunning, holds, halted>>
     ELSE Land(resolver, Head(toClient[s]).prog)

(* The server's close frame: the socket no longer sends. *)
SocketCloses(s) ==
  /\ ready[s] = "open" /\ session[s] = "ended" /\ toClient[s] = <<>>
  /\ ready' = [ready EXCEPT ![s] = "closing"]
  /\ UNCHANGED <<uiVars, localVars, hookVars, awaiting, toServer, toClient, serverVars>>

(* Mutant: teardown leaves the flag. *)
TeardownKeepsFlag == wsRef' = Null /\ UNCHANGED turboRunning

teardown == wsRef' = Null /\ turboRunning' = FALSE

(* Mutant: a reverse in flight is left waiting. *)
AbortReverseNot == UNCHANGED resolver

(* A reverse in flight is resolved with no state, and gives up. *)
AbortReverse == resolver' = Null

(* The close listener: after the server's close, a failed connection, or one *)
(* that was lost with what was under way on it.                              *)
SocketClosed(s) ==
  /\ ready[s] \in {"connecting", "open", "closing"}
  /\ ready' = [ready EXCEPT ![s] = "closed"]
  /\ awaiting' = [awaiting EXCEPT ![s] = Null]
  /\ toServer' = [toServer EXCEPT ![s] = <<>>] /\ toClient' = [toClient EXCEPT ![s] = <<>>]
  /\ session' = [session EXCEPT ![s] = "ended"]
  /\ teardown /\ AbortReverse
  /\ UNCHANGED <<uiVars, localVars, vmRef, guest>>

-----------------------------------------------------------------------------
(* The server (Turbo86Session).  A session in "setup" takes one load; a        *)
(* "running" guest may be asked to pause; a message it does not expect and a   *)
(* Stop kill it.                                                               *)
ServerReads(s) ==
  /\ session[s] \in {"setup", "running", "pausing"} /\ toServer[s] # <<>>
  /\ toServer' = [toServer EXCEPT ![s] = Tail(@)]
  /\ LET m == Head(toServer[s]) IN
     \/ /\ session[s] = "setup" /\ m.kind = "load"
        /\ session' = [session EXCEPT ![s] = "running"]
        /\ guest' = [guest EXCEPT ![s] = m.prog]
     \/ /\ session[s] = "setup" /\ m.kind # "load"
        /\ session' = [session EXCEPT ![s] = "ended"] /\ UNCHANGED guest
     \/ /\ session[s] # "setup" /\ UNCHANGED guest
        /\ session' = [session EXCEPT ![s] =
                         IF m.kind = "pause" THEN "pausing" ELSE "dying"]
  /\ UNCHANGED <<uiVars, localVars, hookVars, ready, awaiting, toClient>>

HasGuest(s) == session[s] \in {"running", "pausing", "dying"}

GuestFrame(s) ==
  /\ HasGuest(s) /\ Len(toClient[s]) < MaxQueue
  /\ toClient' = [toClient EXCEPT ![s] = Append(@, Frame)]
  /\ UNCHANGED <<uiVars, localVars, hookVars, ready, awaiting, toServer, serverVars>>

(* One terminal event.  A Paused carries the guest's state; one for a guest *)
(* that the session killed carries zero registers and no memory.            *)
GuestEnds(s) ==
  /\ HasGuest(s)
  /\ \E k \in Ends :
       /\ k = "killed" => session[s] = "dying"
       /\ toClient' = [toClient EXCEPT ![s] =
            Append(@, [kind |-> k, prog |-> IF k = "paused" THEN guest[s] ELSE Blank])]
  /\ session' = [session EXCEPT ![s] = "ended"]
  /\ UNCHANGED <<uiVars, localVars, hookVars, ready, awaiting, toServer, guest>>

-----------------------------------------------------------------------------
UserStep ==
  LoadElf \/ ClickStep \/ ClickRun \/ ClickStop \/ \E b \in BACKENDS : SelectBackend(b)

LocalStep ==
  LoadDone \/ LoadRejected \/ LoopHalts \/ LoopEnds \/ \E v \in Vms : StaleEnds(v)

Receive(s) == ReceiveFrame(s) \/ ReceiveEnd(s) \/ ReceivePaused(s)

SocketStep(s) == SocketOpens(s) \/ Receive(s) \/ SocketCloses(s) \/ SocketClosed(s)

ServerStep(s) == ServerReads(s) \/ GuestFrame(s) \/ GuestEnds(s)

Next == UserStep \/ LocalStep \/ \E s \in Sockets : SocketStep(s) \/ ServerStep(s)

Spec == Init /\ [][Next]_vars

(* The page's event loop and the server go on; a connection attempt ends one   *)
(* way or the other.  The user owes nothing, and a guest ends only if it was   *)
(* asked to (CloseCompletes and PauseEndsSession of Turbo86Runner).            *)
Fairness ==
  /\ WF_vars(LoopEnds) /\ WF_vars(LoadDone \/ LoadRejected)
  /\ \A s \in Sockets :
       /\ WF_vars(ready[s] = "connecting" /\ (SocketOpens(s) \/ SocketClosed(s)))
       /\ WF_vars(Receive(s) \/ SocketCloses(s))
       /\ WF_vars(ready[s] = "closing" /\ SocketClosed(s))
       /\ WF_vars(ServerReads(s))
       /\ WF_vars(session[s] \in {"pausing", "dying"} /\ GuestEnds(s))

FairSpec == Spec /\ Fairness

-----------------------------------------------------------------------------
TypeOK ==
  /\ backend \in BACKENDS /\ hasty \in BOOLEAN
  /\ vm \in 0..MaxVms /\ made \in 0..MaxVms /\ freed \subseteq Vms /\ loading \in 0..MaxLoads
  /\ loop \in 0..MaxVms /\ stale \subseteq Vms /\ localRunning \in BOOLEAN
  /\ halted \subseteq Vms /\ holds \in [Vms -> 0..MaxVms]
  /\ wsRef \in 0..MaxSockets /\ vmRef \in 0..MaxVms
  /\ turboRunning \in BOOLEAN /\ resolver \in 0..MaxVms
  /\ ready \in [Sockets -> {"unused", "connecting", "open", "closing", "closed"}]
  /\ awaiting \in [Sockets -> 0..MaxVms]
  /\ toServer \in [Sockets -> Seq(Messages)] /\ toClient \in [Sockets -> Seq(Events)]
  /\ session \in [Sockets -> {"setup", "running", "pausing", "dying", "ended"}]
  /\ guest \in [Sockets -> 0..MaxVms]

(* The page offers Stop exactly while a loop of the latest run is alive: a loop *)
(* cancelled long ago that wakes at last does not take the button of the run    *)
(* that replaced it.                                                            *)
RunFlagAgrees == localRunning <=> loop # Null

(* The run loop that may still step has a Vm that nobody freed, though loadElf *)
(* frees the Vm in use while the loop sleeps.                                  *)
LoopNotFreed == loop \notin freed

(* A guest runs at the other end of a socket, or a load is under way to start it. *)
GuestLive(s) ==
  \/ HasGuest(s)
  \/ session[s] = "setup" /\ \E i \in DOMAIN toServer[s] : toServer[s][i].kind = "load"

(* A Stop is under way to it, or it is being killed. *)
ToldToEnd(s) ==
  session[s] = "dying" \/ \E i \in DOMAIN toServer[s] : toServer[s][i].kind = "stop"

(* While a local loop may still step, every guest on every socket has been told  *)
(* to end, as long as the user clicks only when the session is settled.  Stop    *)
(* does not wait for the guest, so one that has been told may run on for a while *)
(* beside the loop that is started next.                                         *)
OneEngine ==
  ~hasty /\ loop # Null => \A s \in Sockets : GuestLive(s) => ToldToEnd(s)

(* A reverse handover comes to an end: its Paused arrives, or its session's end *)
(* gives it up, whatever the guest does.                                        *)
ReverseEnds == resolver # Null ~> resolver = Null

(* Somewhere a guest runs or is about to. *)
NativeLive == \E s \in Sockets : GuestLive(s)

(* The page does not show for ever as running a guest that is gone. *)
FlagFollows == turboRunning /\ ~NativeLive ~> ~turboRunning \/ NativeLive

(* "turbo86 is actively executing the handed-over program" is what running      *)
(* says: a guest that runs on is shown, and can be stopped.                     *)
GuestShown == NativeLive ~> turboRunning \/ ~NativeLive

(* "The currently-mounted Vm; null between loads": once no load is under way,  *)
(* the mounted Vm, if there is one, is not one that was freed.                 *)
VmMounted == loading = 0 => vm \notin freed
===============================================================================
