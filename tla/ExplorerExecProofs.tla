-------------------------- MODULE ExplorerExecProofs --------------------------
(***************************************************************************)
(* Theorems about ExplorerExec, for any number of Vms, sockets and queued  *)
(* messages.                                                               *)
(***************************************************************************)
EXTENDS ExplorerExec, TLAPS

USE MaxVmsAssumption, MaxSocketsAssumption, MaxLoadsAssumption, MaxQueueAssumption
USE DEF uiVars, vmVars, loopVars, localVars, hookVars, wireVars, serverVars, Vms, Sockets, Null,
        Blank, BACKENDS

-----------------------------------------------------------------------------
(* Types.  They depend on two facts more: the Vms asked for are within their   *)
(* bound, and a socket that connects has a forward waiting for it.             *)
LoadsFit == made + loading =< MaxVms
Awaited == \A s \in Sockets : ready[s] = "connecting" => awaiting[s] # Null
TypeInv == TypeOK /\ LoadsFit /\ Awaited

(* The types of useMovie86Vm's state. *)
LocalType ==
  /\ backend \in BACKENDS /\ hasty \in BOOLEAN
  /\ vm \in 0..MaxVms /\ made \in 0..MaxVms /\ freed \subseteq Vms /\ loading \in 0..MaxLoads
  /\ loop \in 0..MaxVms /\ stale \subseteq Vms /\ localRunning \in BOOLEAN
  /\ halted \subseteq Vms /\ holds \in [Vms -> 0..MaxVms]
  /\ LoadsFit

(* The types of useTurbo86Session's state and of its sockets. *)
HookType ==
  /\ wsRef \in 0..MaxSockets /\ vmRef \in 0..MaxVms
  /\ turboRunning \in BOOLEAN /\ resolver \in 0..MaxVms
  /\ ready \in [Sockets -> {"unused", "connecting", "open", "closing", "closed"}]
  /\ awaiting \in [Sockets -> 0..MaxVms]
  /\ toServer \in [Sockets -> Seq(Messages)]
  /\ Awaited

(* The types of what the server does. *)
ServerType ==
  /\ toClient \in [Sockets -> Seq(Events)]
  /\ session \in [Sockets -> {"setup", "running", "pausing", "dying", "ended"}]
  /\ guest \in [Sockets -> 0..MaxVms]

LEMMA Types == TypeInv <=> LocalType /\ HookType /\ ServerType
BY DEF TypeInv, TypeOK, LocalType, HookType, ServerType

LEMMA TypesNext == TypeInv' <=> LocalType' /\ HookType' /\ ServerType'
BY DEF TypeInv, TypeOK, LocalType, HookType, ServerType

(* What the page sends is a message. *)
LEMMA SendTypes ==
  ASSUME HookType, NEW s \in Sockets, NEW m \in Messages, Send(s, m)
  PROVE  toServer' \in [Sockets -> Seq(Messages)]
<1>1. Append(toServer[s], m) \in Seq(Messages)
  BY DEF HookType
<1> QED
  BY <1>1 DEF HookType, Send

(* A forward after its await. *)
LEMMA SendLoadTypes ==
  ASSUME HookType, LocalType, NEW s \in Sockets, NEW v \in Vms, SendLoad(s, v)
  PROVE  toServer' \in [Sockets -> Seq(Messages)] /\ turboRunning' \in BOOLEAN
<1>1. Load(holds[v]) \in Messages
  BY DEF LocalType, Load, Messages
<1>2. CASE v \in freed
  BY <1>2 DEF SendLoad, HookType
<1>3. CASE v \notin freed
  <2>1. toServer' \in [Sockets -> Seq(Messages)]
    BY <1>1, <1>3, SendTypes DEF SendLoad
  <2> QED
    BY <1>3, <2>1 DEF SendLoad
<1> QED
  BY <1>2, <1>3

(* A forward before its await, or all of it. *)
LEMMA ForwardTypes ==
  ASSUME HookType, LocalType, NEW v \in Vms, Forward(v)
  PROVE  HookType'
<1>1. CASE IsOpen(wsRef)
  <2>1. wsRef \in Sockets
    BY <1>1 DEF IsOpen, HookType
  <2>2. SendLoad(wsRef, v) /\ UNCHANGED <<wsRef, ready, awaiting>>
    BY <1>1 DEF Forward
  <2> QED
    BY <2>1, <2>2, SendLoadTypes DEF Forward, HookType, Awaited
<1>2. CASE ~IsOpen(wsRef)
  <2>1. CASE UNCHANGED <<wsRef, ready, awaiting>>
    BY <1>2, <2>1 DEF Forward, HookType, Awaited
  <2>2. ASSUME NEW s \in Sockets, Connect(s, v) PROVE HookType'
    BY <1>2, <2>2 DEF Forward, Connect, HookType, Awaited
  <2> QED
    BY <1>2, <2>1, <2>2 DEF Forward
<1> QED
  BY <1>1, <1>2

LEMMA ReverseTypes ==
  ASSUME HookType, NEW v \in Vms, Reverse(v)
  PROVE  HookType'
<1>1. Pause \in Messages
  BY DEF Pause, Messages
<1>2. toServer' \in [Sockets -> Seq(Messages)]
  BY <1>1, SendTypes DEF Reverse, IsOpen, HookType
<1>3. UNCHANGED <<wsRef, vmRef, ready, awaiting>>
  BY DEF Reverse
<1>4. turboRunning' \in BOOLEAN
  BY DEF Reverse, HookType
<1>5. resolver' = v \/ resolver' = resolver
  BY DEF Reverse
<1> QED
  BY <1>2, <1>3, <1>4, <1>5 DEF HookType, Awaited

LEMMA StopTypes ==
  ASSUME HookType, StopTurbo
  PROVE  HookType'
<1>1. Stop \in Messages
  BY DEF Stop, Messages
<1>2. toServer' \in [Sockets -> Seq(Messages)]
  BY <1>1, SendTypes DEF StopTurbo, IsOpen, HookType
<1> QED
  BY <1>2 DEF StopTurbo, HookType, Awaited

(* The steps of the local Vm alone. *)
LEMMA LocalStepTypes ==
  ASSUME LocalType,
         LoadElf \/ LoadDone \/ LoadRejected \/ LoopHalts \/ LoopEnds \/ ClickStep
           \/ \E v \in Vms : StaleEnds(v)
  PROVE  LocalType' /\ UNCHANGED <<hookVars, wireVars, serverVars>>
<1>1. UNCHANGED <<hookVars, wireVars, serverVars>>
  BY DEF LoadElf, LoadDone, LoadRejected, LoopHalts, LoopEnds, ClickStep, StaleEnds
<1>2. UNCHANGED <<backend, holds>> /\ hasty' \in BOOLEAN
  BY DEF UserActs, LocalType, LoadElf, LoadDone, LoadRejected, LoopHalts, LoopEnds, ClickStep, StaleEnds
<1>3. localRunning' \in BOOLEAN
  BY DEF LoadElf, LoadDone, LoadRejected, LoopHalts, LoopEnds, ClickStep, StaleEnds,
         StopLocal, Finally, LocalType
<1> /\ vm \in 0..MaxVms /\ made \in 0..MaxVms /\ loading \in 0..MaxLoads
    /\ freed \subseteq Vms /\ halted \subseteq Vms
    /\ loop \in 0..MaxVms /\ stale \subseteq Vms /\ LoadsFit
  BY DEF LocalType
<1>4. CASE LoadElf
  <2>1. loading' \in 0..MaxLoads /\ LoadsFit'
    BY <1>4 DEF LoadElf, LoadsFit
  <2>4. freed' \subseteq freed \union ({vm} \ {Null})
    BY <1>4 DEF LoadElf
  <2>5. freed' \subseteq Vms
    BY <2>4
  <2>2. loop' \in 0..MaxVms /\ stale' \subseteq Vms
    BY <1>4 DEF LoadElf, StopLocal, Cancel, Sleepers, LocalType
  <2>3. UNCHANGED <<vm, made, halted>>
    BY <1>4 DEF LoadElf
  <2> QED
    BY <1>1, <1>2, <1>3, <2>1, <2>2, <2>3, <2>5 DEF LocalType
<1>5. CASE LoadDone \/ LoadRejected
  <2>1. vm' \in 0..MaxVms /\ made' \in 0..MaxVms /\ loading' \in 0..MaxLoads /\ LoadsFit'
    BY <1>5 DEF LoadDone, LoadRejected, LocalType, LoadsFit
  <2>2. UNCHANGED <<freed, loop, stale, halted>>
    BY <1>5 DEF LoadDone, LoadRejected
  <2> QED
    BY <1>1, <1>2, <1>3, <2>1, <2>2 DEF LocalType
<1>6. CASE LoopHalts \/ ClickStep
  <2>3. \/ halted' = halted \union {loop} /\ loop # Null
        \/ halted' = halted \union {vm} /\ vm # Null
    BY <1>6 DEF LoopHalts, ClickStep
  <2>4. loop # Null => loop \in Vms
    OBVIOUS
  <2>5. vm # Null => vm \in Vms
    OBVIOUS
  <2>1. halted' \subseteq Vms
    <3>1. CASE halted' = halted \union {loop} /\ loop # Null
      BY <2>4, <3>1, Zenon
    <3>2. CASE halted' = halted \union {vm} /\ vm # Null
      BY <2>5, <3>2, Zenon
    <3> QED
      BY <2>3, <3>1, <3>2
  <2>2. UNCHANGED <<vm, made, freed, loading, loop, stale>>
    BY <1>6 DEF LoopHalts, ClickStep
  <2> QED
    BY <1>1, <1>2, <1>3, <2>1, <2>2 DEF LocalType, LoadsFit
<1>7. CASE LoopEnds \/ \E v \in Vms : StaleEnds(v)
  <2>3. /\ loop' = Null \/ loop' = loop
        /\ stale' = stale \/ \E v \in Vms : stale' = stale \ {v}
    BY <1>7 DEF LoopEnds, StaleEnds
  <2>4. loop' \in 0..MaxVms
    BY <2>3
  <2>1. stale' \subseteq Vms
    BY <2>3, Zenon
  <2>2. UNCHANGED <<vm, made, freed, loading, halted>>
    BY <1>7 DEF LoopEnds, StaleEnds
  <2> QED
    BY <1>1, <1>2, <1>3, <2>1, <2>2, <2>4 DEF LocalType, LoadsFit
<1> QED
  BY <1>4, <1>5, <1>6, <1>7

(* The run loop after a click. *)
LEMMA LoopTypes ==
  ASSUME LocalType, StopLocal \/ (RunLocal /\ vm # Null) \/ UNCHANGED loopVars
  PROVE  loop' \in 0..MaxVms /\ stale' \subseteq Vms /\ localRunning' \in BOOLEAN
<1>1. vm \in 0..MaxVms /\ loop \in 0..MaxVms /\ stale \subseteq Vms
  BY DEF LocalType
<1>2. localRunning' \in BOOLEAN
  BY DEF LocalType, StopLocal, RunLocal
<1>3. loop' \in {Null, vm, loop}
  BY DEF StopLocal, RunLocal, Cancel
<1>4. stale' = stale \/ stale' = stale \union ({loop} \ {Null})
  BY DEF StopLocal, RunLocal, Cancel, Sleepers
<1>5. {loop} \ {Null} \subseteq Vms
  BY <1>1
<1>6. stale' \subseteq Vms
  BY <1>1, <1>4, <1>5, Zenon
<1> QED
  BY <1>1, <1>2, <1>3, <1>6

LEMMA ClickTypes ==
  ASSUME LocalType, HookType, ServerType,
         ClickRun \/ ClickStop \/ \E b \in BACKENDS : SelectBackend(b)
  PROVE  LocalType' /\ HookType' /\ ServerType'
<1>1. UNCHANGED <<vmVars, halted, holds, toClient, serverVars>>
  BY DEF ClickRun, ClickStop, SelectBackend, HandForward, HandBack, Forward, Reverse, StopTurbo
<1>2. backend' \in BACKENDS /\ hasty' \in BOOLEAN
  BY DEF UserActs, LocalType, ClickRun, ClickStop, SelectBackend
<1>3. StopLocal \/ (RunLocal /\ vm # Null) \/ UNCHANGED loopVars
  BY DEF ClickRun, ClickStop, SelectBackend, HandForward, HandBack
<1>4. LocalType'
  BY <1>1, <1>2, <1>3, LoopTypes DEF LocalType, LoadsFit
<1>5. \/ vm # Null /\ (Forward(vm) \/ Reverse(vm))
      \/ StopTurbo \/ UNCHANGED <<hookVars, wireVars>>
  BY DEF ClickRun, ClickStop, SelectBackend, HandForward, HandBack
<1>6. HookType'
  <2>1. vm # Null => vm \in Vms
    BY DEF LocalType
  <2>2. CASE vm # Null /\ (Forward(vm) \/ Reverse(vm))
    BY <2>1, <2>2, ForwardTypes, ReverseTypes
  <2>3. CASE StopTurbo
    BY <2>3, StopTypes
  <2>4. CASE UNCHANGED <<hookVars, wireVars>>
    BY <2>4 DEF HookType, Awaited
  <2> QED
    BY <1>5, <2>2, <2>3, <2>4
<1>7. ServerType'
  BY <1>1 DEF ServerType
<1> QED
  BY <1>4, <1>6, <1>7

(* What a socket's events do. *)
LEMMA OpenTypes ==
  ASSUME LocalType, HookType, ServerType, NEW s \in Sockets, SocketOpens(s)
  PROVE  LocalType' /\ HookType' /\ ServerType'
<1>1. LocalType' /\ ServerType'
  BY DEF SocketOpens, LocalType, LoadsFit, ServerType
<1>2. awaiting[s] \in Vms
  BY DEF SocketOpens, HookType, Awaited
<1>3. toServer' \in [Sockets -> Seq(Messages)] /\ turboRunning' \in BOOLEAN
  BY <1>2, SendLoadTypes DEF SocketOpens
<1>4. UNCHANGED <<wsRef, vmRef, resolver>>
  BY DEF SocketOpens
<1>5. /\ ready' = [ready EXCEPT ![s] = "open"]
      /\ awaiting' = [awaiting EXCEPT ![s] = Null]
  BY DEF SocketOpens
<1> QED
  BY <1>1, <1>3, <1>4, <1>5 DEF HookType, Awaited

LEMMA ReceiveTypes ==
  ASSUME LocalType, HookType, ServerType, NEW s \in Sockets, Receive(s)
  PROVE  LocalType' /\ HookType' /\ ServerType'
<1>1. TakeFirst(s)
  BY DEF Receive, ReceiveFrame, ReceiveEnd, ReceivePaused
<1>2. ServerType'
  <2>1. toClient[s] \in Seq(Events) /\ toClient[s] # <<>>
    BY <1>1 DEF TakeFirst, ServerType
  <2>2. Tail(toClient[s]) \in Seq(Events)
    BY <2>1
  <2> QED
    BY <1>1, <2>2 DEF TakeFirst, ServerType
<1>3. Head(toClient[s]).prog \in 0..MaxVms
  <2>1. Head(toClient[s]) \in Events
    BY <1>1 DEF TakeFirst, ServerType
  <2> QED
    BY <2>1 DEF Events
<1>4. turboRunning' \in BOOLEAN
  BY DEF Receive, ReceiveFrame, ReceiveEnd, ReceivePaused, Land, HookType
<1>5. resolver' \in {Null, resolver}
  BY DEF Receive, ReceiveFrame, ReceiveEnd, ReceivePaused
<1>6. HookType'
  BY <1>1, <1>4, <1>5 DEF TakeFirst, HookType, Awaited
<1>7. \/ UNCHANGED <<holds, halted>>
      \/ /\ holds' = [holds EXCEPT ![resolver] = Head(toClient[s]).prog]
         /\ halted' = halted \ {resolver}
  BY DEF Receive, ReceiveFrame, ReceiveEnd, ReceivePaused, Land
<1>8. holds' \in [Vms -> 0..MaxVms] /\ halted' \subseteq Vms
  BY <1>3, <1>7 DEF LocalType
<1> QED
  BY <1>1, <1>2, <1>6, <1>8 DEF TakeFirst, LocalType, LoadsFit

LEMMA CloseTypes ==
  ASSUME LocalType, HookType, ServerType, NEW s \in Sockets,
         SocketCloses(s) \/ SocketClosed(s)
  PROVE  LocalType' /\ HookType' /\ ServerType'
<1>1. CASE SocketCloses(s)
  BY <1>1 DEF SocketCloses, LocalType, LoadsFit, HookType, Awaited, ServerType
<1>2. CASE SocketClosed(s)
  <2>1. LocalType'
    BY <1>2 DEF SocketClosed, LocalType, LoadsFit
  <2>2. ServerType'
    BY <1>2 DEF SocketClosed, ServerType
  <2>3. turboRunning' = FALSE /\ wsRef' = Null /\ resolver' = Null /\ UNCHANGED vmRef
    BY <1>2 DEF SocketClosed, teardown, AbortReverse
  <2>5. toServer' \in [Sockets -> Seq(Messages)]
    BY <1>2 DEF SocketClosed, HookType
  <2>6. /\ ready' = [ready EXCEPT ![s] = "closed"]
        /\ awaiting' = [awaiting EXCEPT ![s] = Null]
    BY <1>2 DEF SocketClosed
  <2>7. Awaited'
    BY <2>6 DEF HookType, Awaited
  <2>8. ready' \in [Sockets -> {"unused", "connecting", "open", "closing", "closed"}]
    BY <2>6 DEF HookType
  <2>9. awaiting' \in [Sockets -> 0..MaxVms]
    BY <2>6 DEF HookType
  <2>10. turboRunning' \in BOOLEAN
    BY <2>3
  <2>11. wsRef' \in 0..MaxSockets /\ resolver' \in 0..MaxVms /\ vmRef' \in 0..MaxVms
    BY <1>2 DEF SocketClosed, teardown, AbortReverse, HookType
  <2>4. HookType'
    BY <2>10, <2>11, <2>5, <2>7, <2>8, <2>9 DEF HookType
  <2> QED
    BY <2>1, <2>2, <2>4
<1> QED
  BY <1>1, <1>2

LEMMA ServerStepTypes ==
  ASSUME LocalType, HookType, ServerType, NEW s \in Sockets, ServerStep(s)
  PROVE  LocalType' /\ HookType' /\ ServerType'
<1>1. LocalType'
  BY DEF ServerStep, ServerReads, GuestFrame, GuestEnds, LocalType, LoadsFit
<1>2. CASE ServerReads(s)
  <2>1. toServer[s] \in Seq(Messages) /\ toServer[s] # <<>>
    BY <1>2 DEF ServerReads, HookType
  <2>5. Tail(toServer[s]) \in Seq(Messages) /\ Head(toServer[s]) \in Messages
    BY <2>1
  <2>2. Tail(toServer[s]) \in Seq(Messages) /\ Head(toServer[s]).prog \in 0..MaxVms
    BY <2>5 DEF Messages
  <2>3. HookType'
    BY <1>2, <2>2 DEF ServerReads, HookType, Awaited
  <2>4. ServerType'
    BY <1>2, <2>2 DEF ServerReads, ServerType
  <2> QED
    BY <1>1, <2>3, <2>4
<1>3. CASE GuestFrame(s)
  <2>2. Frame \in Events
    BY DEF Frame, Events
  <2>1. Append(toClient[s], Frame) \in Seq(Events)
    BY <2>2 DEF ServerType
  <2> QED
    BY <1>1, <1>3, <2>1 DEF GuestFrame, HookType, Awaited, ServerType
<1>4. CASE GuestEnds(s)
  <2>1. PICK k \in Ends : toClient' = [toClient EXCEPT ![s] =
            Append(@, [kind |-> k, prog |-> IF k = "paused" THEN guest[s] ELSE Blank])]
    BY <1>4 DEF GuestEnds
  <2>2. [kind |-> k, prog |-> IF k = "paused" THEN guest[s] ELSE Blank] \in Events
    BY DEF ServerType, Events
  <2>3. Append(toClient[s], [kind |-> k, prog |-> IF k = "paused" THEN guest[s] ELSE Blank])
          \in Seq(Events)
    BY <2>2 DEF ServerType
  <2> QED
    BY <1>1, <1>4, <2>1, <2>3 DEF GuestEnds, HookType, Awaited, ServerType
<1> QED
  BY <1>2, <1>3, <1>4 DEF ServerStep

LEMMA TypeInductive == Spec => []TypeInv
<1>1. Init => TypeInv
  <2> SUFFICES ASSUME Init PROVE LocalType /\ HookType /\ ServerType
    BY Types
  <2>1. LocalType
    <3>1. backend \in BACKENDS /\ hasty \in BOOLEAN /\ localRunning \in BOOLEAN
      BY DEF Init
    <3>2. /\ vm = 0 /\ made = 0 /\ loading = 0 /\ loop = 0
          /\ freed = {} /\ stale = {} /\ halted = {}
      BY DEF Init
    <3>3. holds \in [Vms -> 0..MaxVms]
      BY DEF Init
    <3> QED
      BY <3>1, <3>2, <3>3 DEF LocalType, LoadsFit
  <2>2. HookType
    <3>1. toServer \in [Sockets -> Seq(Messages)]
      BY DEF Init
    <3>2. ready \in [Sockets -> {"unused", "connecting", "open", "closing", "closed"}]
      BY DEF Init
    <3>3. awaiting \in [Sockets -> 0..MaxVms] /\ Awaited
      BY DEF Init, Awaited
    <3>4. turboRunning \in BOOLEAN
      BY DEF Init
    <3>5. wsRef = 0 /\ vmRef = 0 /\ resolver = 0
      BY DEF Init
    <3>6. wsRef \in 0..MaxSockets /\ vmRef \in 0..MaxVms /\ resolver \in 0..MaxVms
      BY <3>5
    <3> QED
      BY <3>1, <3>2, <3>3, <3>4, <3>6 DEF HookType
  <2>3. ServerType
    <3>1. toClient \in [Sockets -> Seq(Events)]
      BY DEF Init
    <3> QED
      BY <3>1 DEF Init, ServerType
  <2> QED
    BY <2>1, <2>2, <2>3
<1>2. TypeInv /\ [Next]_vars => TypeInv'
  <2> SUFFICES ASSUME LocalType, HookType, ServerType, [Next]_vars
               PROVE  LocalType' /\ HookType' /\ ServerType'
    BY Types, TypesNext
  <2>1. CASE UserStep \/ LocalStep
    <3>1. CASE ClickRun \/ ClickStop \/ \E b \in BACKENDS : SelectBackend(b)
      BY <3>1, ClickTypes
    <3>2. CASE LoadElf \/ LoadDone \/ LoadRejected \/ LoopHalts \/ LoopEnds \/ ClickStep
                 \/ \E v \in Vms : StaleEnds(v)
      <4>1. LocalType' /\ UNCHANGED <<hookVars, wireVars, serverVars>>
        BY <3>2, LocalStepTypes
      <4> QED
        BY <4>1 DEF HookType, Awaited, ServerType
    <3> QED
      BY <2>1, <3>1, <3>2 DEF UserStep, LocalStep
  <2>2. ASSUME NEW s \in Sockets, SocketStep(s) \/ ServerStep(s)
        PROVE  LocalType' /\ HookType' /\ ServerType'
    BY <2>2, OpenTypes, ReceiveTypes, CloseTypes, ServerStepTypes DEF SocketStep
  <2>3. CASE UNCHANGED vars
    BY <2>3 DEF vars, LocalType, LoadsFit, HookType, Awaited, ServerType
  <2> QED
    BY <2>1, <2>2, <2>3 DEF Next
<1> QED
  BY <1>1, <1>2, PTL DEF Spec

(* Every reachable state of the page and its sessions is typed. *)
THEOREM TypeCorrect == Spec => []TypeOK
BY TypeInductive, PTL DEF TypeInv

-----------------------------------------------------------------------------
(* The run loop. *)
LoopInv == RunFlagAgrees /\ LoopNotFreed

(* How a step may change the loop: it is cancelled or ends, with the flag; it *)
(* is started on a Vm that is not freed; or it stays and nothing is freed.    *)
LEMMA LoopSteps ==
  ASSUME TypeInv, LoopInv, [Next]_vars
  PROVE  \/ loop' = Null /\ localRunning' = FALSE
         \/ loop' \notin freed \union {Null} /\ localRunning' = TRUE /\ freed' = freed
         \/ UNCHANGED <<loop, localRunning, freed>>
<1>1. CASE LoadElf \/ LoadDone \/ LoadRejected \/ LoopHalts \/ LoopEnds \/ ClickStep
  BY <1>1 DEF LoadElf, LoadDone, LoadRejected, LoopHalts, LoopEnds, ClickStep, StopLocal,
              Cancel, Finally
<1>2. ASSUME NEW v \in Vms, StaleEnds(v) PROVE UNCHANGED <<loop, localRunning, freed>>
  BY <1>2 DEF StaleEnds, Finally
<1>3. CASE ClickRun \/ ClickStop \/ \E b \in BACKENDS : SelectBackend(b)
  BY <1>3 DEF ClickRun, RunLocal, ClickStop, SelectBackend, HandForward, HandBack, StopLocal,
              Cancel
<1>4. ASSUME NEW s \in Sockets, SocketStep(s) \/ ServerStep(s)
      PROVE  UNCHANGED <<loop, localRunning, freed>>
  BY <1>4 DEF SocketStep, SocketOpens, Receive, ReceiveFrame, ReceiveEnd, ReceivePaused,
              TakeFirst, SocketCloses, SocketClosed, ServerStep, ServerReads, GuestFrame,
              GuestEnds
<1>5. CASE UNCHANGED vars
  BY <1>5 DEF vars
<1> QED
  BY <1>1, <1>2, <1>3, <1>4, <1>5 DEF Next, UserStep, LocalStep

LEMMA LoopInductive == Spec => []LoopInv
<1>1. Init => LoopInv
  BY DEF Init, LoopInv, RunFlagAgrees, LoopNotFreed
<1>2. TypeInv /\ TypeInv' /\ LoopInv /\ [Next]_vars => LoopInv'
  <2> SUFFICES ASSUME TypeInv, TypeInv', LoopInv, [Next]_vars PROVE LoopInv'
    OBVIOUS
  <2>1. Null \notin freed'
    BY DEF TypeInv, TypeOK
  <2>2. CASE loop' = Null /\ localRunning' = FALSE
    BY <2>1, <2>2 DEF LoopInv, RunFlagAgrees, LoopNotFreed
  <2>3. CASE loop' \notin freed \union {Null} /\ localRunning' = TRUE /\ freed' = freed
    BY <2>3 DEF LoopInv, RunFlagAgrees, LoopNotFreed
  <2>4. CASE UNCHANGED <<loop, localRunning, freed>>
    BY <2>4 DEF LoopInv, RunFlagAgrees, LoopNotFreed
  <2> QED
    BY LoopSteps, <2>2, <2>3, <2>4
<1> QED
  BY <1>1, <1>2, TypeInductive, PTL DEF Spec

(* The page offers Stop exactly while a loop of the latest run is alive. *)
THEOREM RunFlagKept == Spec => []RunFlagAgrees
BY LoopInductive, PTL DEF LoopInv

(* The loop that may still step has a Vm that nobody freed. *)
THEOREM LoopKept == Spec => []LoopNotFreed
BY LoopInductive, PTL DEF LoopInv

-----------------------------------------------------------------------------
(* What ready, the server's session and the wires say of one another. *)
Unopened(s) ==
  ready[s] \in {"unused", "connecting"} => session[s] = "setup" /\ toServer[s] = <<>>
Shut(s) == ready[s] \in {"closing", "closed"} => session[s] = "ended"
EndSent(s) ==
  \A i \in DOMAIN toClient[s] : toClient[s][i].kind \in Ends => session[s] = "ended"
SocketInv == \A s \in Sockets : Unopened(s) /\ Shut(s) /\ EndSent(s)

(* What the page's own steps do to the wires of a socket. *)
Untouched(s) == UNCHANGED <<ready[s], toServer[s], toClient[s], session[s]>>
Posted(s) == ready[s] = "open" /\ UNCHANGED <<ready[s], toClient[s], session[s]>>
Dialled(s) ==
  /\ ready[s] = "unused" /\ ready'[s] = "connecting"
  /\ UNCHANGED <<toServer[s], toClient[s], session[s]>>

LEMMA ForwardWires ==
  ASSUME TypeInv, NEW v, Forward(v), UNCHANGED session, NEW t \in Sockets
  PROVE  Untouched(t) \/ Posted(t) \/ Dialled(t)
<1>1. CASE IsOpen(wsRef)
  <2>1. UNCHANGED <<ready, toClient>> /\ SendLoad(wsRef, v)
    BY <1>1 DEF Forward
  <2>2. t = wsRef \/ toServer'[t] = toServer[t]
    BY <2>1 DEF SendLoad, Send, TypeInv, TypeOK
  <2> QED
    BY <1>1, <2>1, <2>2 DEF IsOpen, Untouched, Posted
<1>2. CASE ~IsOpen(wsRef)
  <2>1. UNCHANGED <<toServer, toClient>>
    BY <1>2 DEF Forward
  <2>2. \/ ready' = ready
        \/ \E s \in Sockets : /\ ready[s] = "unused"
                             /\ ready' = [ready EXCEPT ![s] = "connecting"]
    BY <1>2 DEF Forward, Connect
  <2> QED
    BY <2>1, <2>2 DEF Untouched, Dialled, TypeInv, TypeOK
<1> QED
  BY <1>1, <1>2

(* A message that is not a load, sent on the session's socket if that is open. *)
LEMMA SendWires ==
  ASSUME TypeInv, Reverse(vm) \/ StopTurbo, UNCHANGED session, NEW t \in Sockets
  PROVE  Untouched(t) \/ Posted(t)
<1>1. UNCHANGED <<ready, toClient>>
  BY DEF Reverse, StopTurbo
<1>2. \/ toServer' = toServer
      \/ IsOpen(wsRef) /\ \E m : Send(wsRef, m)
  BY DEF Reverse, StopTurbo
<1>3. toServer'[t] = toServer[t] \/ (IsOpen(wsRef) /\ t = wsRef)
  BY <1>2 DEF Send, TypeInv, TypeOK
<1> QED
  BY <1>1, <1>3 DEF IsOpen, Untouched, Posted

LEMMA PageWires ==
  ASSUME TypeInv, UserStep \/ LocalStep \/ UNCHANGED vars, NEW t \in Sockets
  PROVE  Untouched(t) \/ Posted(t) \/ Dialled(t)
<1>1. CASE ClickRun \/ ClickStop \/ \E b \in BACKENDS : SelectBackend(b)
  <2>1. UNCHANGED session
    BY <1>1 DEF ClickRun, ClickStop, SelectBackend
  <2>2. Forward(vm) \/ Reverse(vm) \/ StopTurbo \/ UNCHANGED wireVars
    BY <1>1 DEF ClickRun, ClickStop, SelectBackend, HandForward, HandBack
  <2>3. CASE UNCHANGED wireVars
    BY <2>1, <2>3 DEF Untouched
  <2> QED
    BY <2>1, <2>2, <2>3, ForwardWires, SendWires
<1>2. CASE LoadElf \/ ClickStep \/ LocalStep \/ UNCHANGED vars
  <2>1. UNCHANGED <<wireVars, serverVars>>
    BY <1>2 DEF LoadElf, ClickStep, LocalStep, LoadDone, LoadRejected, LoopHalts, LoopEnds,
                StaleEnds, vars
  <2> QED
    BY <2>1 DEF Untouched
<1> QED
  BY <1>1, <1>2 DEF UserStep

LEMMA PageSockets ==
  ASSUME TypeInv, SocketInv, UserStep \/ LocalStep \/ UNCHANGED vars
  PROVE  SocketInv'
<1> SUFFICES ASSUME NEW t \in Sockets PROVE (Unopened(t) /\ Shut(t) /\ EndSent(t))'
  BY DEF SocketInv
<1>1. Unopened(t) /\ Shut(t) /\ EndSent(t)
  BY DEF SocketInv
<1>2. Untouched(t) \/ Posted(t) \/ Dialled(t)
  BY PageWires
<1>3. CASE Untouched(t)
  BY <1>1, <1>3 DEF Untouched, Unopened, Shut, EndSent
<1>4. CASE Posted(t)
  BY <1>1, <1>4 DEF Posted, Unopened, Shut, EndSent
<1>5. CASE Dialled(t)
  BY <1>1, <1>5 DEF Dialled, Unopened, Shut, EndSent
<1> QED
  BY <1>2, <1>3, <1>4, <1>5

(* A step of a socket or of its server leaves the other sockets alone. *)
LEMMA OtherSockets ==
  ASSUME TypeInv, NEW s \in Sockets, SocketStep(s) \/ ServerStep(s), NEW t \in Sockets \ {s}
  PROVE  Untouched(t)
<1>1. CASE SocketOpens(s)
  BY <1>1 DEF SocketOpens, SendLoad, Send, Untouched, TypeInv, TypeOK
<1>2. CASE Receive(s)
  BY <1>2 DEF Receive, ReceiveFrame, ReceiveEnd, ReceivePaused, TakeFirst,
              Untouched, TypeInv, TypeOK
<1>3. CASE SocketCloses(s) \/ SocketClosed(s)
  BY <1>3 DEF SocketCloses, SocketClosed, Untouched, TypeInv, TypeOK
<1>4. CASE ServerReads(s)
  BY <1>4 DEF ServerReads, Untouched, TypeInv, TypeOK
<1>5. CASE GuestFrame(s) \/ GuestEnds(s)
  BY <1>5 DEF GuestFrame, GuestEnds, Untouched, TypeInv, TypeOK
<1> QED
  BY <1>1, <1>2, <1>3, <1>4, <1>5 DEF SocketStep, ServerStep

LEMMA OwnSocket ==
  ASSUME TypeInv, NEW s \in Sockets, SocketStep(s) \/ ServerStep(s),
         Unopened(s), Shut(s), EndSent(s)
  PROVE  (Unopened(s) /\ Shut(s) /\ EndSent(s))'
<1> /\ ready \in [Sockets -> {"unused", "connecting", "open", "closing", "closed"}]
    /\ session \in [Sockets -> {"setup", "running", "pausing", "dying", "ended"}]
    /\ toServer \in [Sockets -> Seq(Messages)] /\ toClient \in [Sockets -> Seq(Events)]
  BY DEF TypeInv, TypeOK
<1>1. CASE SocketOpens(s)
  BY <1>1 DEF SocketOpens, Unopened, Shut, EndSent
<1>2. CASE Receive(s)
  <2>1. TakeFirst(s)
    BY <1>2 DEF Receive, ReceiveFrame, ReceiveEnd, ReceivePaused
  <2>2. UNCHANGED <<ready, toServer, session>> /\ toClient'[s] = Tail(toClient[s])
    BY <2>1 DEF TakeFirst
  <2>3. EndSent(s)'
    <3> SUFFICES ASSUME NEW i \in DOMAIN toClient'[s], toClient'[s][i].kind \in Ends
                 PROVE  session[s] = "ended"
      BY <2>2 DEF EndSent
    <3>1. toClient[s] \in Seq(Events) /\ toClient[s] # <<>>
      BY <2>1 DEF TakeFirst
    <3>2. i + 1 \in DOMAIN toClient[s] /\ toClient'[s][i] = toClient[s][i + 1]
      BY <2>2, <3>1
    <3> QED
      BY <3>2 DEF EndSent
  <2> QED
    BY <2>2, <2>3 DEF Unopened, Shut
<1>3. CASE SocketCloses(s)
  BY <1>3 DEF SocketCloses, Unopened, Shut, EndSent
<1>4. CASE SocketClosed(s)
  BY <1>4 DEF SocketClosed, Unopened, Shut, EndSent
<1>5. CASE ServerReads(s)
  <2>1. toServer[s] # <<>> /\ session[s] # "ended" /\ UNCHANGED <<ready, toClient>>
    BY <1>5 DEF ServerReads
  <2>2. ready[s] = "open"
    BY <2>1 DEF Unopened, Shut
  <2>3. \A i \in DOMAIN toClient[s] : toClient[s][i].kind \notin Ends
    BY <2>1 DEF EndSent
  <2> QED
    BY <2>1, <2>2, <2>3 DEF Unopened, Shut, EndSent
<1>6. CASE GuestFrame(s)
  <2>1. /\ HasGuest(s) /\ UNCHANGED <<ready, toServer, session>>
        /\ toClient'[s] = Append(toClient[s], Frame)
    BY <1>6 DEF GuestFrame
  <2>2. \A i \in DOMAIN toClient[s] : toClient[s][i].kind \notin Ends
    BY <2>1 DEF EndSent, HasGuest
  <2>3. toClient[s] \in Seq(Events)
    OBVIOUS
  <2>4. Frame.kind \notin Ends
    BY DEF Frame, Ends
  <2>5. \A i \in DOMAIN toClient'[s] : \/ toClient'[s][i] = Frame
                                           \/ /\ i \in DOMAIN toClient[s]
                                              /\ toClient'[s][i] = toClient[s][i]
    BY <2>1, <2>3
  <2>6. \A i \in DOMAIN toClient'[s] : toClient'[s][i].kind \notin Ends
    BY <2>2, <2>4, <2>5
  <2> QED
    BY <2>1, <2>6 DEF Unopened, Shut, EndSent
<1>7. CASE GuestEnds(s)
  <2>1. HasGuest(s) /\ session'[s] = "ended" /\ UNCHANGED <<ready, toServer>>
    BY <1>7 DEF GuestEnds
  <2>2. ready[s] \notin {"unused", "connecting"}
    BY <2>1 DEF Unopened, HasGuest
  <2> QED
    BY <2>1, <2>2 DEF Unopened, Shut, EndSent
<1> QED
  BY <1>1, <1>2, <1>3, <1>4, <1>5, <1>6, <1>7 DEF SocketStep, ServerStep

LEMMA SocketInductive == Spec => []SocketInv
<1>1. Init => SocketInv
  BY DEF Init, SocketInv, Unopened, Shut, EndSent
<1>2. TypeInv /\ SocketInv /\ [Next]_vars => SocketInv'
  <2> SUFFICES ASSUME TypeInv, SocketInv, [Next]_vars PROVE SocketInv'
    OBVIOUS
  <2>1. CASE UserStep \/ LocalStep \/ UNCHANGED vars
    BY <2>1, PageSockets
  <2>2. ASSUME NEW s \in Sockets, SocketStep(s) \/ ServerStep(s) PROVE SocketInv'
    <3> SUFFICES ASSUME NEW t \in Sockets PROVE (Unopened(t) /\ Shut(t) /\ EndSent(t))'
      BY DEF SocketInv
    <3>1. Unopened(t) /\ Shut(t) /\ EndSent(t)
      BY DEF SocketInv
    <3>2. CASE t = s
      BY <2>2, <3>1, <3>2, OwnSocket
    <3>3. CASE t # s
      <4>1. Untouched(t)
        BY <2>2, <3>3, OtherSockets
      <4> QED
        BY <3>1, <4>1 DEF Untouched, Unopened, Shut, EndSent
    <3> QED
      BY <3>2, <3>3
  <2> QED
    BY <2>1, <2>2 DEF Next
<1> QED
  BY <1>1, <1>2, TypeInductive, PTL DEF Spec

-----------------------------------------------------------------------------
(* One engine, for a user who clicks only when the session is settled.  There  *)
(* is one socket at a time; a forward that waits for it will set turboRunning, *)
(* so that no local run may start meanwhile; and the flag shows every guest    *)
(* that was not told to end, so that Running keeps the local loop from it.     *)
Active(s) == ready[s] \in {"connecting", "open", "closing"}
OneSocket == \A s \in Sockets : Active(s) => s = wsRef
NoneAwaited == \A s \in Sockets : awaiting[s] = Null
FlagShows == \A s \in Sockets : GuestLive(s) /\ ~ToldToEnd(s) => turboRunning
FlagsApart == ~(localRunning /\ turboRunning)
Orderly == OneSocket /\ (localRunning => NoneAwaited) /\ FlagShows /\ FlagsApart
EngineInv == ~hasty => Orderly

(* A guest lives only behind an open socket. *)
LEMMA LiveOpen ==
  ASSUME TypeInv, SocketInv, NEW s \in Sockets, GuestLive(s)
  PROVE  ready[s] = "open"
<1>1. session[s] # "ended" /\ ~(session[s] = "setup" /\ toServer[s] = <<>>)
  BY DEF GuestLive, HasGuest
<1>2. Unopened(s) /\ Shut(s)
  BY DEF SocketInv
<1>3. ready[s] \in {"unused", "connecting", "open", "closing", "closed"}
  BY DEF TypeInv, TypeOK
<1> QED
  BY <1>1, <1>2, <1>3 DEF Unopened, Shut

LEMMA LiveSession ==
  ASSUME TypeInv, SocketInv, OneSocket, NEW s \in Sockets, GuestLive(s)
  PROVE  s = wsRef /\ IsOpen(wsRef)
<1>1. ready[s] = "open"
  BY LiveOpen
<1>2. s = wsRef
  BY <1>1 DEF OneSocket, Active
<1> QED
  BY <1>1, <1>2 DEF IsOpen

(* What is live, and what was told to end, is what the server and its mail say. *)
LEMMA QuietSocket ==
  ASSUME NEW s, UNCHANGED <<session[s], toServer[s]>>
  PROVE  GuestLive(s)' = GuestLive(s) /\ ToldToEnd(s)' = ToldToEnd(s)
BY DEF GuestLive, ToldToEnd, HasGuest

LEMMA QuietFlag ==
  ASSUME FlagShows, UNCHANGED <<session, toServer, turboRunning>>
  PROVE  FlagShows'
BY DEF FlagShows, GuestLive, ToldToEnd, HasGuest

LEMMA PostedMail ==
  ASSUME TypeInv, NEW s \in Sockets, NEW m, Send(s, m), UNCHANGED session
  PROVE  /\ m.kind # "load" /\ GuestLive(s)' => GuestLive(s)
         /\ ToldToEnd(s) => ToldToEnd(s)'
         /\ m.kind = "stop" => ToldToEnd(s)'
         /\ \A t \in Sockets \ {s} : UNCHANGED toServer[t]
<1>1. /\ toServer[s] \in Seq(Messages) /\ toServer'[s] = Append(toServer[s], m)
      /\ \A t \in Sockets \ {s} : UNCHANGED toServer[t]
  BY DEF Send, TypeInv, TypeOK
<1>2. /\ \A i \in DOMAIN toServer[s] : i \in DOMAIN toServer'[s] /\ toServer'[s][i] = toServer[s][i]
      /\ \A i \in DOMAIN toServer'[s] : i \in DOMAIN toServer[s] \/ toServer'[s][i] = m
      /\ \E i \in DOMAIN toServer'[s] : toServer'[s][i] = m
  <2>1. Len(toServer[s]) \in Nat /\ DOMAIN toServer[s] = 1..Len(toServer[s])
    BY <1>1
  <2>2. DOMAIN toServer'[s] = 1..(Len(toServer[s]) + 1)
    BY <1>1
  <2>3. \A i \in 1..Len(toServer[s]) : toServer'[s][i] = toServer[s][i]
    BY <1>1
  <2>4. toServer'[s][Len(toServer[s]) + 1] = m
    BY <1>1
  <2> QED
    BY <2>1, <2>2, <2>3, <2>4
<1>3. m.kind # "load" /\ GuestLive(s)' => GuestLive(s)
  BY <1>2 DEF GuestLive, HasGuest
<1>4. (ToldToEnd(s) => ToldToEnd(s)') /\ (m.kind = "stop" => ToldToEnd(s)')
  BY <1>2 DEF ToldToEnd
<1> QED
  BY <1>1, <1>3, <1>4

(* A user who never clicked on an unsettled session clicks on a settled one. *)
LEMMA Patience ==
  ASSUME TypeInv, UserActs, EngineInv, ~hasty'
  PROVE  /\ ~hasty /\ Orderly /\ NoneAwaited
         /\ \A s \in Sockets : Active(s) => s = wsRef /\ IsOpen(wsRef)
<1>1. ~hasty /\ ~Unsettled
  BY DEF UserActs, TypeInv, TypeOK
<1>2. Orderly /\ NoneAwaited
  BY <1>1 DEF EngineInv, Unsettled, NoneAwaited
<1>3. ASSUME NEW s \in Sockets, Active(s) PROVE s = wsRef /\ IsOpen(wsRef)
  <2>1. ready[s] \notin {"closing", "connecting"}
    BY <1>1, <1>2 DEF Unsettled, NoneAwaited, TypeInv, Awaited
  <2> QED
    BY <1>2, <1>3, <2>1 DEF Active, Orderly, OneSocket, IsOpen
<1> QED
  BY <1>1, <1>2, <1>3

(* A forward keeps to one socket, and shows the guest it asks for. *)
LEMMA ForwardEngine ==
  ASSUME TypeInv, Orderly, NEW v, Forward(v), UNCHANGED session,
         \A s \in Sockets : Active(s) => s = wsRef /\ IsOpen(wsRef)
  PROVE  OneSocket' /\ FlagShows'
<1>1. CASE IsOpen(wsRef)
  <2>1. SendLoad(wsRef, v) /\ UNCHANGED <<wsRef, ready>>
    BY <1>1 DEF Forward
  <2>2. turboRunning' = TRUE \/ UNCHANGED <<toServer, turboRunning>>
    BY <2>1 DEF SendLoad
  <2>3. FlagShows'
    BY <2>2, QuietFlag DEF Orderly, FlagShows
  <2> QED
    BY <2>1, <2>3 DEF Orderly, OneSocket, Active
<1>2. CASE ~IsOpen(wsRef)
  <2>1. UNCHANGED <<toServer, turboRunning>>
    BY <1>2 DEF Forward
  <2>2. \A s \in Sockets : ~Active(s)
    BY <1>2
  <2>3. UNCHANGED ready \/ \E s \in Sockets : Connect(s, v)
    BY <1>2 DEF Forward
  <2>4. OneSocket'
    BY <2>2, <2>3 DEF Connect, OneSocket, Active, TypeInv, TypeOK
  <2> QED
    BY <2>1, <2>4, QuietFlag DEF Orderly
<1> QED
  BY <1>1, <1>2

(* A reverse asks for a pause, and Stop tells the guest of the session to end. *)
LEMMA AskEngine ==
  ASSUME TypeInv, SocketInv, Orderly, Reverse(vm) \/ StopTurbo, UNCHANGED session
  PROVE  OneSocket' /\ FlagShows' /\ UNCHANGED awaiting
         /\ (turboRunning' = FALSE \/ UNCHANGED turboRunning)
<1>1. /\ UNCHANGED <<wsRef, ready, awaiting>>
      /\ turboRunning' = FALSE \/ UNCHANGED turboRunning
  BY DEF Reverse, StopTurbo
<1>2. OneSocket'
  BY <1>1 DEF Orderly, OneSocket, Active
<1>3. CASE ~IsOpen(wsRef)
  <2>1. UNCHANGED toServer
    BY <1>3 DEF Reverse, StopTurbo
  <2>2. \A s \in Sockets : ~GuestLive(s)
    BY <1>3, LiveSession DEF Orderly
  <2>3. \A s \in Sockets : ~GuestLive(s)'
    BY <2>1, <2>2 DEF GuestLive, HasGuest
  <2> QED
    BY <1>1, <1>2, <2>3 DEF FlagShows
<1>4. CASE IsOpen(wsRef)
  <2>1. wsRef \in Sockets
    BY <1>4 DEF IsOpen, TypeInv, TypeOK
  <2>2. \/ Send(wsRef, Pause) /\ UNCHANGED turboRunning
        \/ Send(wsRef, Stop)
    BY <1>4 DEF Reverse, StopTurbo
  <2>3. Pause.kind # "load" /\ Stop.kind = "stop"
    BY DEF Pause, Stop
  <2>4. FlagShows'
    <3> SUFFICES ASSUME NEW s \in Sockets, GuestLive(s)', ~ToldToEnd(s)' PROVE turboRunning'
      BY DEF FlagShows
    <3>1. CASE s = wsRef
      <4>1. ~Send(wsRef, Stop)
        BY <2>1, <2>3, <3>1, PostedMail
      <4>2. Send(wsRef, Pause) /\ UNCHANGED turboRunning
        BY <2>2, <4>1
      <4>3. GuestLive(s) /\ ~ToldToEnd(s)
        BY <2>1, <2>3, <3>1, <4>2, PostedMail
      <4> QED
        BY <4>2, <4>3 DEF Orderly, FlagShows
    <3>2. CASE s # wsRef
      <4>1. UNCHANGED <<session[s], toServer[s]>>
        BY <2>1, <2>2, <3>2, PostedMail
      <4>2. GuestLive(s)
        BY <4>1, QuietSocket
      <4> QED
        BY <3>2, <4>2, LiveSession DEF Orderly
    <3> QED
      BY <3>1, <3>2
  <2> QED
    BY <1>1, <1>2, <2>4
<1> QED
  BY <1>3, <1>4

(* A click starts a local run only when no guest is shown, and a guest only when *)
(* there is no local run.                                                        *)
LEMMA ClickEngine ==
  ASSUME TypeInv, SocketInv, EngineInv, ~hasty',
         ClickRun \/ ClickStop \/ \E b \in BACKENDS : SelectBackend(b)
  PROVE  Orderly'
<1> /\ Orderly /\ NoneAwaited
    /\ \A s \in Sockets : Active(s) => s = wsRef /\ IsOpen(wsRef)
  BY Patience DEF ClickRun, ClickStop, SelectBackend
<1>1. UNCHANGED session
  BY DEF ClickRun, ClickStop, SelectBackend
<1>2. ASSUME UNCHANGED <<hookVars, wireVars>>, localRunning' => localRunning \/ ~turboRunning
      PROVE  Orderly'
  <2>1. OneSocket' /\ NoneAwaited'
    BY <1>2 DEF Orderly, OneSocket, Active, NoneAwaited
  <2>2. FlagShows'
    BY <1>1, <1>2, QuietFlag DEF Orderly
  <2> QED
    BY <1>2, <2>1, <2>2 DEF Orderly, FlagsApart
<1>3. ASSUME Forward(vm), localRunning' = FALSE PROVE Orderly'
  BY <1>1, <1>3, ForwardEngine DEF Orderly, FlagsApart
<1>4. ASSUME Reverse(vm) \/ StopTurbo, UNCHANGED localRunning PROVE Orderly'
  <2>1. /\ OneSocket' /\ FlagShows' /\ UNCHANGED awaiting
        /\ turboRunning' = FALSE \/ UNCHANGED turboRunning
    BY <1>1, <1>4, AskEngine
  <2>2. (localRunning => NoneAwaited)'
    BY <1>4, <2>1 DEF Orderly, NoneAwaited
  <2>3. FlagsApart'
    BY <1>4, <2>1 DEF Orderly, FlagsApart
  <2> QED
    BY <2>1, <2>2, <2>3 DEF Orderly
<1>5. CASE ClickRun
  <2>1. ~localRunning /\ ~turboRunning
    BY <1>5 DEF ClickRun, Running
  <2>2. CASE UNCHANGED <<hookVars, wireVars>>
    BY <1>2, <2>1, <2>2
  <2>3. CASE Forward(vm) /\ UNCHANGED loopVars
    BY <1>3, <2>1, <2>3 DEF TypeInv, TypeOK
  <2> QED
    BY <1>5, <2>2, <2>3 DEF ClickRun
<1>6. CASE ClickStop
  BY <1>2, <1>4, <1>6 DEF ClickStop, StopLocal
<1>7. ASSUME NEW b \in BACKENDS, SelectBackend(b) PROVE Orderly'
  <2>1. \/ StopLocal /\ (UNCHANGED <<hookVars, wireVars>> \/ Forward(vm))
        \/ UNCHANGED loopVars /\ (UNCHANGED <<hookVars, wireVars>> \/ Reverse(vm))
    BY <1>7 DEF SelectBackend, HandForward, HandBack
  <2>2. CASE StopLocal /\ (UNCHANGED <<hookVars, wireVars>> \/ Forward(vm))
    BY <1>2, <1>3, <2>2 DEF StopLocal
  <2>3. CASE UNCHANGED loopVars /\ (UNCHANGED <<hookVars, wireVars>> \/ Reverse(vm))
    BY <1>2, <1>4, <2>3
  <2> QED
    BY <2>1, <2>2, <2>3
<1> QED
  BY <1>5, <1>6, <1>7

LEMMA OpenEngine ==
  ASSUME TypeInv, Orderly, NEW s \in Sockets, SocketOpens(s)
  PROVE  Orderly'
<1>1. /\ ready[s] = "connecting" /\ ready' = [ready EXCEPT ![s] = "open"]
      /\ awaiting' = [awaiting EXCEPT ![s] = Null] /\ awaiting[s] # Null
      /\ UNCHANGED <<wsRef, localRunning, session>>
  BY DEF SocketOpens, TypeInv, Awaited
<1>2. localRunning = FALSE
  BY <1>1 DEF Orderly, NoneAwaited, TypeInv, TypeOK
<1>3. OneSocket'
  BY <1>1 DEF Orderly, OneSocket, Active, TypeInv, TypeOK
<1>4. turboRunning' = TRUE \/ UNCHANGED <<toServer, turboRunning>>
  BY DEF SocketOpens, SendLoad
<1>5. FlagShows'
  BY <1>1, <1>4, QuietFlag DEF Orderly, FlagShows
<1> QED
  BY <1>1, <1>2, <1>3, <1>5 DEF Orderly, FlagsApart

(* The event that clears the flag is of a guest that has ended. *)
LEMMA ReceiveEngine ==
  ASSUME TypeInv, SocketInv, Orderly, NEW s \in Sockets, Receive(s)
  PROVE  Orderly'
<1>1. /\ TakeFirst(s)
      /\ UNCHANGED <<ready, awaiting, wsRef, localRunning, toServer, session>>
  BY DEF Receive, ReceiveFrame, ReceiveEnd, ReceivePaused, TakeFirst
<1>2. \/ UNCHANGED turboRunning
      \/ turboRunning' = FALSE /\ Head(toClient[s]).kind \in Ends
  BY DEF Receive, ReceiveFrame, ReceiveEnd, ReceivePaused, Land, Ends
<1>3. OneSocket' /\ (localRunning => NoneAwaited)'
  BY <1>1 DEF Orderly, OneSocket, Active, NoneAwaited
<1>4. CASE UNCHANGED turboRunning
  BY <1>1, <1>3, <1>4, QuietFlag DEF Orderly, FlagsApart
<1>5. CASE turboRunning' = FALSE /\ Head(toClient[s]).kind \in Ends
  <2>1. toClient[s] \in Seq(Events) /\ toClient[s] # <<>> /\ ready[s] = "open"
    BY <1>1 DEF TakeFirst, TypeInv, TypeOK
  <2>2. 1 \in DOMAIN toClient[s] /\ Head(toClient[s]) = toClient[s][1]
    BY <2>1
  <2>3. session[s] = "ended"
    BY <1>5, <2>2 DEF SocketInv, EndSent
  <2>4. s = wsRef
    BY <2>1 DEF Orderly, OneSocket, Active
  <2>5. \A t \in Sockets : ~GuestLive(t)
    BY <2>3, <2>4, LiveSession DEF Orderly, GuestLive, HasGuest
  <2>6. \A t \in Sockets : ~GuestLive(t)'
    BY <1>1, <2>5 DEF GuestLive, HasGuest
  <2> QED
    BY <1>1, <1>3, <1>5, <2>6 DEF Orderly, FlagShows, FlagsApart
<1> QED
  BY <1>2, <1>4, <1>5

(* A teardown leaves no guest to show. *)
LEMMA CloseEngine ==
  ASSUME TypeInv, SocketInv, Orderly, NEW s \in Sockets, SocketCloses(s) \/ SocketClosed(s)
  PROVE  Orderly'
<1>1. CASE SocketCloses(s)
  <2>1. /\ ready[s] = "open" /\ ready' = [ready EXCEPT ![s] = "closing"]
        /\ UNCHANGED <<wsRef, awaiting, localRunning, turboRunning, toServer, session>>
    BY <1>1 DEF SocketCloses
  <2>2. OneSocket' /\ (localRunning => NoneAwaited)'
    BY <2>1 DEF Orderly, OneSocket, Active, NoneAwaited, TypeInv, TypeOK
  <2> QED
    BY <2>1, <2>2, QuietFlag DEF Orderly, FlagsApart
<1>2. CASE SocketClosed(s)
  <2>1. /\ Active(s) /\ ready' = [ready EXCEPT ![s] = "closed"]
        /\ awaiting' = [awaiting EXCEPT ![s] = Null]
        /\ turboRunning' = FALSE /\ UNCHANGED localRunning
        /\ session' = [session EXCEPT ![s] = "ended"]
        /\ toServer' = [toServer EXCEPT ![s] = <<>>]
    BY <1>2 DEF SocketClosed, teardown, Active
  <2>2. \A t \in Sockets \ {s} : ~Active(t)
    BY <2>1 DEF Orderly, OneSocket
  <2>3. OneSocket' /\ (localRunning => NoneAwaited)'
    BY <2>1, <2>2 DEF Orderly, OneSocket, Active, NoneAwaited, TypeInv, TypeOK
  <2>4. \A t \in Sockets \ {s} : ~GuestLive(t)
    BY <2>2, LiveOpen DEF Active
  <2>5. \A t \in Sockets \ {s} : UNCHANGED <<session[t], toServer[t]>>
    BY <2>1 DEF TypeInv, TypeOK
  <2>6. \A t \in Sockets \ {s} : ~GuestLive(t)'
    BY <2>4, <2>5, QuietSocket
  <2>7. ~GuestLive(s)'
    BY <2>1 DEF GuestLive, HasGuest, TypeInv, TypeOK
  <2> QED
    BY <2>1, <2>3, <2>6, <2>7 DEF Orderly, FlagShows, FlagsApart
<1> QED
  BY <1>1, <1>2

(* The server makes no guest that was not asked for, and reads a Stop only to obey it. *)
LEMMA ReadsEngine ==
  ASSUME TypeInv, NEW s \in Sockets, ServerReads(s)
  PROVE  GuestLive(s)' => GuestLive(s) /\ (ToldToEnd(s) => ToldToEnd(s)')
<1>1. /\ toServer[s] \in Seq(Messages) /\ toServer[s] # <<>>
      /\ toServer'[s] = Tail(toServer[s]) /\ session[s] \in {"setup", "running", "pausing"}
  BY DEF ServerReads, TypeInv, TypeOK
<1>2. \/ /\ session[s] = "setup" /\ Head(toServer[s]).kind = "load"
         /\ session'[s] = "running"
      \/ session'[s] = "ended"
      \/ /\ session[s] \in {"running", "pausing"}
         /\ session'[s] = IF Head(toServer[s]).kind = "pause" THEN "pausing" ELSE "dying"
  BY <1>1 DEF ServerReads, TypeInv, TypeOK
<1>3. 1 \in DOMAIN toServer[s] /\ Head(toServer[s]) = toServer[s][1]
  BY <1>1
<1>4. SUFFICES ASSUME GuestLive(s)' PROVE GuestLive(s) /\ (ToldToEnd(s) => ToldToEnd(s)')
  OBVIOUS
<1>5. session'[s] # "ended"
  BY <1>4 DEF GuestLive, HasGuest
<1>6. GuestLive(s)
  BY <1>2, <1>3, <1>5 DEF GuestLive, HasGuest
<1>7. ASSUME ToldToEnd(s) PROVE ToldToEnd(s)'
  <2>1. PICK i \in DOMAIN toServer[s] : toServer[s][i].kind = "stop"
    BY <1>1, <1>7 DEF ToldToEnd
  <2>2. CASE i = 1
    <3>1. session'[s] = "dying"
      BY <1>2, <1>3, <1>5, <2>1, <2>2
    <3> QED
      BY <3>1 DEF ToldToEnd
  <2>3. CASE i # 1
    <3>1. i - 1 \in DOMAIN toServer'[s] /\ toServer'[s][i - 1] = toServer[s][i]
      BY <1>1, <2>1, <2>3
    <3> QED
      BY <2>1, <3>1 DEF ToldToEnd
  <2> QED
    BY <2>2, <2>3
<1> QED
  BY <1>6, <1>7

LEMMA ServerEngine ==
  ASSUME TypeInv, Orderly, NEW s \in Sockets, ServerStep(s)
  PROVE  Orderly'
<1>1. UNCHANGED <<ready, wsRef, awaiting, localRunning, turboRunning>>
  BY DEF ServerStep, ServerReads, GuestFrame, GuestEnds
<1>2. OneSocket' /\ (localRunning => NoneAwaited)' /\ FlagsApart'
  BY <1>1 DEF Orderly, OneSocket, Active, NoneAwaited, FlagsApart
<1>3. ASSUME NEW t \in Sockets, GuestLive(t)', ~ToldToEnd(t)' PROVE GuestLive(t) /\ ~ToldToEnd(t)
  <2>1. CASE t # s
    <3>1. UNCHANGED <<session[t], toServer[t]>>
      BY <2>1, OtherSockets DEF Untouched
    <3> QED
      BY <1>3, <3>1, QuietSocket
  <2>2. CASE t = s /\ ServerReads(s)
    BY <1>3, <2>2, ReadsEngine
  <2>3. CASE t = s /\ GuestFrame(s)
    BY <1>3, <2>3, QuietSocket DEF GuestFrame
  <2>4. CASE t = s /\ GuestEnds(s)
    BY <1>3, <2>4 DEF GuestEnds, GuestLive, HasGuest, TypeInv, TypeOK
  <2> QED
    BY <2>1, <2>2, <2>3, <2>4 DEF ServerStep
<1>4. FlagShows'
  BY <1>1, <1>3 DEF Orderly, FlagShows
<1> QED
  BY <1>2, <1>4 DEF Orderly

LEMMA EngineInductive == Spec => []EngineInv
<1>1. Init => EngineInv
  BY DEF Init, EngineInv, Orderly, OneSocket, Active, NoneAwaited, FlagShows, FlagsApart,
         GuestLive, HasGuest
<1>2. TypeInv /\ SocketInv /\ EngineInv /\ [Next]_vars => EngineInv'
  <2> SUFFICES ASSUME TypeInv, SocketInv, EngineInv, [Next]_vars, ~hasty' PROVE Orderly'
    BY DEF EngineInv
  <2>1. CASE ClickRun \/ ClickStop \/ \E b \in BACKENDS : SelectBackend(b)
    BY <2>1, ClickEngine
  <2>2. CASE LoadElf \/ ClickStep \/ LocalStep \/ UNCHANGED vars
    <3>1. localRunning' = FALSE \/ UNCHANGED localRunning
      BY <2>2 DEF LoadElf, StopLocal, ClickStep, LocalStep, LoadDone, LoadRejected, LoopHalts,
                  LoopEnds, StaleEnds, Finally, vars
    <3>2. UNCHANGED <<hookVars, wireVars, serverVars>>
      BY <2>2 DEF LoadElf, ClickStep, LocalStep, LoadDone, LoadRejected, LoopHalts, LoopEnds,
                  StaleEnds, vars
    <3>3. ~hasty
      BY <2>2 DEF LoadElf, ClickStep, LocalStep, LoadDone, LoadRejected, LoopHalts, LoopEnds,
                  StaleEnds, vars, UserActs, TypeInv, TypeOK
    <3>4. Orderly /\ FlagShows'
      BY <3>2, <3>3, QuietFlag DEF EngineInv, Orderly
    <3> QED
      BY <3>1, <3>2, <3>4 DEF Orderly, OneSocket, Active, NoneAwaited, FlagsApart
  <2>3. ASSUME NEW s \in Sockets, SocketStep(s) \/ ServerStep(s) PROVE Orderly'
    <3>1. ~hasty
      BY <2>3 DEF SocketStep, SocketOpens, Receive, ReceiveFrame, ReceiveEnd, ReceivePaused,
                  TakeFirst, SocketCloses, SocketClosed, ServerStep, ServerReads, GuestFrame,
                  GuestEnds
    <3>2. Orderly
      BY <3>1 DEF EngineInv
    <3> QED
      BY <2>3, <3>2, OpenEngine, ReceiveEngine, CloseEngine, ServerEngine DEF SocketStep
  <2> QED
    BY <2>1, <2>2, <2>3 DEF Next, UserStep
<1> QED
  BY <1>1, <1>2, TypeInductive, SocketInductive, PTL DEF Spec

(* For a user who clicks only when the session is settled: while a local loop may *)
(* still step, every guest behind every socket has been told to end.              *)
THEOREM OneEngineKept == Spec => []OneEngine
<1>1. TypeInv /\ LoopInv /\ EngineInv => OneEngine
  <2> SUFFICES ASSUME TypeInv, LoopInv, EngineInv, ~hasty, loop # Null,
                      NEW s \in Sockets, GuestLive(s)
               PROVE  ToldToEnd(s)
    BY DEF OneEngine
  <2>1. localRunning /\ Orderly
    BY DEF LoopInv, RunFlagAgrees, EngineInv
  <2>2. ~turboRunning
    BY <2>1 DEF Orderly, FlagsApart
  <2> QED
    BY <2>1, <2>2 DEF Orderly, FlagShows
<1> QED
  BY <1>1, TypeInductive, LoopInductive, EngineInductive, PTL
===============================================================================
