---------------------------- MODULE Turbo86Proofs ----------------------------
(***************************************************************************)
(* Theorems about Turbo86Runner, for every guest and every bound, and      *)
(* about Turbo86Session around it, for every client.                       *)
(***************************************************************************)
EXTENDS Turbo86Session, TLAPS

USE DEF NoMem, goVars, startVars, tickerVars, chanVars, kernelVars, userVars

(* The types of what an event carries. *)
LEMMA EventType ==
  ASSUME NEW k \in Kinds, NEW m \in 0..MaxMem
  PROVE  Carrying(k, m) \in Events /\ Event(k) \in Events
<1>1. 0 \in 0..MaxMem
  BY MaxMemAssumption
<1> QED BY <1>1 DEF Carrying, Event, Events

(* The kinds of events the tracer sends are kinds of events. *)
LEMMA EventKinds ==
  /\ {"exit", "fault", "paused", "killed", "output", "frame", "nothing"} \subseteq Kinds
  /\ Event("fault") \in Events /\ Event("exit") \in Events
  /\ Event("output") \in Events /\ Event("nothing") \in Events
<1>1. {"exit", "fault", "paused", "killed", "output", "frame", "nothing"} \subseteq Kinds
  BY DEF Kinds, Terminal
<1>2. 0 \in 0..MaxMem
  BY MaxMemAssumption
<1> QED BY <1>1, <1>2 DEF Event, Events

(* Every step keeps every variable in its type. *)
THEOREM TypeCorrect == Spec => []TypeOK
<1>1. Init => TypeOK
  <2> SUFFICES ASSUME Init PROVE TypeOK
    OBVIOUS
  <2> USE DEF Init
  <2>1. ControlTypeOK
    BY DEF ControlTypeOK
  <2>2. FlagTypeOK
    BY DEF FlagTypeOK
  <2>3. NumberTypeOK
    BY MaxMemAssumption, MaxInjectsAssumption DEF NumberTypeOK
  <2>4. EventTypeOK
    BY EventKinds, EventType DEF EventTypeOK
  <2> QED BY <2>1, <2>2, <2>3, <2>4 DEF TypeOK
<1>2. TypeOK /\ [Next]_vars => TypeOK'
  <2> SUFFICES ASSUME TypeOK, [Next]_vars PROVE TypeOK'
    OBVIOUS
  <2> USE DEF TypeOK
  <2>1. CASE GuestStore
    BY <2>1, EventKinds, EventType, MaxMemAssumption, MaxInjectsAssumption
      DEF GuestStore, ControlTypeOK, FlagTypeOK, NumberTypeOK, EventTypeOK
  <2>2. CASE SyscallReturns
    <3>1. ControlTypeOK'
      BY <2>2 DEF SyscallReturns, ControlTypeOK
    <3>2. FlagTypeOK'
      BY <2>2 DEF SyscallReturns, FlagTypeOK
    <3>3. NumberTypeOK'
      BY <2>2, MaxMemAssumption, MaxInjectsAssumption DEF SyscallReturns, NumberTypeOK
    <3>4. EventTypeOK'
      BY <2>2, EventKinds, EventType DEF SyscallReturns, EventTypeOK, NumberTypeOK
    <3> QED BY <3>1, <3>2, <3>3, <3>4
  <2>3. CASE StopDelivered
    <3>1. ControlTypeOK'
      BY <2>3 DEF StopDelivered, AllActs, SignalActs, ControlTypeOK
    <3>2. FlagTypeOK'
      BY <2>3 DEF StopDelivered, AllActs, SignalActs, FlagTypeOK
    <3>3. NumberTypeOK'
      BY <2>3, MaxMemAssumption, MaxInjectsAssumption
        DEF StopDelivered, AllActs, SignalActs, NumberTypeOK
    <3>4. EventTypeOK'
      BY <2>3, EventKinds, EventType
        DEF StopDelivered, AllActs, SignalActs, EventTypeOK, NumberTypeOK
    <3> QED BY <3>1, <3>2, <3>3, <3>4
  <2>4. CASE Boot
    <3>1. ControlTypeOK'
      BY <2>4 DEF Boot, ControlTypeOK
    <3>2. FlagTypeOK'
      BY <2>4 DEF Boot, FlagTypeOK
    <3>3. NumberTypeOK'
      BY <2>4, MaxMemAssumption, MaxInjectsAssumption DEF Boot, NumberTypeOK
    <3>4. EventTypeOK'
      BY <2>4, EventKinds, EventType DEF Boot, EventTypeOK, NumberTypeOK
    <3> QED BY <3>1, <3>2, <3>3, <3>4
  <2>5. CASE Await
    BY <2>5, EventKinds, EventType, MaxMemAssumption, MaxInjectsAssumption
      DEF Await, ControlTypeOK, FlagTypeOK, NumberTypeOK, EventTypeOK
  <2>6. CASE Setup
    <3>1. ControlTypeOK'
      BY <2>6 DEF Setup, Inject, GoTo, EmitFault, Emit, RangesLeft, ControlTypeOK
    <3>2. FlagTypeOK'
      BY <2>6 DEF Setup, Inject, GoTo, EmitFault, Emit, RangesLeft, FlagTypeOK
    <3>3. NumberTypeOK'
      BY <2>6, MaxMemAssumption, MaxInjectsAssumption
        DEF Setup, Inject, GoTo, EmitFault, Emit, RangesLeft, NumberTypeOK
    <3>4. EventTypeOK'
      BY <2>6, EventKinds, EventType
        DEF Setup, Inject, GoTo, EmitFault, Emit, RangesLeft, EventTypeOK,
            NumberTypeOK
    <3> QED BY <3>1, <3>2, <3>3, <3>4
  <2>7. CASE InjectEntry
    <3>1. ControlTypeOK'
      BY <2>7 DEF InjectEntry, GoTo, EmitFault, Emit, AllActs, SignalActs, ControlTypeOK
    <3>2. FlagTypeOK'
      BY <2>7 DEF InjectEntry, GoTo, EmitFault, Emit, AllActs, SignalActs, FlagTypeOK
    <3>3. NumberTypeOK'
      BY <2>7, MaxMemAssumption, MaxInjectsAssumption
        DEF InjectEntry, GoTo, EmitFault, Emit, AllActs, SignalActs, NumberTypeOK
    <3>4. EventTypeOK'
      BY <2>7, EventKinds, EventType
        DEF InjectEntry, GoTo, EmitFault, Emit, AllActs, SignalActs, EventTypeOK,
            NumberTypeOK
    <3> QED BY <3>1, <3>2, <3>3, <3>4
  <2>8. CASE InjectExit
    <3>1. ControlTypeOK'
      BY <2>8 DEF InjectExit, GoTo, EmitFault, Emit, ControlTypeOK
    <3>2. FlagTypeOK'
      BY <2>8 DEF InjectExit, GoTo, EmitFault, Emit, FlagTypeOK
    <3>3. NumberTypeOK'
      BY <2>8, MaxMemAssumption, MaxInjectsAssumption
        DEF InjectExit, GoTo, EmitFault, Emit, NumberTypeOK
    <3>4. EventTypeOK'
      BY <2>8, EventKinds, EventType
        DEF InjectExit, GoTo, EmitFault, Emit, EventTypeOK, NumberTypeOK
    <3> QED BY <3>1, <3>2, <3>3, <3>4
  <2>9. CASE Resume
    <3>1. ControlTypeOK'
      BY <2>9 DEF Resume, GoTo, EmitFault, Emit, ControlTypeOK
    <3>2. FlagTypeOK'
      BY <2>9 DEF Resume, GoTo, EmitFault, Emit, FlagTypeOK
    <3>3. NumberTypeOK'
      BY <2>9, MaxMemAssumption, MaxInjectsAssumption
        DEF Resume, GoTo, EmitFault, Emit, NumberTypeOK
    <3>4. EventTypeOK'
      BY <2>9, EventKinds, EventType
        DEF Resume, GoTo, EmitFault, Emit, EventTypeOK, NumberTypeOK
    <3> QED BY <3>1, <3>2, <3>3, <3>4
  <2>10. CASE Wait
    <3>1. ControlTypeOK'
      BY <2>10 DEF Wait, Emit, Killed, GoTo, DiscardSnapshot, ControlTypeOK
    <3>2. FlagTypeOK'
      BY <2>10 DEF Wait, Emit, Killed, GoTo, DiscardSnapshot, FlagTypeOK
    <3>3. NumberTypeOK'
      BY <2>10, MaxMemAssumption, MaxInjectsAssumption
        DEF Wait, Emit, Killed, GoTo, DiscardSnapshot, NumberTypeOK
    <3>4. EventTypeOK'
      BY <2>10, EventKinds, EventType
        DEF Wait, Emit, Killed, GoTo, DiscardSnapshot, EventTypeOK, NumberTypeOK
    <3> QED BY <3>1, <3>2, <3>3, <3>4
  <2>11. CASE HandleStop
    <3>1. ControlTypeOK'
      BY <2>11
        DEF HandleStop, ExitStop, EntryStop, AbiStop, SignalStop, Send, GoTo, Inject,
            Emit, EmitFault, ControlTypeOK
    <3>2. FlagTypeOK'
      <4> USE DEF HandleStop, FlagTypeOK
      <4>1. pending' \in BOOLEAN
        BY <2>11 DEF ExitStop, EntryStop, AbiStop, SignalStop
      <4>2. nextSignal' \in BOOLEAN
        BY <2>11 DEF ExitStop, EntryStop, AbiStop, SignalStop
      <4>3. tickerStop' \in BOOLEAN
        <5>1. \A ev, pc : Emit(ev) \/ GoTo(pc) \/ Send(ev, pc) \/ Inject(pc) =>
                         tickerStop' \in {TRUE, tickerStop}
          BY DEF Emit, GoTo, Send, Inject
        <5> QED BY <2>11, <5>1 DEF ExitStop, EntryStop, AbiStop, SignalStop, EmitFault
      <4> QED BY <2>11, <4>1, <4>2, <4>3
    <3>3. NumberTypeOK'
      BY <2>11, MaxMemAssumption, MaxInjectsAssumption
        DEF HandleStop, ExitStop, EntryStop, AbiStop, SignalStop, Send, GoTo, Inject,
            Emit, EmitFault, NumberTypeOK
    <3>4. EventTypeOK'
      BY <2>11, EventKinds, EventType
        DEF HandleStop, ExitStop, EntryStop, AbiStop, SignalStop, Send, GoTo, Inject,
            Emit, EmitFault, EventTypeOK, NumberTypeOK
    <3> QED BY <3>1, <3>2, <3>3, <3>4
  <2>12. CASE Joined
    BY <2>12, EventKinds, EventType, MaxMemAssumption, MaxInjectsAssumption
      DEF Joined, ControlTypeOK, FlagTypeOK, NumberTypeOK, EventTypeOK
  <2>13. CASE Defer
    BY <2>13, EventKinds, EventType, MaxMemAssumption, MaxInjectsAssumption
      DEF Defer, ControlTypeOK, FlagTypeOK, NumberTypeOK, EventTypeOK
  <2>14. CASE CleanUp
    <3>1. ControlTypeOK'
      BY <2>14 DEF CleanUp, ControlTypeOK
    <3>2. FlagTypeOK'
      BY <2>14 DEF CleanUp, FlagTypeOK
    <3>3. NumberTypeOK'
      BY <2>14, MaxMemAssumption, MaxInjectsAssumption DEF CleanUp, NumberTypeOK
    <3>4. EventTypeOK'
      BY <2>14, EventKinds, EventType DEF CleanUp, EventTypeOK, NumberTypeOK
    <3> QED BY <3>1, <3>2, <3>3, <3>4
  <2>15. CASE CloseEvents
    BY <2>15, EventKinds, EventType, MaxMemAssumption, MaxInjectsAssumption
      DEF CloseEvents, ControlTypeOK, FlagTypeOK, NumberTypeOK, EventTypeOK
  <2>16. CASE CloseDone
    BY <2>16, EventKinds, EventType, MaxMemAssumption, MaxInjectsAssumption
      DEF CloseDone, ControlTypeOK, FlagTypeOK, NumberTypeOK, EventTypeOK
  <2>17. CASE Tick
    BY <2>17, EventKinds, EventType, MaxMemAssumption, MaxInjectsAssumption
      DEF Tick, ControlTypeOK, FlagTypeOK, NumberTypeOK, EventTypeOK
  <2>18. CASE TickerStops
    BY <2>18, EventKinds, EventType, MaxMemAssumption, MaxInjectsAssumption
      DEF TickerStops, ControlTypeOK, FlagTypeOK, NumberTypeOK, EventTypeOK
  <2>19. CASE ReceiveFromTracer
    BY <2>19, EventKinds, EventType, MaxMemAssumption, MaxInjectsAssumption
      DEF ReceiveFromTracer, See, Carrying, ControlTypeOK, FlagTypeOK, NumberTypeOK,
          EventTypeOK, Events
  <2>20. CASE ReceiveFromTicker
    BY <2>20, EventKinds, EventType, MaxMemAssumption, MaxInjectsAssumption
      DEF ReceiveFromTicker, See, Carrying, ControlTypeOK, FlagTypeOK, NumberTypeOK,
          EventTypeOK
  <2>21. CASE Close
    BY <2>21, EventKinds, EventType, MaxMemAssumption, MaxInjectsAssumption
      DEF Close, ControlTypeOK, FlagTypeOK, NumberTypeOK, EventTypeOK
  <2>22. CASE Pause
    BY <2>22, EventKinds, EventType, MaxMemAssumption, MaxInjectsAssumption
      DEF Pause, StopReaches, ControlTypeOK, FlagTypeOK, NumberTypeOK, EventTypeOK
  <2>23. CASE \E act \in Acts : GuestStops(act)
    BY <2>23, EventKinds, EventType, MaxMemAssumption, MaxInjectsAssumption,
       ActsAssumption
      DEF GuestStops, ControlTypeOK, FlagTypeOK, NumberTypeOK, EventTypeOK
  <2>24. CASE \E m \in Modes, i \in BOOLEAN, n \in 0..MaxInjects : Run(m, i, n)
    BY <2>24, EventKinds, EventType, MaxMemAssumption, MaxInjectsAssumption,
       ModesAssumption
      DEF Run, ControlTypeOK, FlagTypeOK, NumberTypeOK, EventTypeOK
  <2>25. CASE UNCHANGED vars
    BY <2>25, EventKinds, EventType, MaxMemAssumption, MaxInjectsAssumption
      DEF vars, ControlTypeOK, FlagTypeOK, NumberTypeOK, EventTypeOK
  <2> QED
    BY <2>1, <2>2, <2>3, <2>4, <2>5, <2>6, <2>7, <2>8, <2>9, <2>10, <2>11, <2>12,
       <2>13, <2>14, <2>15, <2>16, <2>17, <2>18, <2>19, <2>20, <2>21, <2>22, <2>23,
       <2>24, <2>25
    DEF Next, InnerStep, UserStep, TracerStep, KernelStep, GuestStep, Finished
<1> QED BY <1>1, <1>2, PTL DEF Spec

-----------------------------------------------------------------------------
(* The invariant behind the end of a session. *)

Ending == {"defer", "deferJoin", "closeEvents", "closeDone", "gone"}

(* Where an injection or a send goes on. *)
AfterInv ==
  /\ tracer \in {"inject", "injectExit"} => after \in {"setup", "resume"}
  /\ tracer = "send" => after \in {"resume", "defer"}
  /\ tracer \in {"join", "flush"} => after = "defer"

(* The ticker is started once, by the setup, and joined before anything it    *)
(* uses is closed.                                                            *)
JoinInv ==
  /\ tracer \in {"boot", "await", "setup"} => ticker = "off"
  /\ tracer \in {"inject", "injectExit"} /\ after = "setup" => ticker = "off"
  /\ tracer \in {"closeEvents", "closeDone", "gone"} => ticker \in {"off", "done"}
  /\ eventsClosed => tracer \in {"closeDone", "gone"}
  /\ ~memOpen => tracer \in Ending \union {"boot"} /\ ticker \in {"off", "done"}

(* What leads out of the loop is a terminal event, sent before the defer. *)
EndInv ==
  /\ tracer \in {"join", "flush"} => out.kind \in Terminal
  /\ tracer = "send" /\ after = "defer" => out.kind \in Terminal
  /\ tracer \in {"boot", "await"} => startCh # "taken"
  /\ tracer \in Ending /\ startCh = "taken" => term # "none"

LEMMA EndInductive == TypeOK /\ AfterInv /\ JoinInv /\ EndInv /\ [Next]_vars
                        => AfterInv' /\ JoinInv' /\ EndInv'
<1> SUFFICES ASSUME TypeOK, AfterInv, JoinInv, EndInv, [Next]_vars
             PROVE  AfterInv' /\ JoinInv' /\ EndInv'
  OBVIOUS
<1> USE DEF TypeOK, ControlTypeOK, Ending
<1>1. CASE GuestStore
  BY <1>1 DEF GuestStore, Event, Carrying, Terminal, AfterInv, JoinInv, EndInv
<1>2. CASE SyscallReturns
  BY <1>2 DEF SyscallReturns, Event, Carrying, Terminal, AfterInv, JoinInv, EndInv
<1>3. CASE StopDelivered
  BY <1>3
    DEF StopDelivered, AllActs, SignalActs, Event, Carrying, Terminal, AfterInv,
        JoinInv, EndInv
<1>4. CASE Boot
  BY <1>4 DEF Boot, Event, Carrying, Terminal, AfterInv, JoinInv, EndInv
<1>5. CASE Await
  BY <1>5 DEF Await, Event, Carrying, Terminal, AfterInv, JoinInv, EndInv
<1>6. CASE Setup
  BY <1>6
    DEF Setup, Inject, GoTo, EmitFault, Emit, RangesLeft, Event, Carrying, Terminal,
        AfterInv, JoinInv, EndInv
<1>7. CASE InjectEntry
  BY <1>7
    DEF InjectEntry, GoTo, EmitFault, Emit, AllActs, SignalActs, Event, Carrying,
        Terminal, AfterInv, JoinInv, EndInv
<1>8. CASE InjectExit
  BY <1>8
    DEF InjectExit, GoTo, EmitFault, Emit, Event, Carrying, Terminal, AfterInv,
        JoinInv, EndInv
<1>9. CASE Resume
  BY <1>9
    DEF Resume, GoTo, EmitFault, Emit, Event, Carrying, Terminal, AfterInv, JoinInv,
        EndInv
<1>10. CASE Wait
  BY <1>10
    DEF Wait, Emit, Killed, GoTo, DiscardSnapshot, Carrying, Event, Terminal,
        AfterInv, JoinInv, EndInv
<1>11. CASE HandleStop
  BY <1>11
    DEF HandleStop, ExitStop, EntryStop, AbiStop, SignalStop, Send, GoTo, Inject,
        Emit, EmitFault, Event, Carrying, Terminal, AfterInv, JoinInv, EndInv
<1>12. CASE Joined
  BY <1>12
    DEF Joined, TickerGone, Flushes, Event, Carrying, Terminal, AfterInv, JoinInv,
        EndInv
<1>13. CASE Defer
  BY <1>13 DEF Defer, Event, Carrying, Terminal, AfterInv, JoinInv, EndInv
<1>14. CASE CleanUp
  BY <1>14 DEF CleanUp, TickerGone, Event, Carrying, Terminal, AfterInv, JoinInv, EndInv
<1>15. CASE CloseEvents
  BY <1>15 DEF CloseEvents, Event, Carrying, Terminal, AfterInv, JoinInv, EndInv
<1>16. CASE CloseDone
  BY <1>16 DEF CloseDone, Event, Carrying, Terminal, AfterInv, JoinInv, EndInv
<1>17. CASE Tick
  BY <1>17 DEF Tick, Event, Carrying, Terminal, AfterInv, JoinInv, EndInv
<1>18. CASE TickerStops
  BY <1>18 DEF TickerStops, Event, Carrying, Terminal, AfterInv, JoinInv, EndInv
<1>19. CASE ReceiveFromTracer
  BY <1>19
    DEF ReceiveFromTracer, See, Carrying, Event, Terminal, AfterInv, JoinInv, EndInv
<1>20. CASE ReceiveFromTicker
  BY <1>20
    DEF ReceiveFromTicker, See, Carrying, Event, Terminal, AfterInv, JoinInv, EndInv
<1>21. CASE Close
  BY <1>21 DEF Close, Event, Carrying, Terminal, AfterInv, JoinInv, EndInv
<1>22. CASE Pause
  BY <1>22 DEF Pause, StopReaches, Event, Carrying, Terminal, AfterInv, JoinInv, EndInv
<1>23. CASE \E act \in Acts : GuestStops(act)
  BY <1>23 DEF GuestStops, Event, Carrying, Terminal, AfterInv, JoinInv, EndInv
<1>24. CASE \E m \in Modes, i \in BOOLEAN, n \in 0..MaxInjects : Run(m, i, n)
  BY <1>24 DEF Run, Event, Carrying, Terminal, AfterInv, JoinInv, EndInv
<1>25. CASE UNCHANGED vars
  BY <1>25 DEF vars, Event, Carrying, Terminal, AfterInv, JoinInv, EndInv
<1> QED
  BY <1>1, <1>2, <1>3, <1>4, <1>5, <1>6, <1>7, <1>8, <1>9, <1>10, <1>11, <1>12, <1>13,
     <1>14, <1>15, <1>16, <1>17, <1>18, <1>19, <1>20, <1>21, <1>22, <1>23, <1>24,
     <1>25
  DEF Next, InnerStep, UserStep, TracerStep, KernelStep, GuestStep, Finished

(* The ends of a session are reached as EndIsTold and NoUseAfterClose say. *)
LEMMA EndInvariant == Spec => [](TypeOK /\ AfterInv /\ JoinInv /\ EndInv)
<1>1. Init => AfterInv /\ JoinInv /\ EndInv
  BY DEF Init, AfterInv, JoinInv, EndInv, Ending
<1> QED BY <1>1, TypeCorrect, EndInductive, PTL DEF Spec

(* A Runner never sends on its closed channel and its ticker never reads a    *)
(* closed memory file.                                                        *)
THEOREM ClosesSafely == Spec => []NoUseAfterClose
<1>1. TypeOK /\ JoinInv => NoUseAfterClose
  BY DEF TypeOK, ControlTypeOK, JoinInv, NoUseAfterClose
<1> QED BY <1>1, EndInvariant, PTL

(* A session that ran closes only after a terminal event. *)
THEOREM EndsTold == Spec => []EndIsTold
<1>1. JoinInv /\ EndInv => EndIsTold
  BY DEF JoinInv, EndInv, EndIsTold, Ending
<1> QED BY <1>1, EndInvariant, PTL

-----------------------------------------------------------------------------
(* The invariant behind the syscall stops: at each place of the tracer, what  *)
(* it expects and where the kernel is.                                        *)

(* The kernel's side of a stop for reason r, and the tracer's. *)
StopIs(r) ==
  /\ r \in Int80Acts => inSyscall /\ ~pending
  /\ r = "sysexit" => pending /\ ~inSyscall
  /\ r \notin Int80Acts \union {"sysexit"} => ~pending /\ ~inSyscall

RunsInv == child = "running" => tracer = "wait"

ParityInv ==
  /\ tracer \in {"boot", "await", "setup", "inject"} => ~pending /\ ~inSyscall
  /\ tracer = "injectExit" => ~pending /\ inSyscall
  /\ tracer = "resume" => (pending <=> inSyscall)
  /\ tracer = "send" /\ after = "resume" => (pending <=> inSyscall)
  /\ tracer = "wait" /\ child = "running" => (pending <=> inSyscall)
  /\ tracer = "wait" /\ child = "stopped" => StopIs(why)
  /\ tracer = "stop" => StopIs(ws)

LEMMA ParityInductive == TypeOK /\ AfterInv /\ RunsInv /\ ParityInv /\ [Next]_vars
                        => RunsInv' /\ ParityInv'
<1> SUFFICES ASSUME TypeOK, AfterInv, RunsInv, ParityInv, [Next]_vars
             PROVE  RunsInv' /\ ParityInv'
  OBVIOUS
<1> USE DEF TypeOK, ControlTypeOK
<1>1. CASE GuestStore
  BY <1>1
    DEF GuestStore, RunsInv, AfterInv, Alive, StopIs, FlagTypeOK, Int80Acts, ParityInv
<1>2. CASE SyscallReturns
  BY <1>2
    DEF SyscallReturns, RunsInv, AfterInv, Alive, StopIs, FlagTypeOK, Int80Acts,
        ParityInv
<1>3. CASE StopDelivered
  BY <1>3
    DEF StopDelivered, AllActs, SignalActs, RunsInv, AfterInv, Alive, StopIs,
        FlagTypeOK, Int80Acts, ParityInv
<1>4. CASE Boot
  BY <1>4 DEF Boot, RunsInv, AfterInv, Alive, StopIs, FlagTypeOK, Int80Acts, ParityInv
<1>5. CASE Await
  BY <1>5 DEF Await, RunsInv, AfterInv, Alive, StopIs, FlagTypeOK, Int80Acts, ParityInv
<1>6. CASE Setup
  BY <1>6
    DEF Setup, Inject, GoTo, EmitFault, Emit, RangesLeft, RunsInv, AfterInv, Alive,
        StopIs, FlagTypeOK, Int80Acts, ParityInv
<1>7. CASE InjectEntry
  BY <1>7
    DEF InjectEntry, GoTo, EmitFault, Emit, AllActs, SignalActs, RunsInv, AfterInv,
        Alive, StopIs, FlagTypeOK, Int80Acts, ParityInv
<1>8. CASE InjectExit
  BY <1>8
    DEF InjectExit, GoTo, EmitFault, Emit, RunsInv, AfterInv, Alive, StopIs,
        FlagTypeOK, Int80Acts, ParityInv
<1>9. CASE Resume
  BY <1>9
    DEF Resume, GoTo, EmitFault, Emit, RunsInv, AfterInv, Alive, StopIs, FlagTypeOK,
        Int80Acts, ParityInv
<1>10. CASE Wait
  BY <1>10
    DEF Wait, Emit, Killed, GoTo, DiscardSnapshot, Carrying, RunsInv, AfterInv, Alive,
        StopIs, FlagTypeOK, Int80Acts, ParityInv
<1>11. CASE HandleStop
  BY <1>11
    DEF HandleStop, ExitStop, EntryStop, AbiStop, SignalStop, Send, GoTo, Inject,
        Emit, EmitFault, RunsInv, AfterInv, Alive, StopIs, FlagTypeOK, Int80Acts,
        ParityInv
<1>12. CASE Joined
  BY <1>12
    DEF Joined, TickerGone, Flushes, RunsInv, AfterInv, Alive, StopIs, FlagTypeOK,
        Int80Acts, ParityInv
<1>13. CASE Defer
  BY <1>13 DEF Defer, RunsInv, AfterInv, Alive, StopIs, FlagTypeOK, Int80Acts, ParityInv
<1>14. CASE CleanUp
  BY <1>14
    DEF CleanUp, TickerGone, RunsInv, AfterInv, Alive, StopIs, FlagTypeOK, Int80Acts,
        ParityInv
<1>15. CASE CloseEvents
  BY <1>15
    DEF CloseEvents, RunsInv, AfterInv, Alive, StopIs, FlagTypeOK, Int80Acts,
        ParityInv
<1>16. CASE CloseDone
  BY <1>16
    DEF CloseDone, RunsInv, AfterInv, Alive, StopIs, FlagTypeOK, Int80Acts, ParityInv
<1>17. CASE Tick
  BY <1>17 DEF Tick, RunsInv, AfterInv, Alive, StopIs, FlagTypeOK, Int80Acts, ParityInv
<1>18. CASE TickerStops
  BY <1>18
    DEF TickerStops, RunsInv, AfterInv, Alive, StopIs, FlagTypeOK, Int80Acts,
        ParityInv
<1>19. CASE ReceiveFromTracer
  BY <1>19
    DEF ReceiveFromTracer, See, Carrying, RunsInv, AfterInv, Alive, StopIs,
        FlagTypeOK, Int80Acts, ParityInv
<1>20. CASE ReceiveFromTicker
  BY <1>20
    DEF ReceiveFromTicker, See, Carrying, RunsInv, AfterInv, Alive, StopIs,
        FlagTypeOK, Int80Acts, ParityInv
<1>21. CASE Close
  BY <1>21 DEF Close, RunsInv, AfterInv, Alive, StopIs, FlagTypeOK, Int80Acts, ParityInv
<1>22. CASE Pause
  BY <1>22
    DEF Pause, StopReaches, RunsInv, AfterInv, Alive, StopIs, FlagTypeOK, Int80Acts,
        ParityInv
<1>23. CASE \E act \in Acts : GuestStops(act)
  <2> PICK act \in Acts : GuestStops(act)
    BY <1>23
  <2> USE DEF GuestStops
  <2>1. RunsInv'
    BY DEF RunsInv
  <2>2. tracer = "wait" /\ tracer' = "wait" /\ child' = "stopped" /\ why' = act
    BY DEF RunsInv
  <2>3. pending' = FALSE /\ inSyscall' = (act \in Int80Acts)
    BY DEF RunsInv, ParityInv, FlagTypeOK
  <2>4. act # "sysexit"
    BY ActsAssumption DEF AllActs, Int80Acts, AbiActs, SignalActs
  <2>5. StopIs(act)'
    BY <2>3, <2>4 DEF StopIs, Int80Acts
  <2> QED BY <2>1, <2>2, <2>5 DEF ParityInv
<1>24. CASE \E m \in Modes, i \in BOOLEAN, n \in 0..MaxInjects : Run(m, i, n)
  BY <1>24 DEF Run, RunsInv, AfterInv, Alive, StopIs, FlagTypeOK, Int80Acts, ParityInv
<1>25. CASE UNCHANGED vars
  BY <1>25 DEF vars, RunsInv, AfterInv, Alive, StopIs, FlagTypeOK, Int80Acts, ParityInv
<1> QED
  BY <1>1, <1>2, <1>3, <1>4, <1>5, <1>6, <1>7, <1>8, <1>9, <1>10, <1>11, <1>12, <1>13,
     <1>14, <1>15, <1>16, <1>17, <1>18, <1>19, <1>20, <1>21, <1>22, <1>23, <1>24,
     <1>25
  DEF Next, InnerStep, UserStep, TracerStep, KernelStep, GuestStep, Finished

LEMMA ParityInvariant == Spec => [](RunsInv /\ ParityInv)
<1>1. Init => RunsInv /\ ParityInv
  BY DEF Init, RunsInv, ParityInv
<1> QED BY <1>1, EndInvariant, ParityInductive, PTL DEF Spec

(* The tracer never takes an exit stop for a call, or a call for an exit stop. *)
THEOREM ParityKept == Spec => []ParityAgrees
<1>1. TypeOK /\ ParityInv => ParityAgrees
  BY DEF TypeOK, FlagTypeOK, ParityInv, StopIs, ParityAgrees, Int80Acts
<1> QED BY <1>1, TypeCorrect, ParityInvariant, PTL

-----------------------------------------------------------------------------
(* The invariant behind the state a Paused carries. *)

(* A held snapshot is as old as the signal it is held for. *)
HeldInv ==
  /\ tracer = "stop" => heldSnapshot = NoMem
  /\ nextSignal => tracer \in {"resume", "join", "flush", "send"} \union Ending
  /\ nextSignal /\ tracer = "send" => after = "defer"
  /\ nextSignal /\ tracer = "resume" => heldSnapshot \in {NoMem, mem}
  /\ child = "zombie" /\ why = "died" => tracer = "wait" /\ heldSnapshot \in {NoMem, mem}

(* A Paused on its way carries the memory of now, and no ticker is left to    *)
(* send after it.                                                             *)
PausedInv ==
  /\ tracer \in {"join", "send"} /\ out.kind = "paused" => out.mem = mem /\ after = "defer"
  /\ tracer = "send" /\ out.kind = "paused" => ticker \in {"off", "done"}
  /\ tracer = "flush" => out.kind \in {"exit", "fault"}
  /\ term = "paused" => last.mem = mem /\ ticker \in {"off", "done"} /\ tracer \in Ending

LEMMA PausedInductive == TypeOK /\ AfterInv /\ RunsInv /\ HeldInv /\ PausedInv /\ [Next]_vars
                        => HeldInv' /\ PausedInv'
<1> SUFFICES ASSUME TypeOK, AfterInv, RunsInv, HeldInv, PausedInv, [Next]_vars
             PROVE  HeldInv' /\ PausedInv'
  OBVIOUS
<1> USE DEF TypeOK, ControlTypeOK
<1>1. CASE GuestStore
  BY <1>1
    DEF GuestStore, AfterInv, RunsInv, FlagTypeOK, Alive, Ending, HeldInv, Event,
        Carrying, Terminal, PausedInv
<1>2. CASE SyscallReturns
  BY <1>2
    DEF SyscallReturns, AfterInv, RunsInv, FlagTypeOK, Alive, Ending, HeldInv, Event,
        Carrying, Terminal, PausedInv
<1>3. CASE StopDelivered
  BY <1>3
    DEF StopDelivered, AllActs, SignalActs, AfterInv, RunsInv, FlagTypeOK, Alive,
        Ending, HeldInv, Event, Carrying, Terminal, PausedInv
<1>4. CASE Boot
  BY <1>4
    DEF Boot, AfterInv, RunsInv, FlagTypeOK, Alive, Ending, HeldInv, Event, Carrying,
        Terminal, PausedInv
<1>5. CASE Await
  BY <1>5
    DEF Await, AfterInv, RunsInv, FlagTypeOK, Alive, Ending, HeldInv, Event, Carrying,
        Terminal, PausedInv
<1>6. CASE Setup
  BY <1>6
    DEF Setup, Inject, GoTo, EmitFault, Emit, RangesLeft, AfterInv, RunsInv,
        FlagTypeOK, Alive, Ending, HeldInv, Event, Carrying, Terminal, PausedInv
<1>7. CASE InjectEntry
  BY <1>7
    DEF InjectEntry, GoTo, EmitFault, Emit, AllActs, SignalActs, AfterInv, RunsInv,
        FlagTypeOK, Alive, Ending, HeldInv, Event, Carrying, Terminal, PausedInv
<1>8. CASE InjectExit
  BY <1>8
    DEF InjectExit, GoTo, EmitFault, Emit, AfterInv, RunsInv, FlagTypeOK, Alive,
        Ending, HeldInv, Event, Carrying, Terminal, PausedInv
<1>9. CASE Resume
  BY <1>9
    DEF Resume, GoTo, EmitFault, Emit, AfterInv, RunsInv, FlagTypeOK, Alive, Ending,
        HeldInv, Event, Carrying, Terminal, PausedInv
<1>10. CASE Wait
  BY <1>10
    DEF Wait, Emit, Killed, GoTo, DiscardSnapshot, Carrying, AfterInv, RunsInv,
        FlagTypeOK, Alive, Ending, HeldInv, Event, Terminal, PausedInv
<1>11. CASE HandleStop
  BY <1>11
    DEF HandleStop, ExitStop, EntryStop, AbiStop, SignalStop, Send, GoTo, Inject,
        Emit, EmitFault, AfterInv, RunsInv, FlagTypeOK, Alive, Ending, HeldInv, Event,
        Carrying, Terminal, PausedInv
<1>12. CASE Joined
  BY <1>12
    DEF Joined, TickerGone, Flushes, AfterInv, RunsInv, FlagTypeOK, Alive, Ending,
        HeldInv, Event, Carrying, Terminal, PausedInv
<1>13. CASE Defer
  BY <1>13
    DEF Defer, AfterInv, RunsInv, FlagTypeOK, Alive, Ending, HeldInv, Event, Carrying,
        Terminal, PausedInv
<1>14. CASE CleanUp
  BY <1>14
    DEF CleanUp, TickerGone, AfterInv, RunsInv, FlagTypeOK, Alive, Ending, HeldInv,
        Event, Carrying, Terminal, PausedInv
<1>15. CASE CloseEvents
  BY <1>15
    DEF CloseEvents, AfterInv, RunsInv, FlagTypeOK, Alive, Ending, HeldInv, Event,
        Carrying, Terminal, PausedInv
<1>16. CASE CloseDone
  BY <1>16
    DEF CloseDone, AfterInv, RunsInv, FlagTypeOK, Alive, Ending, HeldInv, Event,
        Carrying, Terminal, PausedInv
<1>17. CASE Tick
  BY <1>17
    DEF Tick, AfterInv, RunsInv, FlagTypeOK, Alive, Ending, HeldInv, Event, Carrying,
        Terminal, PausedInv
<1>18. CASE TickerStops
  BY <1>18
    DEF TickerStops, AfterInv, RunsInv, FlagTypeOK, Alive, Ending, HeldInv, Event,
        Carrying, Terminal, PausedInv
<1>19. CASE ReceiveFromTracer
  BY <1>19
    DEF ReceiveFromTracer, See, Carrying, AfterInv, RunsInv, FlagTypeOK, Alive,
        Ending, HeldInv, Event, Terminal, PausedInv
<1>20. CASE ReceiveFromTicker
  BY <1>20
    DEF ReceiveFromTicker, See, Carrying, AfterInv, RunsInv, FlagTypeOK, Alive,
        Ending, HeldInv, Event, Terminal, PausedInv
<1>21. CASE Close
  BY <1>21
    DEF Close, AfterInv, RunsInv, FlagTypeOK, Alive, Ending, HeldInv, Event, Carrying,
        Terminal, PausedInv
<1>22. CASE Pause
  BY <1>22
    DEF Pause, StopReaches, AfterInv, RunsInv, FlagTypeOK, Alive, Ending, HeldInv,
        Event, Carrying, Terminal, PausedInv
<1>23. CASE \E act \in Acts : GuestStops(act)
  BY <1>23, ActsAssumption
    DEF GuestStops, AfterInv, RunsInv, FlagTypeOK, Alive, Ending, HeldInv, Event,
        Carrying, Terminal, PausedInv, AllActs, AbiActs, SignalActs, Int80Acts
<1>24. CASE \E m \in Modes, i \in BOOLEAN, n \in 0..MaxInjects : Run(m, i, n)
  BY <1>24
    DEF Run, AfterInv, RunsInv, FlagTypeOK, Alive, Ending, HeldInv, Event, Carrying,
        Terminal, PausedInv
<1>25. CASE UNCHANGED vars
  BY <1>25
    DEF vars, AfterInv, RunsInv, FlagTypeOK, Alive, Ending, HeldInv, Event, Carrying,
        Terminal, PausedInv
<1> QED
  BY <1>1, <1>2, <1>3, <1>4, <1>5, <1>6, <1>7, <1>8, <1>9, <1>10, <1>11, <1>12, <1>13,
     <1>14, <1>15, <1>16, <1>17, <1>18, <1>19, <1>20, <1>21, <1>22, <1>23, <1>24,
     <1>25
  DEF Next, InnerStep, UserStep, TracerStep, KernelStep, GuestStep, Finished

LEMMA PausedInvariant == Spec => [](HeldInv /\ PausedInv)
<1>1. Init => HeldInv /\ PausedInv
  BY DEF Init, HeldInv, PausedInv
<1> QED BY <1>1, EndInvariant, ParityInvariant, PausedInductive, PTL DEF Spec

(* A Paused that a peer may resume carries the guest's last memory. *)
THEOREM PausedKept == Spec => []PausedIsCurrent
<1>1. PausedInv => PausedIsCurrent
  BY DEF PausedInv, PausedIsCurrent
<1> QED BY <1>1, PausedInvariant, PTL
-----------------------------------------------------------------------------
(* Past its cleanup, the tracer leaves no child, open file or ticker behind. *)
CleanInv ==
  /\ tracer \in {"closeEvents", "closeDone", "gone"} =>
       child \in {"none", "reaped"} /\ ~memOpen /\ ticker \in {"off", "done"}
  /\ done => tracer = "gone"
  /\ child = "none" => tracer \in {"boot"} \union Ending
  /\ startCh = "void" => tracer \in {"boot"} \union Ending

LEMMA CleanInductive == TypeOK /\ AfterInv /\ JoinInv /\ RunsInv /\ CleanInv /\ [Next]_vars
                        => CleanInv'
<1> SUFFICES ASSUME TypeOK, AfterInv, JoinInv, RunsInv, CleanInv, [Next]_vars
             PROVE  CleanInv'
  OBVIOUS
<1> USE DEF TypeOK, ControlTypeOK
<1>1. CASE GuestStore
  BY <1>1 DEF GuestStore, AfterInv, JoinInv, RunsInv, Ending, CleanInv
<1>2. CASE SyscallReturns
  BY <1>2 DEF SyscallReturns, AfterInv, JoinInv, RunsInv, Ending, CleanInv
<1>3. CASE StopDelivered
  BY <1>3
    DEF StopDelivered, AllActs, SignalActs, AfterInv, JoinInv, RunsInv, Ending,
        CleanInv
<1>4. CASE Boot
  BY <1>4 DEF Boot, AfterInv, JoinInv, RunsInv, Ending, CleanInv
<1>5. CASE Await
  BY <1>5 DEF Await, AfterInv, JoinInv, RunsInv, Ending, CleanInv
<1>6. CASE Setup
  BY <1>6
    DEF Setup, Inject, GoTo, EmitFault, Emit, RangesLeft, AfterInv, JoinInv, RunsInv,
        Ending, CleanInv
<1>7. CASE InjectEntry
  BY <1>7
    DEF InjectEntry, GoTo, EmitFault, Emit, AllActs, SignalActs, AfterInv, JoinInv,
        RunsInv, Ending, CleanInv
<1>8. CASE InjectExit
  BY <1>8
    DEF InjectExit, GoTo, EmitFault, Emit, AfterInv, JoinInv, RunsInv, Ending,
        CleanInv
<1>9. CASE Resume
  BY <1>9
    DEF Resume, GoTo, EmitFault, Emit, AfterInv, JoinInv, RunsInv, Ending, CleanInv
<1>10. CASE Wait
  BY <1>10
    DEF Wait, Emit, Killed, GoTo, DiscardSnapshot, Carrying, AfterInv, JoinInv,
        RunsInv, Ending, CleanInv
<1>11. CASE HandleStop
  BY <1>11
    DEF HandleStop, ExitStop, EntryStop, AbiStop, SignalStop, Send, GoTo, Inject,
        Emit, EmitFault, AfterInv, JoinInv, RunsInv, Ending, CleanInv
<1>12. CASE Joined
  BY <1>12 DEF Joined, TickerGone, Flushes, AfterInv, JoinInv, RunsInv, Ending, CleanInv
<1>13. CASE Defer
  BY <1>13 DEF Defer, AfterInv, JoinInv, RunsInv, Ending, CleanInv
<1>14. CASE CleanUp
  BY <1>14 DEF CleanUp, TickerGone, AfterInv, JoinInv, RunsInv, Ending, CleanInv
<1>15. CASE CloseEvents
  BY <1>15 DEF CloseEvents, AfterInv, JoinInv, RunsInv, Ending, CleanInv
<1>16. CASE CloseDone
  BY <1>16 DEF CloseDone, AfterInv, JoinInv, RunsInv, Ending, CleanInv
<1>17. CASE Tick
  BY <1>17 DEF Tick, AfterInv, JoinInv, RunsInv, Ending, CleanInv
<1>18. CASE TickerStops
  BY <1>18 DEF TickerStops, AfterInv, JoinInv, RunsInv, Ending, CleanInv
<1>19. CASE ReceiveFromTracer
  BY <1>19
    DEF ReceiveFromTracer, See, Carrying, AfterInv, JoinInv, RunsInv, Ending, CleanInv
<1>20. CASE ReceiveFromTicker
  BY <1>20
    DEF ReceiveFromTicker, See, Carrying, AfterInv, JoinInv, RunsInv, Ending, CleanInv
<1>21. CASE Close
  BY <1>21 DEF Close, Alive, JoinInv, Ending, CleanInv
<1>22. CASE Pause
  BY <1>22 DEF Pause, StopReaches, AfterInv, JoinInv, RunsInv, Ending, CleanInv
<1>23. CASE \E act \in Acts : GuestStops(act)
  BY <1>23, ActsAssumption DEF GuestStops, AfterInv, JoinInv, RunsInv, Ending, CleanInv
<1>24. CASE \E m \in Modes, i \in BOOLEAN, n \in 0..MaxInjects : Run(m, i, n)
  BY <1>24 DEF Run, AfterInv, JoinInv, RunsInv, Ending, CleanInv
<1>25. CASE UNCHANGED vars
  BY <1>25 DEF vars, AfterInv, JoinInv, RunsInv, Ending, CleanInv
<1> QED
  BY <1>1, <1>2, <1>3, <1>4, <1>5, <1>6, <1>7, <1>8, <1>9, <1>10, <1>11, <1>12, <1>13,
     <1>14, <1>15, <1>16, <1>17, <1>18, <1>19, <1>20, <1>21, <1>22, <1>23, <1>24,
     <1>25
  DEF Next, InnerStep, UserStep, TracerStep, KernelStep, GuestStep, Finished

LEMMA CleanInvariant == Spec => []CleanInv
<1>1. Init => CleanInv
  BY DEF Init, CleanInv
<1> QED BY <1>1, CleanInductive, EndInvariant, ParityInvariant, PTL DEF Spec

-----------------------------------------------------------------------------
(* The Runner implements EventStream, for a guest whose terminal events all   *)
(* come from emitExit, emitFault and emitPaused: no SYS_exit by int 0x80 and   *)
(* no call the bridge refuses (with those it does not: see TerminalIsLast).    *)

NoBridgeEnds == Acts \intersect {"exit", "refused"} = {}

(* The loop runs for a session that was started and not told its end; the     *)
(* ticker is gone before the end is told.                                     *)
StreamInv ==
  /\ ws \notin {"exit", "refused"} /\ why \notin {"exit", "refused"}
  /\ tracer \in {"setup", "inject", "injectExit", "resume", "wait", "stop", "send",
                 "join", "flush"} => startCh = "taken" /\ term = "none"
  /\ tracer = "flush" \/ (tracer = "send" /\ after = "defer") => ticker \in {"off", "done"}
  /\ tracer = "send" /\ after = "resume" => out.kind = "output"
  /\ ticker \in {"idle", "send"} => startCh = "taken" /\ term = "none"
  /\ term # "none" => startCh = "taken"

LEMMA StreamInductive == NoBridgeEnds /\ TypeOK /\ AfterInv /\ JoinInv /\ EndInv
                           /\ StreamInv /\ [Next]_vars => StreamInv'
<1> SUFFICES ASSUME NoBridgeEnds, TypeOK, AfterInv, JoinInv, EndInv, StreamInv, [Next]_vars
             PROVE  StreamInv'
  OBVIOUS
<1> USE DEF TypeOK, ControlTypeOK
<1>1. CASE GuestStore
  BY <1>1
    DEF GuestStore, AfterInv, JoinInv, EndInv, Ending, Event, Carrying, Terminal,
        StreamInv
<1>2. CASE SyscallReturns
  BY <1>2
    DEF SyscallReturns, AfterInv, JoinInv, EndInv, Ending, Event, Carrying, Terminal,
        StreamInv
<1>3. CASE StopDelivered
  BY <1>3
    DEF StopDelivered, AllActs, SignalActs, AfterInv, JoinInv, EndInv, Ending, Event,
        Carrying, Terminal, StreamInv
<1>4. CASE Boot
  BY <1>4
    DEF Boot, AfterInv, JoinInv, EndInv, Ending, Event, Carrying, Terminal, StreamInv
<1>5. CASE Await
  BY <1>5
    DEF Await, AfterInv, JoinInv, EndInv, Ending, Event, Carrying, Terminal, StreamInv
<1>6. CASE Setup
  BY <1>6
    DEF Setup, Inject, GoTo, EmitFault, Emit, RangesLeft, AfterInv, JoinInv, EndInv,
        Ending, Event, Carrying, Terminal, StreamInv
<1>7. CASE InjectEntry
  BY <1>7
    DEF InjectEntry, GoTo, EmitFault, Emit, AllActs, SignalActs, AfterInv, JoinInv,
        EndInv, Ending, Event, Carrying, Terminal, StreamInv
<1>8. CASE InjectExit
  BY <1>8
    DEF InjectExit, GoTo, EmitFault, Emit, AfterInv, JoinInv, EndInv, Ending, Event,
        Carrying, Terminal, StreamInv
<1>9. CASE Resume
  BY <1>9
    DEF Resume, GoTo, EmitFault, Emit, AfterInv, JoinInv, EndInv, Ending, Event,
        Carrying, Terminal, StreamInv
<1>10. CASE Wait
  BY <1>10
    DEF Wait, Emit, Killed, GoTo, DiscardSnapshot, Carrying, AfterInv, JoinInv,
        EndInv, Ending, Event, Terminal, StreamInv
<1>11. CASE HandleStop
  BY <1>11
    DEF HandleStop, ExitStop, EntryStop, AbiStop, SignalStop, Send, GoTo, Inject,
        Emit, EmitFault, AfterInv, JoinInv, EndInv, Ending, Event, Carrying, Terminal,
        StreamInv
<1>12. CASE Joined
  BY <1>12
    DEF Joined, TickerGone, Flushes, AfterInv, JoinInv, EndInv, Ending, Event,
        Carrying, Terminal, StreamInv
<1>13. CASE Defer
  BY <1>13
    DEF Defer, AfterInv, JoinInv, EndInv, Ending, Event, Carrying, Terminal, StreamInv
<1>14. CASE CleanUp
  BY <1>14
    DEF CleanUp, TickerGone, AfterInv, JoinInv, EndInv, Ending, Event, Carrying,
        Terminal, StreamInv
<1>15. CASE CloseEvents
  BY <1>15
    DEF CloseEvents, AfterInv, JoinInv, EndInv, Ending, Event, Carrying, Terminal,
        StreamInv
<1>16. CASE CloseDone
  BY <1>16
    DEF CloseDone, AfterInv, JoinInv, EndInv, Ending, Event, Carrying, Terminal,
        StreamInv
<1>17. CASE Tick
  BY <1>17
    DEF Tick, AfterInv, JoinInv, EndInv, Ending, Event, Carrying, Terminal, StreamInv
<1>18. CASE TickerStops
  BY <1>18
    DEF TickerStops, AfterInv, JoinInv, EndInv, Ending, Event, Carrying, Terminal,
        StreamInv
<1>19. CASE ReceiveFromTracer
  BY <1>19
    DEF ReceiveFromTracer, See, Carrying, AfterInv, JoinInv, EndInv, Ending, Event,
        Terminal, StreamInv
<1>20. CASE ReceiveFromTicker
  BY <1>20
    DEF ReceiveFromTicker, See, Carrying, AfterInv, JoinInv, EndInv, Ending, Event,
        Terminal, StreamInv
<1>21. CASE Close
  BY <1>21
    DEF Close, AfterInv, JoinInv, EndInv, Ending, Event, Carrying, Terminal, StreamInv
<1>22. CASE Pause
  BY <1>22
    DEF Pause, StopReaches, AfterInv, JoinInv, EndInv, Ending, Event, Carrying,
        Terminal, StreamInv
<1>23. CASE \E act \in Acts : GuestStops(act)
  BY <1>23, ActsAssumption
    DEF NoBridgeEnds, GuestStops, AfterInv, JoinInv, EndInv, Ending, Event, Carrying,
        Terminal, StreamInv
<1>24. CASE \E m \in Modes, i \in BOOLEAN, n \in 0..MaxInjects : Run(m, i, n)
  BY <1>24
    DEF Run, AfterInv, JoinInv, EndInv, Ending, Event, Carrying, Terminal, StreamInv
<1>25. CASE UNCHANGED vars
  BY <1>25
    DEF vars, AfterInv, JoinInv, EndInv, Ending, Event, Carrying, Terminal, StreamInv
<1> QED
  BY <1>1, <1>2, <1>3, <1>4, <1>5, <1>6, <1>7, <1>8, <1>9, <1>10, <1>11, <1>12, <1>13,
     <1>14, <1>15, <1>16, <1>17, <1>18, <1>19, <1>20, <1>21, <1>22, <1>23, <1>24,
     <1>25
  DEF Next, InnerStep, UserStep, TracerStep, KernelStep, GuestStep, Finished

LEMMA StreamInvariant == NoBridgeEnds => (Spec => []StreamInv)
<1>1. Init => StreamInv
  BY DEF Init, StreamInv
<1>2. SUFFICES ASSUME NoBridgeEnds PROVE Spec => []StreamInv
  OBVIOUS
<1>3. TypeOK /\ AfterInv /\ JoinInv /\ EndInv /\ StreamInv /\ [Next]_vars => StreamInv'
  BY <1>2, StreamInductive
<1> QED BY <1>1, <1>3, EndInvariant, PTL DEF Spec

(* Each step of the Runner is one of the stream, or none. *)
THEOREM StreamImplemented == NoBridgeEnds => (Spec => StreamSpec)
<1> SUFFICES ASSUME NoBridgeEnds PROVE Spec => StreamSpec
  OBVIOUS
<1>1. Init => Stream!Init
  BY DEF Init, Stream!Init, Event
<1>2. TypeOK /\ AfterInv /\ JoinInv /\ EndInv /\ StreamInv /\ [Next]_vars
        => [Stream!Next]_(Stream!vars)
  <2> SUFFICES ASSUME TypeOK, AfterInv, JoinInv, EndInv, StreamInv, [Next]_vars
               PROVE  Stream!Next \/ UNCHANGED Stream!vars
    OBVIOUS
  <2> USE DEF TypeOK, ControlTypeOK, Stream!Next, Stream!vars
  <2>1. UNCHANGED <<eventsClosed, term, startCh, last>> => UNCHANGED Stream!vars
    OBVIOUS
  <2>2. CASE GuestStep \/ KernelStep \/ Tick \/ TickerStops \/ Close \/ Pause
    BY <2>1, <2>2 DEF GuestStep, GuestStore, GuestStops, KernelStep, SyscallReturns,
      StopDelivered, Tick, TickerStops, Close, Pause
  <2>3. CASE Setup \/ InjectEntry \/ InjectExit \/ Resume \/ Wait \/ HandleStop
    BY <2>1, <2>3 DEF Setup, InjectEntry, InjectExit, Resume, Wait, HandleStop
  <2>4. CASE Joined \/ Defer \/ CleanUp \/ CloseDone
    BY <2>1, <2>4 DEF Joined, Defer, CleanUp, CloseDone
  <2>5. CASE Boot
    BY <2>5 DEF Boot, EndInv, StreamInv, JoinInv
  <2>6. CASE Await
    BY <2>6 DEF Await, EndInv, StreamInv, JoinInv, Stream!Open, Ending
  <2>7. CASE CloseEvents
    BY <2>7 DEF CloseEvents, EndInv, StreamInv, JoinInv, Stream!CloseStream, Ending
  <2>8. CASE ReceiveFromTracer
    <3>1. /\ eventsClosed = FALSE /\ eventsClosed' = FALSE
          /\ startCh = "taken" /\ startCh' = "taken" /\ term = "none"
      BY <2>8 DEF ReceiveFromTracer, JoinInv, StreamInv, FlagTypeOK
    <3>2. CASE tracer = "flush" \/ after = "resume"
      <4>1. last'.kind \in {"frame", "output"} /\ term' = "none"
        BY <2>8, <3>1, <3>2 DEF ReceiveFromTracer, See, Carrying, StreamInv, Terminal, AfterInv
      <4> QED BY <3>1, <4>1 DEF Stream!Stream, Terminal
    <3>3. CASE tracer = "send" /\ after = "defer"
      <4>1. last'.kind \in Terminal /\ term' = last'.kind
        BY <2>8, <3>3 DEF ReceiveFromTracer, See, EndInv
      <4> QED BY <3>1, <4>1 DEF Stream!End, Terminal
    <3> QED BY <2>8, <3>2, <3>3 DEF ReceiveFromTracer, AfterInv
  <2>9. CASE ReceiveFromTicker
    <3>1. /\ eventsClosed = FALSE /\ eventsClosed' = FALSE
          /\ startCh = "taken" /\ startCh' = "taken" /\ term = "none"
      BY <2>9 DEF ReceiveFromTicker, JoinInv, StreamInv, FlagTypeOK
    <3>2. last'.kind = "frame" /\ term' = "none"
      BY <2>9, <3>1 DEF ReceiveFromTicker, See, Carrying, Terminal
    <3> QED BY <3>1, <3>2 DEF Stream!Stream, Terminal
  <2>10. CASE \E m \in Modes, i \in BOOLEAN, n \in 0..MaxInjects : Run(m, i, n)
    BY <2>10 DEF Run, StreamInv
  <2>11. CASE UNCHANGED vars
    BY <2>1, <2>11 DEF vars
  <2> QED
    BY <2>2, <2>3, <2>4, <2>5, <2>6, <2>7, <2>8, <2>9, <2>10, <2>11
    DEF Next, InnerStep, UserStep, TracerStep, Finished
<1> QED
  BY <1>1, <1>2, EndInvariant, StreamInvariant, PTL DEF Spec, StreamSpec, Stream!Spec
-----------------------------------------------------------------------------
(* The last frame, for the guests of NoBridgeEnds.  Until a Close, the child   *)
(* stands still from the stop that ends the session on: the frame that is      *)
(* flushed for an Exit or a Fault holds its last memory, and the ticker, which *)
(* was joined before, sends no older one after it.                             *)
FrameInv ==
  /\ ~closeCh /\ tracer \in {"await", "setup", "inject", "injectExit", "resume", "stop"}
       => child = "stopped"
  /\ ~closeCh /\ tracer = "send" /\ after = "resume" => child = "stopped"
  /\ ~closeCh /\ tracer = "join" /\ out.kind \in {"exit", "fault"} => child = "stopped"
  /\ tracer = "flush" => finalFrame = mem
  /\ memUpdateEnabled /\ ~closeCh /\ tracer = "send" /\ after = "defer"
       => (out.kind \in {"exit", "fault"} => shown = mem)
  /\ memUpdateEnabled /\ ~closeCh /\ term \in {"exit", "fault"} => shown = mem

LEMMA FrameInductive == TypeOK /\ AfterInv /\ EndInv /\ RunsInv /\ StreamInv /\ FrameInv
                          /\ [Next]_vars => FrameInv'
<1> SUFFICES ASSUME TypeOK, AfterInv, EndInv, RunsInv, StreamInv, FrameInv, [Next]_vars
             PROVE  FrameInv'
  OBVIOUS
<1> USE DEF TypeOK, ControlTypeOK, FlagTypeOK
<1>1. CASE GuestStore
  BY <1>1
    DEF GuestStore, AfterInv, EndInv, RunsInv, StreamInv, FrameInv, Ending, Event,
        Carrying, Terminal, Alive
<1>2. CASE SyscallReturns
  BY <1>2
    DEF SyscallReturns, AfterInv, EndInv, RunsInv, StreamInv, FrameInv, Ending,
        Event, Carrying, Terminal, Alive
<1>3. CASE StopDelivered
  BY <1>3
    DEF StopDelivered, AllActs, SignalActs, AfterInv, EndInv, RunsInv, StreamInv,
        FrameInv, Ending, Event, Carrying, Terminal, Alive
<1>4. CASE Boot
  BY <1>4
    DEF Boot, AfterInv, EndInv, RunsInv, StreamInv, FrameInv, Ending, Event,
        Carrying, Terminal, Alive
<1>5. CASE Await
  BY <1>5
    DEF Await, AfterInv, EndInv, RunsInv, StreamInv, FrameInv, Ending, Event,
        Carrying, Terminal, Alive
<1>6. CASE Setup
  BY <1>6
    DEF Setup, Inject, GoTo, EmitFault, Emit, RangesLeft, AfterInv, EndInv, RunsInv,
        StreamInv, FrameInv, Ending, Event, Carrying, Terminal, Alive
<1>7. CASE InjectEntry
  BY <1>7
    DEF InjectEntry, GoTo, EmitFault, Emit, AllActs, SignalActs, AfterInv, EndInv,
        RunsInv, StreamInv, FrameInv, Ending, Event, Carrying, Terminal, Alive
<1>8. CASE InjectExit
  BY <1>8
    DEF InjectExit, GoTo, EmitFault, Emit, AfterInv, EndInv, RunsInv, StreamInv,
        FrameInv, Ending, Event, Carrying, Terminal, Alive
<1>9. CASE Resume
  BY <1>9
    DEF Resume, GoTo, EmitFault, Emit, AfterInv, EndInv, RunsInv, StreamInv,
        FrameInv, Ending, Event, Carrying, Terminal, Alive
<1>10. CASE Wait
  BY <1>10
    DEF Wait, Emit, Killed, GoTo, DiscardSnapshot, AfterInv, EndInv, RunsInv,
        StreamInv, FrameInv, Ending, Event, Carrying, Terminal, Alive
<1>11. CASE HandleStop
  BY <1>11
    DEF HandleStop, ExitStop, EntryStop, AbiStop, SignalStop, Send, GoTo, Inject,
        Emit, EmitFault, AfterInv, EndInv, RunsInv, StreamInv, FrameInv, Ending,
        Event, Carrying, Terminal, Alive
<1>12. CASE Joined
  BY <1>12
    DEF Joined, TickerGone, Flushes, AfterInv, EndInv, RunsInv, StreamInv, FrameInv,
        Ending, Event, Carrying, Terminal, Alive
<1>13. CASE Defer
  BY <1>13
    DEF Defer, AfterInv, EndInv, RunsInv, StreamInv, FrameInv, Ending, Event,
        Carrying, Terminal, Alive
<1>14. CASE CleanUp
  BY <1>14
    DEF CleanUp, TickerGone, AfterInv, EndInv, RunsInv, StreamInv, FrameInv, Ending,
        Event, Carrying, Terminal, Alive
<1>15. CASE CloseEvents
  BY <1>15
    DEF CloseEvents, AfterInv, EndInv, RunsInv, StreamInv, FrameInv, Ending, Event,
        Carrying, Terminal, Alive
<1>16. CASE CloseDone
  BY <1>16
    DEF CloseDone, AfterInv, EndInv, RunsInv, StreamInv, FrameInv, Ending, Event,
        Carrying, Terminal, Alive
<1>17. CASE Tick
  BY <1>17
    DEF Tick, AfterInv, EndInv, RunsInv, StreamInv, FrameInv, Ending, Event,
        Carrying, Terminal, Alive
<1>18. CASE TickerStops
  BY <1>18
    DEF TickerStops, AfterInv, EndInv, RunsInv, StreamInv, FrameInv, Ending, Event,
        Carrying, Terminal, Alive
<1>19. CASE ReceiveFromTracer
  <2> USE <1>19 DEF ReceiveFromTracer
  <2>1. UNCHANGED <<mem, child, memUpdateEnabled, closeCh, out, after>>
    OBVIOUS
  <2>2. CASE tracer = "flush"
    <3>1. shown' = mem /\ term' = term /\ tracer' = "send" /\ term = "none"
      BY <2>2 DEF See, Carrying, Terminal, FrameInv, StreamInv
    <3> QED BY <2>1, <2>2, <3>1 DEF FrameInv, AfterInv
  <2>3. CASE tracer = "send" /\ after = "resume"
    <3>1. tracer' = "resume" /\ term' = "none" /\ (closeCh \/ child = "stopped")
      BY <2>3 DEF See, StreamInv, FrameInv, Terminal
    <3> QED BY <2>1, <3>1 DEF FrameInv
  <2>4. CASE tracer = "send" /\ after = "defer"
    <3>1. tracer' = "defer" /\ term' = out.kind /\ shown' = shown
      BY <2>4 DEF See, EndInv, Terminal
    <3> QED BY <2>1, <2>4, <3>1 DEF FrameInv
  <2> QED BY <2>2, <2>3, <2>4 DEF AfterInv
<1>20. CASE ReceiveFromTicker
  BY <1>20
    DEF ReceiveFromTicker, See, AfterInv, EndInv, RunsInv, StreamInv, FrameInv,
        Ending, Event, Carrying, Terminal, Alive
<1>21. CASE Close
  BY <1>21
    DEF Close, AfterInv, EndInv, RunsInv, StreamInv, FrameInv, Ending, Event,
        Carrying, Terminal, Alive
<1>22. CASE Pause
  BY <1>22
    DEF Pause, StopReaches, AfterInv, EndInv, RunsInv, StreamInv, FrameInv, Ending,
        Event, Carrying, Terminal, Alive
<1>23. CASE \E act \in Acts : GuestStops(act)
  BY <1>23, ActsAssumption
    DEF NoBridgeEnds, GuestStops, AfterInv, EndInv, RunsInv, StreamInv, FrameInv,
        Ending, Event, Carrying, Terminal, Alive
<1>24. CASE \E m \in Modes, i \in BOOLEAN, n \in 0..MaxInjects : Run(m, i, n)
  BY <1>24
    DEF Run, AfterInv, EndInv, RunsInv, StreamInv, FrameInv, Ending, Event, Carrying,
        Terminal, Alive
<1>25. CASE UNCHANGED vars
  BY <1>25
    DEF vars, AfterInv, EndInv, RunsInv, StreamInv, FrameInv, Ending, Event,
        Carrying, Terminal, Alive
<1> QED
  BY <1>1, <1>2, <1>3, <1>4, <1>5, <1>6, <1>7, <1>8, <1>9, <1>10, <1>11, <1>12, <1>13,
     <1>14, <1>15, <1>16, <1>17, <1>18, <1>19, <1>20, <1>21, <1>22, <1>23, <1>24,
     <1>25
  DEF Next, InnerStep, UserStep, TracerStep, KernelStep, GuestStep, Finished

LEMMA FrameInvariant == NoBridgeEnds => (Spec => []FrameInv)
<1> SUFFICES ASSUME NoBridgeEnds PROVE Spec => []FrameInv
  OBVIOUS
<1>1. Init => FrameInv
  BY DEF Init, FrameInv
<1>2. Spec => []StreamInv
  BY StreamInvariant
<1> QED BY <1>1, <1>2, FrameInductive, EndInvariant, ParityInvariant, PTL DEF Spec

(* After an Exit or a Fault that no Close caused, the last frame shown is the  *)
(* guest's last memory, for every guest that leaves through the ABI page.      *)
THEOREM LastFrameKept == NoBridgeEnds => (Spec => []LastFrame)
<1> SUFFICES ASSUME NoBridgeEnds PROVE Spec => []LastFrame
  OBVIOUS
<1>1. FrameInv => LastFrame
  BY DEF FrameInv, LastFrame
<1>2. Spec => []FrameInv
  BY FrameInvariant
<1> QED BY <1>1, <1>2, PTL

-----------------------------------------------------------------------------
(* Sessions. *)

HIDE DEF NoMem
USE DEF serverVars, wireVars, sessionVars

(* A step of a session is one of its Runner, or leaves it alone. *)
LEMMA SessionStepsRunner == [SessionNext]_allVars => [Next]_vars
<1> SUFFICES ASSUME [SessionNext]_allVars PROVE Next \/ UNCHANGED vars
  OBVIOUS
<1>1. CASE RunnerStep
  BY <1>1 DEF RunnerStep, Next
<1>2. CASE SetupReads
  BY <1>2 DEF SetupReads, Next, UserStep
<1>3. CASE MainStep /\ ~SetupReads
  BY <1>3 DEF MainStep, Created, SetupReadFails, TakeEvent, WriteEvent, EventsEnd,
    MainCloses, MainClosed, ServeEnds, Next, UserStep
<1>4. CASE ReaderStep
  BY <1>4 DEF ReaderStep, ReaderReads, ReadFails, ReaderReturns, ReaderCloses,
    ReaderClosed, Next, UserStep
<1>5. CASE ClientStep
  BY <1>5 DEF ClientStep, ClientLeaves, ClientSends
<1>6. CASE UNCHANGED allVars
  BY <1>6 DEF allVars
<1> QED BY <1>1, <1>2, <1>3, <1>4, <1>5, <1>6 DEF SessionNext

(* A closed done stays closed. *)
LEMMA DoneStays == TypeOK /\ done /\ [Next]_vars => done'
<1> SUFFICES ASSUME TypeOK, done, [Next]_vars PROVE done'
  OBVIOUS
<1>1. done = TRUE
  BY DEF TypeOK, FlagTypeOK
<1>2. CASE InnerStep
  BY <1>1, <1>2 DEF InnerStep, TracerStep, Boot, Await, Setup, InjectEntry, InjectExit,
    Resume, Wait, HandleStop, Joined, Defer, CleanUp, CloseEvents, CloseDone, KernelStep,
    SyscallReturns, StopDelivered, GuestStep, GuestStore, GuestStops, Tick, TickerStops
<1>3. CASE UserStep
  BY <1>1, <1>3 DEF UserStep, ReceiveFromTracer, ReceiveFromTicker, Close, Pause, Run
<1>4. CASE UNCHANGED vars
  BY <1>1, <1>4 DEF vars
<1> QED BY <1>2, <1>3, <1>4 DEF Next, Finished

(* A server session drives its Runner only as a user of the API may: each of  *)
(* its steps is a step of the Runner or none of it.                           *)
THEOREM SessionRunsRunner == SessionSpec => Spec
<1>1. SessionInit => Init
  BY DEF SessionInit
<1> QED BY <1>1, SessionStepsRunner, PTL DEF SessionSpec, Spec

-----------------------------------------------------------------------------
(* What a session returns with: the Runner's tracer is gone. *)
ReturnInv == main \in {"ending", "returned"} => done

LEMMA ReturnInvariant == SessionSpec => []ReturnInv
<1>1. SessionInit => ReturnInv
  BY DEF SessionInit, ReturnInv
<1>2. TypeOK /\ ReturnInv /\ [SessionNext]_allVars => ReturnInv'
  <2> SUFFICES ASSUME TypeOK, ReturnInv, [SessionNext]_allVars PROVE ReturnInv'
    OBVIOUS
  <2>1. done => done'
    <3>1. [Next]_vars
      BY SessionStepsRunner
    <3> QED BY <3>1, DoneStays
  <2>2. main' \in {"ending", "returned"} => main \in {"ending", "returned"} \/ done
    <3>1. CASE MainStep
      BY <3>1 DEF MainStep, Created, SetupReads, SetupReadFails, TakeEvent, WriteEvent,
        EventsEnd, MainCloses, MainClosed, ServeEnds
    <3>2. CASE ReaderStep
      BY <3>2 DEF ReaderStep, ReaderReads, ReadFails, ReaderReturns, ReaderCloses,
        ReaderClosed
    <3>3. CASE RunnerStep \/ ClientStep \/ UNCHANGED allVars
      BY <3>3 DEF RunnerStep, ClientStep, ClientLeaves, ClientSends, allVars
    <3> QED BY <3>1, <3>2, <3>3 DEF SessionNext
  <2> QED BY <2>1, <2>2 DEF ReturnInv
<1> QED
  BY <1>1, <1>2, SessionRunsRunner, TypeCorrect, PTL DEF SessionSpec

(* No guest, ticker or memory file outlives the handler of its session, for   *)
(* every guest and client.                                                    *)
THEOREM GuestDies == SessionSpec => []GuestDiesWithSession
<1>1. CleanInv /\ ReturnInv => GuestDiesWithSession
  BY DEF CleanInv, ReturnInv, GuestDiesWithSession
<1> QED BY <1>1, ReturnInvariant, CleanInvariant, SessionRunsRunner, PTL

-----------------------------------------------------------------------------
(* What the client was told, at each place of the main goroutine. *)
ToldInv ==
  /\ main = "create" => startCh \in {"void", "empty"} /\ term = "none"
  /\ main = "setup" => startCh = "empty" /\ term = "none"
  /\ main = "events" /\ term # "none" => told # "none" \/ clientGone
  /\ main = "write" /\ term # "none" =>
       told # "none" \/ clientGone \/ last.kind \in Terminal
  /\ main \in {"closing", "ending", "returned"} =>
       \/ startCh # "taken" /\ (startCh = "full" => tracer \in Ending)
       \/ told # "none" \/ clientGone
  /\ wsClosed => main = "returned"

(* A step of the Runner itself tells its user nothing, and starts a session   *)
(* only once it was asked to.                                                 *)
LEMMA InnerTellsNothing ==
  ASSUME TypeOK, InnerStep
  PROVE  /\ UNCHANGED <<last, term>>
         /\ \/ startCh' = startCh
            \/ startCh = "full" /\ startCh' = "taken" /\ tracer = "await"
            \/ startCh' = "empty" /\ tracer = "boot"
         /\ tracer \in Ending => tracer' \in Ending
<1> USE DEF TypeOK, ControlTypeOK
<1>1. CASE TracerStep
  BY <1>1 DEF TracerStep, Boot, Await, Setup, InjectEntry, InjectExit, Resume, Wait,
    HandleStop, Joined, Defer, CleanUp, CloseEvents, CloseDone, Ending
<1>2. CASE KernelStep \/ GuestStep \/ Tick \/ TickerStops
  BY <1>2 DEF KernelStep, SyscallReturns, StopDelivered, GuestStep, GuestStore,
    GuestStops, Tick, TickerStops, Ending
<1> QED BY <1>1, <1>2 DEF InnerStep

(* What the server reads and writes, and what its client does. *)
SessionTypes ==
  /\ main \in {"create", "setup", "events", "write", "closing", "ending", "returned"}
  /\ told \in Terminal \union {"none"}
  /\ clientGone \in BOOLEAN

LEMMA ToldInductive ==
  ASSUME TypeOK, JoinInv, EndInv, SessionTypes, ToldInv, [SessionNext]_allVars
  PROVE  SessionTypes' /\ ToldInv'
<1> USE DEF TypeOK, ControlTypeOK, SessionTypes
<1>1. CASE RunnerStep
  BY <1>1, InnerTellsNothing DEF RunnerStep, ToldInv, Ending
<1>2. CASE MainStep
  <2>1. CASE Created
    BY <2>1 DEF vars, Created, ToldInv, JoinInv
  <2>2. CASE SetupReads
    BY <2>2 DEF vars, SetupReads, ToldInv, Run
  <2>3. CASE SetupReadFails
    BY <2>3 DEF vars, SetupReadFails, ToldInv
  <2>4. CASE TakeEvent
    BY <2>4 DEF TakeEvent, ToldInv, ReceiveFromTracer, ReceiveFromTicker, See
  <2>5. CASE WriteEvent
    BY <2>5 DEF vars, WriteEvent, ToldInv, EventTypeOK, Events, Terminal
  <2>6. CASE EventsEnd
    BY <2>6 DEF vars, EventsEnd, ToldInv, JoinInv, EndInv, Ending
  <2>7. CASE MainCloses
    BY <2>7 DEF MainCloses, Close, ToldInv
  <2>8. CASE MainClosed \/ ServeEnds
    BY <2>8 DEF vars, MainClosed, ServeEnds, ToldInv
  <2> QED
    BY <1>2, <2>1, <2>2, <2>3, <2>4, <2>5, <2>6, <2>7, <2>8 DEF MainStep
<1>3. CASE ReaderStep
  BY <1>3 DEF vars, ReaderStep, ReaderReads, ReadFails, ReaderReturns, ReaderCloses,
    ReaderClosed, Close, Pause, ToldInv
<1>4. CASE ClientStep
  <2>1. CASE ClientLeaves
    BY <2>1 DEF vars, ClientLeaves, ToldInv
  <2>2. CASE \E m \in Messages : ClientSends(m)
    BY <2>2 DEF vars, ClientSends, ToldInv
  <2> QED BY <1>4, <2>1, <2>2 DEF ClientStep
<1>5. CASE UNCHANGED allVars
  BY <1>5 DEF vars, allVars, ToldInv
<1> QED BY <1>1, <1>2, <1>3, <1>4, <1>5 DEF SessionNext

(* A client that stayed was told the end of its guest before its socket is    *)
(* closed, for every guest and client.                                        *)
THEOREM ClientIsTold == SessionSpec => []ClientTold
<1>1. SessionInit => SessionTypes /\ ToldInv
  BY DEF SessionInit, Init, SessionTypes, ToldInv
<1>2. ToldInv => ClientTold
  BY DEF ToldInv, ClientTold
<1> QED
  BY <1>1, <1>2, ToldInductive, SessionRunsRunner, EndInvariant, PTL DEF SessionSpec
-----------------------------------------------------------------------------
(* What the session keeps beside its Runner and SessionTypes. *)
WireTypes ==
  /\ reader \in {"off", "read", "closing", "exited"}
  /\ inbox \in Seq(MessageKinds)
  /\ wsClosed \in BOOLEAN

LEMMA WireInductive ==
  ASSUME SessionTypes, WireTypes, [SessionNext]_allVars
  PROVE  WireTypes'
<1> USE DEF WireTypes
<1>1. inbox # <<>> => Tail(inbox) \in Seq(MessageKinds)
  OBVIOUS
<1>2. \A m \in Messages : Append(inbox, m) \in Seq(MessageKinds)
  BY MessagesAssumption
<1>3. CASE RunnerStep
  BY <1>3 DEF RunnerStep
<1>4. CASE MainStep
  BY <1>1, <1>4 DEF MainStep, Created, SetupReads, SetupReadFails, TakeEvent, WriteEvent,
    EventsEnd, MainCloses, MainClosed, ServeEnds
<1>5. CASE ReaderStep
  BY <1>1, <1>5 DEF ReaderStep, ReaderReads, ReadFails, ReaderReturns, ReaderCloses,
    ReaderClosed
<1>6. CASE ClientStep
  BY <1>2, <1>6 DEF ClientStep, ClientLeaves, ClientSends
<1>7. CASE UNCHANGED allVars
  BY <1>7 DEF allVars
<1> QED BY <1>3, <1>4, <1>5, <1>6, <1>7 DEF SessionNext

(* Every variable of a session keeps its type: what waits to be read is a     *)
(* sequence of the messages a client sends, for every client.                 *)
THEOREM SessionTyped == SessionSpec => []SessionTypeOK
<1>1. SessionInit => SessionTypes /\ ToldInv /\ WireTypes
  <2>1. SessionInit => SessionTypes /\ ToldInv
    BY DEF SessionInit, Init, SessionTypes, ToldInv
  <2>2. SessionInit => WireTypes
    <3>1. << >> \in Seq(MessageKinds)
      OBVIOUS
    <3> QED BY <3>1 DEF SessionInit, WireTypes
  <2> QED BY <2>1, <2>2
<1>2. TypeOK /\ SessionTypes /\ WireTypes => SessionTypeOK
  BY DEF SessionTypes, WireTypes, SessionTypeOK
<1> QED
  BY <1>1, <1>2, ToldInductive, WireInductive, SessionRunsRunner, EndInvariant, PTL
    DEF SessionSpec
=============================================================================
