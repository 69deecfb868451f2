--------------------------- MODULE Turbo86Runner ---------------------------
(***************************************************************************)
(* One guest session of turbo86's Runner (src/turbo86/runner/runner.go):   *)
(* the tracer goroutine, which makes every ptrace call; the MemUpdate      *)
(* ticker goroutine; the ptraced child and the kernel's view of it; and    *)
(* the user of the API, who starts the session, receives from the          *)
(* unbuffered eventsCh, and may Pause or Close at any moment.              *)
(*                                                                         *)
(* A step of a goroutine ends where it can block (a channel operation,     *)
(* wait4, WaitGroup.Wait) and where another goroutine or the kernel may    *)
(* act on what it reads next.  Guest memory is abstracted to a version     *)
(* number that every guest store raises; an event that carries memory      *)
(* carries the version of its snapshot, NoMem when it carries none.        *)
(***************************************************************************)
EXTENDS Naturals

CONSTANTS
  Acts,        \* what the guest may do, a subset of AllActs
  Modes,       \* the signal policies a session may ask for
  MaxMem,      \* bound: the last version of guest memory
  MaxInjects   \* bound: mmap2 injections while a context or an ELF is loaded

(* int 0x80 calls by what the bridge makes of them: SYS_exit, a good write, a *)
(* call it refuses, and rt_sigreturn / rt_sigaction / rt_sigprocmask.         *)
Int80Acts == {"exit", "write", "refused", "sigcall"}

(* Faulting stores into the ABI page, by what dispatchAbi does with them: an  *)
(* event and on (video mode, write), a poll, mmap_request, exit, a bad call.  *)
AbiActs == {"abiEvent", "abiPoll", "abiMmap", "abiExit", "abiBad"}

(* Other signal stops: forwardable, SIGTRAP, job control and the like. *)
SignalActs == {"signal", "sigtrap", "jobsignal"}

AllActs == Int80Acts \union AbiActs \union SignalActs

ASSUME ActsAssumption == Acts \subseteq AllActs
ASSUME ModesAssumption == Modes \subseteq {"host", "trap"} /\ Modes # {}
ASSUME MaxMemAssumption == MaxMem \in Nat \ {0}
ASSUME MaxInjectsAssumption == MaxInjects \in Nat

VARIABLES
  tracer,       \* where the tracer goroutine is
  ws,           \* the reason of the stop wait4 last returned
  pending,      \* syscallPending.expectingExit
  nextSignal,   \* a signal goes with the next PTRACE_SYSCALL
  heldSnapshot, \* memory held across a forward, NoMem when nil
  toInject,     \* mmap2 injections the setup still has to make
  out,          \* the event the tracer is sending or about to send
  finalFrame,   \* the MemUpdate emitFinalMemUpdate sends before it
  after,        \* where the tracer goes once out is received
  startCh,      \* "void" until New hands the Runner out, then "empty", "full", "taken"
  mode,         \* r.mode
  interval,     \* the start message (or LoadElf) asks for MemUpdates
  memUpdateEnabled,
  memOpen,      \* /proc/PID/mem is open
  ticker,       \* where the MemUpdate ticker goroutine is
  tick,         \* the memory its next MemUpdate carries
  tickerStop, closeCh, eventsClosed, done,  \* channels that have been closed
  child,        \* the child as the kernel knows it
  why,          \* the reason of its last stop or of its death
  inSyscall,    \* between a syscall-entry stop and the matching exit stop
  stopPending,  \* a SIGSTOP waits for delivery
  mem,          \* version of guest memory
  last,         \* the last event received from eventsCh
  term,         \* kind of the last terminal event received, or "none"
  shown         \* memory of the last MemUpdate received

goVars == <<tracer, ws, pending, nextSignal, heldSnapshot, toInject, out,
            finalFrame, after>>
startVars == <<startCh, mode, interval>>
tickerVars == <<ticker, tick>>
chanVars == <<closeCh, eventsClosed, done>>
kernelVars == <<child, why, inSyscall, stopPending, mem>>
userVars == <<last, term, shown>>
vars == <<goVars, startVars, memUpdateEnabled, memOpen, tickerVars, tickerStop,
          chanVars, kernelVars, userVars>>

NoMem == 0
Terminal == {"exit", "fault", "paused", "killed"}
Kinds == {"nothing", "output", "frame"} \union Terminal
Events == [kind : Kinds, mem : 0..MaxMem]
Event(k) == [kind |-> k, mem |-> NoMem]
Carrying(k, m) == [kind |-> k, mem |-> m]

Alive == child \in {"running", "stopped"}

(* Mutant: tickerWg.Wait() is forgotten. *)
TickerGoneUnjoined == TRUE

(* tickerWg.Wait() returns. *)
TickerGone == ticker \in {"off", "done"}

-----------------------------------------------------------------------------
(* New: eventsCh, closeCh, done and tickerStop are made, the tracer started. *)
Init ==
  /\ tracer = "boot" /\ ws = "none" /\ pending = FALSE /\ nextSignal = FALSE
  /\ heldSnapshot = NoMem /\ toInject = 0
  /\ out = Event("nothing") /\ finalFrame = NoMem /\ after = "defer"
  /\ startCh = "void" /\ mode = "host" /\ interval = FALSE
  /\ memUpdateEnabled = FALSE /\ memOpen = FALSE
  /\ ticker = "off" /\ tick = NoMem
  /\ tickerStop = FALSE /\ closeCh = FALSE /\ eventsClosed = FALSE /\ done = FALSE
  /\ child = "none" /\ why = "none" /\ inSyscall = FALSE /\ stopPending = FALSE
  /\ mem = 1
  /\ last = Event("nothing") /\ term = "none" /\ shown = NoMem

-----------------------------------------------------------------------------
(* The kernel and the guest. *)

(* The guest stores to its memory. *)
GuestStore ==
  /\ child = "running" /\ ~inSyscall /\ mem < MaxMem
  /\ mem' = mem + 1
  /\ UNCHANGED <<goVars, startVars, memUpdateEnabled, memOpen, tickerVars,
                 tickerStop, chanVars, child, why, inSyscall, stopPending, userVars>>

(* The guest makes an int 0x80 call (a syscall-entry stop), stores into the  *)
(* ABI page or raises a signal (a signal-delivery stop).                     *)
GuestStops(act) ==
  /\ child = "running" /\ ~inSyscall
  /\ child' = "stopped" /\ why' = act /\ inSyscall' = (act \in Int80Acts)
  /\ UNCHANGED <<goVars, startVars, memUpdateEnabled, memOpen, tickerVars,
                 tickerStop, chanVars, stopPending, mem, userVars>>

(* The kernel finishes the call, or what is left of a suppressed one. *)
SyscallReturns ==
  /\ child = "running" /\ inSyscall
  /\ child' = "stopped" /\ why' = "sysexit" /\ inSyscall' = FALSE
  /\ UNCHANGED <<goVars, startVars, memUpdateEnabled, memOpen, tickerVars,
                 tickerStop, chanVars, stopPending, mem, userVars>>

(* The SIGSTOP of Pause reaches the child on its way to user mode. *)
StopDelivered ==
  /\ child = "running" /\ ~inSyscall /\ stopPending
  /\ child' = "stopped" /\ why' = "jobsignal" /\ stopPending' = FALSE
  /\ UNCHANGED <<goVars, startVars, memUpdateEnabled, memOpen, tickerVars,
                 tickerStop, chanVars, inSyscall, mem, userVars>>

-----------------------------------------------------------------------------
(* The ways the tracer leaves a computation. *)

(* r.eventsCh <- ev, then on to pc. *)
Send(ev, pc) == tracer' = "send" /\ out' = ev /\ after' = pc /\ UNCHANGED tickerStop

(* Mutant: the ticker is joined and never told to stop. *)
EmitUnstopped(ev) ==
  tracer' = "join" /\ out' = ev /\ after' = "defer" /\ UNCHANGED tickerStop

(* emitFault, emitExit, emitPaused: stopMemUpdateTicker closes tickerStop; the *)
(* join and the sends follow, and every caller then returns from tracerLoop.   *)
Emit(ev) == tracer' = "join" /\ out' = ev /\ after' = "defer" /\ tickerStop' = TRUE

GoTo(pc) == tracer' = pc /\ UNCHANGED <<out, after, tickerStop>>

(* Mutant: the fault is returned and not sent. *)
EmitFaultSilently == GoTo("defer")

EmitFault == Emit(Event("fault"))

(* injectSyscall begins; the computation continues at pc when it returns. *)
Inject(pc) == tracer' = "inject" /\ after' = pc /\ UNCHANGED <<out, tickerStop>>

-----------------------------------------------------------------------------
(* The tracer before the syscall loop. *)

(* bootstrap: the stub runs to its SIGSTOP and /proc/PID/mem is opened, or *)
(* New returns the error and no Runner.                                    *)
Boot ==
  /\ tracer = "boot"
  /\ \/ /\ tracer' = "await" /\ child' = "stopped" /\ memOpen' = TRUE /\ startCh' = "empty"
     \/ /\ tracer' = "defer" /\ child' \in {"none", "stopped"}
        /\ UNCHANGED <<memOpen, startCh>>
  /\ UNCHANGED <<ws, pending, nextSignal, heldSnapshot, toInject, out, finalFrame,
                 after, mode, interval, memUpdateEnabled, tickerVars, tickerStop,
                 chanVars, why, inSyscall, stopPending, mem, userVars>>

(* select on startCh and closeCh. *)
Await ==
  /\ tracer = "await"
  /\ \/ startCh = "full" /\ startCh' = "taken" /\ tracer' = "setup"
     \/ closeCh /\ tracer' = "defer" /\ UNCHANGED startCh
  /\ UNCHANGED <<ws, pending, nextSignal, heldSnapshot, toInject, out, finalFrame,
                 after, mode, interval, memUpdateEnabled, memOpen, tickerVars,
                 tickerStop, chanVars, kernelVars, userVars>>

(* Mutant: one range too many. *)
RangesLeftOffByOne == toInject >= 0

(* A region, reservation or segment still has to be mapped. *)
RangesLeft == toInject > 0

(* Memory and registers are set up: an mmap2 injection for each range the    *)
(* stub does not map (or a refused range), then the ticker and syscallLoop.  *)
(* A child killed meanwhile fails the next memory write or ptrace call.      *)
Setup ==
  /\ tracer = "setup"
  /\ \/ /\ Alive /\ RangesLeft
        /\ Inject("setup") /\ toInject' = toInject - 1
        /\ UNCHANGED <<memUpdateEnabled, ticker>>
     \/ /\ Alive /\ ~RangesLeft
        /\ GoTo("resume") /\ memUpdateEnabled' = interval
        /\ ticker' = IF interval THEN "idle" ELSE ticker
        /\ UNCHANGED toInject
     \/ /\ ~Alive \/ RangesLeft
        /\ EmitFault
        /\ UNCHANGED <<toInject, memUpdateEnabled, ticker>>
  /\ UNCHANGED <<ws, pending, nextSignal, heldSnapshot, finalFrame, startVars, memOpen,
                 tick, chanVars, kernelVars, userVars>>

(* The first PTRACE_SYSCALL and wait4 of injectSyscall.  A SIGSTOP that waits *)
(* is delivered before the injected int 0x80 is reached: "expected            *)
(* syscall-stop".                                                             *)
InjectEntry ==
  /\ tracer = "inject"
  /\ \/ /\ ~Alive /\ EmitFault
        /\ UNCHANGED <<why, inSyscall, stopPending>>
     \/ /\ Alive /\ stopPending /\ EmitFault
        /\ why' = "jobsignal" /\ stopPending' = FALSE /\ UNCHANGED inSyscall
     \/ /\ Alive /\ ~stopPending /\ GoTo("injectExit")
        /\ inSyscall' = TRUE /\ UNCHANGED <<why, stopPending>>
  /\ UNCHANGED <<ws, pending, nextSignal, heldSnapshot, toInject, finalFrame, startVars,
                 memUpdateEnabled, memOpen, tickerVars, chanVars, child, mem, userVars>>

(* The second one, and what the callers make of mmap2's result. *)
InjectExit ==
  /\ tracer = "injectExit"
  /\ inSyscall' = FALSE
  /\ \/ Alive /\ GoTo(after)
     \/ EmitFault
  /\ UNCHANGED <<ws, pending, nextSignal, heldSnapshot, toInject, finalFrame, startVars,
                 memUpdateEnabled, memOpen, tickerVars, chanVars, child, why,
                 stopPending, mem, userVars>>

-----------------------------------------------------------------------------
(* syscallLoop. *)

(* PTRACE_SYSCALL fails for a child that was killed.  A signal that goes with *)
(* it is handled (or ignored) by the guest, or kills the child.               *)
Resume ==
  /\ tracer = "resume"
  /\ \/ ~Alive /\ EmitFault /\ UNCHANGED <<nextSignal, child, why>>
     \/ /\ Alive /\ GoTo("wait") /\ nextSignal' = FALSE
        /\ \/ child' = "running" /\ UNCHANGED why
           \/ nextSignal /\ child' = "zombie" /\ why' = "died"
  /\ UNCHANGED <<ws, pending, heldSnapshot, toInject, finalFrame, startVars,
                 memUpdateEnabled, memOpen, tickerVars, chanVars, inSyscall,
                 stopPending, mem, userVars>>

(* What is sent for a child that a signal killed: "paused" when the forwarded *)
(* signal did and its snapshot is held, "killed" for the others.              *)
Killed == Carrying(IF why = "died" /\ heldSnapshot # NoMem THEN "paused" ELSE "killed",
                   heldSnapshot)

(* Mutant: a held snapshot outlives the stop after it. *)
DiscardSnapshotNever == UNCHANGED heldSnapshot

(* "Child is alive at a stop; any held snapshot is stale." *)
DiscardSnapshot == heldSnapshot' = NoMem

(* wait4 returns: the child is dead and reaped, or at a stop. *)
Wait ==
  /\ tracer = "wait"
  /\ \/ /\ child = "zombie" /\ child' = "reaped"
        /\ Emit(Killed) /\ UNCHANGED <<ws, heldSnapshot>>
     \/ /\ child = "stopped" /\ ws' = why /\ DiscardSnapshot
        /\ GoTo("stop") /\ UNCHANGED child
  /\ UNCHANGED <<pending, nextSignal, toInject, finalFrame, startVars,
                 memUpdateEnabled, memOpen, tickerVars, chanVars, why, inSyscall,
                 stopPending, mem, userVars>>

(* Mutant: the exit stop leaves expectingExit set. *)
ExitStopUnreset ==
  /\ pending /\ ws \in Int80Acts \union {"sysexit"}
  /\ GoTo("resume")
  /\ UNCHANGED <<pending, nextSignal, heldSnapshot>>

(* A syscall stop is an exit stop when one is expected. *)
ExitStop ==
  /\ pending /\ ws \in Int80Acts \union {"sysexit"}
  /\ pending' = FALSE /\ GoTo("resume")
  /\ UNCHANGED <<nextSignal, heldSnapshot>>

(* Otherwise the call goes to the bridge (in trap mode rt_sig* calls are       *)
(* emulated here and may be refused).  The bridge's events go out directly.    *)
EntryStop ==
  /\ ~pending
  /\ \/ ws = "exit" /\ Send(Event("exit"), "defer") /\ UNCHANGED pending
     \/ ws = "refused" /\ Send(Event("fault"), "defer") /\ UNCHANGED pending
     \/ ws = "write" /\ Send(Event("output"), "resume") /\ pending' = TRUE
     \/ ws = "sigcall" /\ GoTo("resume") /\ pending' = TRUE
     \/ ws = "sigcall" /\ mode = "trap" /\ EmitFault /\ UNCHANGED pending
  /\ UNCHANGED <<nextSignal, heldSnapshot>>

(* dispatchAbi. *)
AbiStop ==
  /\ \/ ws = "abiEvent" /\ Send(Event("output"), "resume")
     \/ ws = "abiPoll" /\ GoTo("resume")
     \/ ws = "abiMmap" /\ Inject("resume")
     \/ ws = "abiExit" /\ Emit(Event("exit"))
     \/ ws \in {"abiMmap", "abiBad"} /\ EmitFault
  /\ UNCHANGED <<pending, nextSignal, heldSnapshot>>

(* Forwardable signals go to the guest's handler, by the tracer in trap mode  *)
(* and by the kernel in host mode, where a snapshot is held unless a handler  *)
(* is known; the others end the session with the state at the stop.           *)
SignalStop ==
  /\ \/ /\ ws = "signal" /\ mode = "host"
        /\ GoTo("resume") /\ nextSignal' = TRUE /\ heldSnapshot' \in {heldSnapshot, mem}
     \/ /\ \/ ws = "signal" /\ mode = "trap" /\ (GoTo("resume") \/ EmitFault)
           \/ ws = "signal" /\ mode = "trap" /\ Emit(Carrying("paused", mem))
           \/ ws = "sigtrap" /\ EmitFault
           \/ ws = "jobsignal" /\ Emit(Carrying("paused", mem))
        /\ UNCHANGED <<nextSignal, heldSnapshot>>
  /\ UNCHANGED pending

(* A stop is handled.  The registers and memory of a child killed meanwhile  *)
(* cannot be read: every branch then ends in a Fault.                         *)
HandleStop ==
  /\ tracer = "stop"
  /\ \/ Alive /\ (ExitStop \/ EntryStop \/ AbiStop \/ SignalStop)
     \/ ~Alive /\ EmitFault /\ UNCHANGED <<pending, nextSignal, heldSnapshot>>
  /\ UNCHANGED <<ws, toInject, finalFrame, startVars, memUpdateEnabled, memOpen,
                 tickerVars, chanVars, kernelVars, userVars>>

-----------------------------------------------------------------------------
(* The end of a session. *)

(* Mutant: only emitFault flushes a last frame. *)
FlushesFaultOnly == out.kind = "fault" /\ memUpdateEnabled /\ Alive

(* emitFinalMemUpdate has a frame to send: emitFault and emitExit call it, a  *)
(* dead child has no memory to read, and guest memory is never all zero (the  *)
(* trampoline is in it).                                                      *)
Flushes == out.kind \in {"exit", "fault"} /\ memUpdateEnabled /\ Alive

(* stopMemUpdateTicker has joined the ticker; emitFinalMemUpdate takes the    *)
(* last snapshot (a Paused carries its own), then the terminal event.         *)
Joined ==
  /\ tracer = "join" /\ TickerGone
  /\ IF Flushes
     THEN tracer' = "flush" /\ finalFrame' = mem
     ELSE tracer' = "send" /\ UNCHANGED finalFrame
  /\ UNCHANGED <<ws, pending, nextSignal, heldSnapshot, toInject, out, after, startVars,
                 memUpdateEnabled, memOpen, tickerVars, tickerStop, chanVars,
                 kernelVars, userVars>>

(* tracerLoop's defer: the ticker is told to stop, *)
Defer ==
  /\ tracer = "defer" /\ tracer' = "deferJoin" /\ tickerStop' = TRUE
  /\ UNCHANGED <<ws, pending, nextSignal, heldSnapshot, toInject, out, finalFrame, after,
                 startVars, memUpdateEnabled, memOpen, tickerVars, chanVars,
                 kernelVars, userVars>>

(* joined; the child is killed and reaped, /proc/PID/mem closed, *)
CleanUp ==
  /\ tracer = "deferJoin" /\ TickerGone /\ tracer' = "closeEvents"
  /\ child' = IF child = "none" THEN "none" ELSE "reaped"
  /\ memOpen' = FALSE
  /\ UNCHANGED <<ws, pending, nextSignal, heldSnapshot, toInject, out, finalFrame, after,
                 startVars, memUpdateEnabled, tickerVars, tickerStop, chanVars, why,
                 inSyscall, stopPending, mem, userVars>>

(* close(r.eventsCh), *)
CloseEvents ==
  /\ tracer = "closeEvents" /\ tracer' = "closeDone" /\ eventsClosed' = TRUE
  /\ UNCHANGED <<ws, pending, nextSignal, heldSnapshot, toInject, out, finalFrame, after,
                 startVars, memUpdateEnabled, memOpen, tickerVars, tickerStop, closeCh,
                 done, kernelVars, userVars>>

(* close(r.done). *)
CloseDone ==
  /\ tracer = "closeDone" /\ tracer' = "gone" /\ done' = TRUE
  /\ UNCHANGED <<ws, pending, nextSignal, heldSnapshot, toInject, out, finalFrame, after,
                 startVars, memUpdateEnabled, memOpen, tickerVars, tickerStop, closeCh,
                 eventsClosed, kernelVars, userVars>>

-----------------------------------------------------------------------------
(* memUpdateTicker. *)

(* The interval passes and a snapshot is taken while the guest runs on (a    *)
(* failed snapshot skips the tick).                                          *)
Tick ==
  /\ ticker = "idle" /\ Alive /\ memOpen
  /\ ticker' = "send" /\ tick' = mem
  /\ UNCHANGED <<goVars, startVars, memUpdateEnabled, memOpen, tickerStop, chanVars,
                 kernelVars, userVars>>

TickerStops ==
  /\ ticker \in {"idle", "send"} /\ (tickerStop \/ closeCh)
  /\ ticker' = "done" /\ tick' = NoMem
  /\ UNCHANGED <<goVars, startVars, memUpdateEnabled, memOpen, tickerStop, chanVars,
                 kernelVars, userVars>>

-----------------------------------------------------------------------------
(* The user of the API. *)

(* What the user sees of an event. *)
See(ev) ==
  /\ last' = ev
  /\ term' = IF ev.kind \in Terminal THEN ev.kind ELSE term
  /\ shown' = IF ev.kind = "frame" THEN ev.mem ELSE shown

(* A receive from eventsCh meets the tracer's send, *)
ReceiveFromTracer ==
  /\ \/ /\ tracer = "flush" /\ See(Carrying("frame", finalFrame))
        /\ tracer' = "send" /\ finalFrame' = NoMem
     \/ /\ tracer = "send" /\ See(out) /\ tracer' = after /\ UNCHANGED finalFrame
  /\ UNCHANGED <<ws, pending, nextSignal, heldSnapshot, toInject, out, after, startVars,
                 memUpdateEnabled, memOpen, tickerVars, tickerStop, chanVars, kernelVars>>

(* or the ticker's. *)
ReceiveFromTicker ==
  /\ ticker = "send" /\ See(Carrying("frame", tick))
  /\ ticker' = "idle" /\ tick' = NoMem
  /\ UNCHANGED <<goVars, startVars, memUpdateEnabled, memOpen, tickerStop, chanVars,
                 kernelVars>>

(* Run and its variants: m is the mode, i whether MemUpdates are asked for, n *)
(* the mmap2 injections the context or ELF will need.                         *)
Run(m, i, n) ==
  /\ startCh = "empty" /\ ~closeCh
  /\ startCh' = "full" /\ mode' = m /\ interval' = i /\ toInject' = n
  /\ UNCHANGED <<tracer, ws, pending, nextSignal, heldSnapshot, out, finalFrame, after,
                 memUpdateEnabled, memOpen, tickerVars, tickerStop, chanVars,
                 kernelVars, userVars>>

(* Mutant: Close does not kill the child. *)
CloseNoKill ==
  /\ startCh # "void" /\ ~closeCh
  /\ closeCh' = TRUE
  /\ UNCHANGED <<goVars, startVars, memUpdateEnabled, memOpen, tickerVars, tickerStop,
                 eventsClosed, done, kernelVars, userVars>>

(* Close, up to its wait for done: closeCh is closed and the child killed. *)
Close ==
  /\ startCh # "void" /\ ~closeCh
  /\ closeCh' = TRUE
  /\ child' = IF Alive THEN "zombie" ELSE child
  /\ why' = IF Alive THEN "killed" ELSE why
  /\ UNCHANGED <<goVars, startVars, memUpdateEnabled, memOpen, tickerVars, tickerStop,
                 eventsClosed, done, inSyscall, stopPending, mem, userVars>>

(* A SIGSTOP changes something: the child lives and has none waiting. *)
StopReaches == startCh # "void" /\ Alive /\ ~stopPending

(* Pause: SIGSTOP to the child; nothing once the child is dead. *)
Pause ==
  /\ StopReaches
  /\ stopPending' = TRUE
  /\ UNCHANGED <<goVars, startVars, memUpdateEnabled, memOpen, tickerVars, tickerStop,
                 chanVars, child, why, inSyscall, mem, userVars>>

-----------------------------------------------------------------------------
TracerStep ==
  Boot \/ Await \/ Setup \/ InjectEntry \/ InjectExit \/ Resume \/ Wait \/ HandleStop
  \/ Joined \/ Defer \/ CleanUp \/ CloseEvents \/ CloseDone

KernelStep == SyscallReturns \/ StopDelivered

GuestStep == GuestStore \/ \E act \in Acts : GuestStops(act)

(* What runs without the user: the goroutines of the Runner and the child. *)
InnerStep == TracerStep \/ KernelStep \/ GuestStep \/ Tick \/ TickerStops

UserStep ==
  \/ ReceiveFromTracer \/ ReceiveFromTicker \/ Close \/ Pause
  \/ \E m \in Modes, i \in BOOLEAN, n \in 0..MaxInjects : Run(m, i, n)

Finished == tracer = "gone" /\ UNCHANGED vars

Next == InnerStep \/ UserStep \/ Finished

Spec == Init /\ [][Next]_vars

(* Go schedules every runnable goroutine; the kernel completes calls and, for *)
(* a child that keeps being resumed, delivers a SIGSTOP at last; senders on a *)
(* channel are served first come, first served, and the user drains it.  The  *)
(* guest owes no progress.                                                    *)
Fairness ==
  /\ WF_vars(TracerStep) /\ WF_vars(SyscallReturns) /\ SF_vars(StopDelivered)
  /\ WF_vars(TickerStops) /\ WF_vars(ReceiveFromTracer)

FairSpec == Spec /\ Fairness

-----------------------------------------------------------------------------
(* Every variable keeps its type; a Runner in any state is one of these. *)
ControlTypeOK ==
  /\ tracer \in {"boot", "await", "setup", "inject", "injectExit", "resume", "wait",
                 "stop", "send", "join", "flush", "defer", "deferJoin",
                 "closeEvents", "closeDone", "gone"}
  /\ after \in {"setup", "resume", "defer"}
  /\ ws \in AllActs \union {"none", "sysexit", "died", "killed"}
  /\ startCh \in {"void", "empty", "full", "taken"} /\ mode \in {"host", "trap"}
  /\ ticker \in {"off", "idle", "send", "done"}
  /\ child \in {"none", "running", "stopped", "zombie", "reaped"}
  /\ why \in AllActs \union {"none", "sysexit", "died", "killed"}

FlagTypeOK ==
  /\ pending \in BOOLEAN /\ nextSignal \in BOOLEAN /\ interval \in BOOLEAN
  /\ memUpdateEnabled \in BOOLEAN /\ memOpen \in BOOLEAN
  /\ tickerStop \in BOOLEAN /\ closeCh \in BOOLEAN
  /\ eventsClosed \in BOOLEAN /\ done \in BOOLEAN
  /\ inSyscall \in BOOLEAN /\ stopPending \in BOOLEAN

NumberTypeOK ==
  /\ mem \in 1..MaxMem /\ toInject \in 0..MaxInjects
  /\ heldSnapshot \in 0..MaxMem /\ finalFrame \in 0..MaxMem
  /\ tick \in 0..MaxMem /\ shown \in 0..MaxMem

EventTypeOK == out \in Events /\ last \in Events /\ term \in Terminal \union {"none"}

TypeOK == ControlTypeOK /\ FlagTypeOK /\ NumberTypeOK /\ EventTypeOK

(* No goroutine is left that could send on eventsCh once it is closed (a      *)
(* panic), and the ticker never outlives the memory file it reads: the join   *)
(* in tracerLoop's defer, whichever of exit, fault, Pause and Close came first. *)
NoUseAfterClose ==
  /\ eventsClosed => tracer \notin {"send", "flush"} /\ ticker \notin {"idle", "send"}
  /\ memOpen \/ ticker \notin {"idle", "send"}

(* The tracer and the kernel agree on which syscall stops are entries and     *)
(* which are exits, across suppressed, passed-through and injected calls and  *)
(* the signals between them: an argument register is never overwritten with   *)
(* a return value, a return never bridged as a call.                          *)
ParityAgrees ==
  tracer = "stop" /\ ws \in Int80Acts \union {"sysexit"} => pending = ~inSyscall

(* A session that ran is never closed on its user without a terminal event,   *)
(* whatever failed and whoever interrupted it.                                *)
EndIsTold == eventsClosed /\ startCh = "taken" => term # "none"

(* A Paused a peer may resume carries the memory the guest stopped with: a    *)
(* snapshot held for a forwarded signal is never one from an earlier stop.    *)
PausedIsCurrent == term = "paused" => last.mem = mem

(* "One final MemUpdate at session end": after an Exit or a Fault that no     *)
(* Close caused, the last frame shown is the guest's last memory, though the  *)
(* ticker had older frames in flight.                                         *)
LastFrame ==
  term \in {"exit", "fault"} /\ memUpdateEnabled /\ ~closeCh => shown = mem

(* Stopping the ticker "prevents an in-flight periodic update from being      *)
(* delivered after a terminal event": nothing is received after one.          *)
TerminalIsLast == [][term # "none" => UNCHANGED last]_vars

(* What the user of a Runner is promised (see EventStream). *)
Stream == INSTANCE EventStream WITH
  Terminal <- Terminal,
  stream <- IF eventsClosed THEN "closed"
            ELSE IF term # "none" THEN "ended"
            ELSE IF startCh = "taken" THEN "open" ELSE "idle",
  event <- last

(* The Runner implements it: its events are an open stream with exactly one   *)
(* terminal event, the last, and the channel closes after it.                 *)
StreamSpec == Stream!Spec

(* Close completes for a user that drains eventsCh, even if the guest spins   *)
(* without ever stopping.                                                     *)
CloseCompletes == closeCh ~> done

(* A Pause of a running session ends it, ticker and all. *)
PauseEndsSession == stopPending /\ startCh = "taken" ~> done
===============================================================================
