# TLA+ models of x86.mov

x86.mov compiles C, Rust and LLVM IR to x86 programs made of `mov` instructions only, with
**llvm-mov**, an LLVM back end written in C++, and runs them: in **movie86**, an emulator
written in Rust that also runs in the browser, and in **turbo86**, a Go server that runs the
same guest natively under ptrace and streams its events over a WebSocket. The **explorer**, a
web page, drives both and hands a running guest from one to the other. This directory holds
TLA+ models of the parts where several actors meet and of the code the compiler generates in
place of what `mov` cannot do, TLC configurations for them, and theorems checked by TLAPS.

## 1. Inventory

### turbo86 (Go)

| Part | State | Operations | Talks to |
|---|---|---|---|
| `runner/runner.go` | tracer goroutine (boot, set-up, syscall loop), MemUpdate ticker, `syscallPending`, held snapshot, `r.handlers`, `signalRegs`, input queue, `extraRegions`, channels `startCh`, `eventsCh`, `closeCh`, `done`, `tickerStop` | `New`, `WriteCode`, `Run*`, `LoadElf`, `Pause`, `PushInput`, `Close`; inside: `bootstrap`, `tracerLoop`, `injectSyscall`, `syscallLoop`, `dispatchAbi`, `memUpdateTicker`, `emit*` | the kernel by ptrace, wait4 and `/proc/PID/mem`; its user by channels |
| `server/server.go` | phase of `handleSession`, a reader goroutine, the socket | one session per WebSocket: set-up messages, then events out and messages in | the Runner's API, the client |
| `bridge/bridge.go` | none | decides an int 0x80 call: emulate, pass through, exit, fault | called by `syscallLoop` |
| `proto/proto.go` | none | message types and JSON | everything on the wire |
| `stub/_stub.s`, `cmd/`, `runner/perf.go` | static guest regions; flags; a perf counter | start-up | - |

Hard behaviours: three goroutines and a running guest share one child process; `Close` and
`Pause` come from any goroutine at any point; every ptrace call may fail because the child
was just killed; two goroutines send on one unbuffered channel that one of them closes; a
guest may spin without ever stopping; the client may vanish; signals of the guest, of the
tracer and of the kernel are told apart only by the stop they come with.

Correct when, whatever the guest, the user and the client do: a session that ran ends with
exactly one terminal event, the last; nothing is sent on a closed channel and no closed file
read; syscall entries and exits are never confused; a `Paused` carries a state a peer can
resume; the consumer's last frame is the guest's last memory; `Close` and `Pause` always get
through; no native guest outlives its WebSocket session, and no session its goroutines.

### movie86 (Rust, wasm)

| Part | State | Operations |
|---|---|---|
| `core/cpu.rs`, `decode.rs`, `insn.rs` | registers, flags | fetch, decode, execute a mov-centred subset of i386 |
| `core/mem.rs`, `elf.rs`, `context.rs` | regions of memory; an ELF image; a migration context | load, store, map; load an image; save and restore |
| `core/abi_host.rs`, `bios_host.rs`, `libc_host.rs`, `syscall.rs` | input queue, mapped ranges, signal table | the mov-only ABI, int 0x10, libc calls, int 0x80 |
| `cli/` | - | run, diff, trace, gdb stub, hand a guest over to turbo86 (`handover.rs`, `turbo86_wire.rs`) |
| `wasm/` | VM handle, run loop | step in slices, snapshot, hand over |

Hard behaviours: both sides of a migration keep their own idea of signal handlers, mapped
ranges and input; a snapshot is sparse, so what is absent from it must mean the same to the
sender and the receiver; the mov-only ABI is implemented twice, in Rust and in Go.

Correct when a guest that moves between movie86 and turbo86 sees the same memory, signals and
ABI results in both.

### explorer (TypeScript)

| Part | State | Operations | Talks to |
|---|---|---|---|
| `useMovie86Vm.ts`, `runloop.mjs` | mounted `vm`, `running`, `runIdRef` | `loadElf`, `run`, `step`, `stop` | the wasm Vm |
| `useTurbo86Session.ts` | `wsRef`, `vmRef`, `running`, `pausedResolverRef` | `forward`, `reverse`, `stop`, and the socket's open, message and close listeners | the turbo86 server |
| `useExecBackend.ts`, `backend.mjs` | selected back end | `selectBackend`, `run`, `stop` | both hooks |
| `Movie86Panel.tsx`, `BackendSelector.tsx` | - | which buttons are there, and what each calls | the user |

Hard behaviours: callbacks of an old socket arrive when a newer one is in place; a run loop
sleeps through a `stop`, a `loadElf` and a new `run`; `loadElf`, `forward` and `reverse` use
after an await what they read before it; the `Paused` a reverse waits for may never come; the
native Vm memory is freed by hand.

Correct when the Run/Stop button tells the truth, no local loop is started beside a guest that
was not told to stop, a freed Vm is never used, a handover always comes to an end, and a state goes back only into
the program it came from.

### llvm-mov (C++)

| Part | State of what it generates | Operations |
|---|---|---|
| `tools/llvm-mov-llc/main.cpp` | the bodies of runtime helpers, in IR | division, float arithmetic of both widths, comparisons, conversions, rounding; rewrites of selects, minima and reductions |
| `llvm/MovISelLowering.cpp` | the selection DAG | narrow loads and stores, SETCC, SELECT; calls, arguments, returns, varargs |
| `llvm/MovFrameLowering.cpp` | the stack frame | the scan that reserves scratch slots, prologue, epilogue |
| `llvm/MovOnlyLegalize.cpp` | chains of movs, scratch slots, global cells | one rewrite per opcode; calls, returns and jumps |
| `llvm/MovAsmPrinter.cpp` | tables in `.rodata`, cells in `.bss` | printing; the tables' contents |

Hard behaviours: an instruction becomes up to hundreds of movs, which need registers that the
program uses and slots that another pass has to have reserved; the slots hold what the last
chain left in them; both arms of every select are evaluated; an access touches more bytes
than the program's did, while the scheduler reorders what it thinks is unrelated; float
results must be right to the last bit, from 32-bit halves.

Correct when, for every program: no instruction but `mov` is left; each chain does exactly
what its instruction did, on everything the program may look at next; each helper returns what
IEEE 754 or integer arithmetic says; narrow accesses keep the program's order.

### movfuscator-wasm, simd

`movfuscator-wasm` and `llvm-mov/wasm` wrap compilers for the browser; `simd` is a slide-deck
program.

## 2. Modules

| Module | Models | Status |
|---|---|---|
| `EventStream` | abstract: what the user of a Runner is promised of its events | done |
| `Turbo86Runner` | `runner.go`: tracer, ticker, child, kernel, user of the API | done |
| `Turbo86Session` | `server.go`: both goroutines of a session and the client, around a Runner (EXTENDS `Turbo86Runner`) | done |
| `ExplorerExec` | the explorer's three hooks, the selection rules, the buttons, and what a turbo86 session shows of itself | done |
| `MachineWord` | LLVM IR's operations on words of any width | done |
| `SoftFloat`, `FloatConvert` | the float helpers of `main.cpp`: arithmetic and comparisons; conversions and rounding (EXTENDS `MachineWord`) | done |
| `FloatReference` | abstract: what IEEE 754 asks of them, on exact integers | done |
| `DivRem` | `__udivsi3`, `__umodsi3`, `__divsi3`, `__modsi3`, one loop pass a step | done |
| `MovISel` | SETCC, SELECT and the driver's rewrites into straight-line arithmetic | done |
| `NarrowMemory` | narrow loads and stores and the order a scheduler may run them in | done |
| `RuntimeCalls` | a compiled program: calls to the helpers, operations expanded in line, blocks of narrow accesses (EXTENDS the five above) | done |
| `MovTables`, `MovFrame`, `MovLegalize` | the look-up tables; the scan for scratch slots and what each rewrite requires; the chain of movs for each opcode | done |
| `MovMachine` | a machine that has only mov, running those chains | done |
| `X86Machine` | abstract: what the replaced instructions mean, one step each, on sets of bits | done |
| `Turbo86Proofs`, `ExplorerExecProofs`, `MovISelProofs`, `NarrowMemoryProofs`, `SoftFloatProofs`, `RuntimeCallsProofs`, `MovMachineProofs`, `MovExactProofs` | theorems | done |
| `Turbo86Signals` | the signal policy in `syscallLoop` (host and trap mode), `r.handlers`, `signalRegs`, the masks, `rt_sigreturn` | planned, 1st |
| `GuestMemory` | `snapshotMemory`, `LoadContext` regions and reservations, `MemUpdate` mirrors: what a sparse snapshot leaves stale at the receiver | planned, 2nd |
| `AbiHost` | `dispatchAbi` and the input queue against `abi_host.rs` and `syscall.rs`: the same guest call gives the same answer | planned, 3rd |
| `ElfLoad` | the segment arithmetic of `LoadElf`, page rounding and the mappings it injects | planned, 4th |
| `Handover` | `ExplorerExec` composed with the CLI's hand-over and `GuestMemory` | planned, 5th |

Theorems planned: the signal policy never loses or doubles a handler frame; a mirror that
applied every frame equals the sender's memory on the pages it was sent; the abstraction of a
server session in `ExplorerExec` implemented by `Turbo86Session`; shifts, comparisons and
transfers of control in the manner of `MovExactProofs`.

### How Turbo86Runner corresponds to the code

`tracer` is the program counter of the tracer goroutine (`boot`, `await` and `setup` in
`tracerLoop`; `inject` and `injectExit` in `injectSyscall`; `resume`, `wait` and `stop` in
`syscallLoop`; `join`, `flush` and `send` in `emitFault`, `emitExit`, `emitPaused` and every
other send on `eventsCh`; `defer` ... `gone` in the deferred function). A step ends where the
goroutine can block, and where another goroutine or the kernel may change what it reads next.
`pending` is `syscallPending.expectingExit`, `heldSnapshot` the snapshot held across a
forwarded signal, `inSyscall` and `why` what the kernel knows. Every `if err != nil` of a
ptrace call is an alternative of its step that ends in `EmitFault`. Guest memory is a version
number raised by every guest store, so that a property can tell an old frame from the last.
The guest is an environment that may do any act of the constant `Acts` at any time: int 0x80
calls by what the bridge makes of them, faulting stores into the ABI page by what
`dispatchAbi` does with them, and signals by how `syscallLoop` treats them.

`Turbo86Session` conjoins these actions with the server's: `main` and `reader` are the two
goroutines of `handleSession`, `inbox` what the client has sent, `told` the last terminal event
written to it. Closing the socket is what makes a blocked `ws.Read` return.

### How ExplorerExec corresponds to the code

A step is one task of the browser's event loop with its microtasks: a click, a WebSocket
event, a timer, a resolved promise. So an `async` function is one action up to its first real
await and another after it: `LoadElf` and `LoadDone`/`LoadRejected`; `Forward` (`Connect`) and
`SocketOpens`; `Reverse` and `Land`. `loop` is the loop whose run id is the latest and
`stale` those that sleep with an older one. The memory and registers of a Vm are the program
they are a state of. The server is cut down to `setup`, `running`, `pausing`, `dying`,
`ended`: it takes one load, sends frames, then one terminal event, and closes. A terminal
`killed` is the `Paused` with zero registers and no regions that `syscallLoop` sends for a
killed guest.

### How the modules of llvm-mov correspond to the code

A helper's body is straight-line IR, so it is an operator of its operands, the IR's SSA values
its LET definitions, with one name for one value where the code has one. `f` is the format:
the code has a body per width, and the modules share one operator where the two bodies
compute alike and keep two where they differ (the f64 bodies work on halves: `LshrPair`,
`MulPair` and their kin). Division has a loop, so `DivRem` is a state machine with the basic
blocks as `pc`; DivSf3's loop of fixed length is a recursive function, as nothing can come
between its passes.

`RuntimeCalls` runs one of four things a compiled program does: a division step by step, a
float helper in one step (`FloatReturn`), an operation the compiler expanded (`Compute`), or a
block of memory accesses (`RunBlock`). None of them calls another one that is stepped, so
that a behaviour is one of them and `Init` chooses which.

`NarrowMemory` is a scheduler's view. An instruction of a block touches `Writes` or the word
at `Base`, but is declared to touch `Declared`, which for the word of a narrow load is
anything (an empty `MachinePointerInfo`, line 728 of `MovISelLowering.cpp`). Two instructions
are ordered (`Before`) only where the code chains them or their declarations may meet; every
order that respects this is a behaviour. `Poison` in `MovISel` is LLVM's: it spreads through
`and` and `or`, and `freeze` turns it into some value.

`MovLegalize` has an operator per function of `MovOnlyLegalize.cpp` that emits movs; its value
is the sequence emitted. `MovFrame` has the two halves that have to agree: what the scan
reserves (`Slots`) and what each rewrite resolves before it starts (`Required`). In
`MovMachine` a step is one mov on bytes of registers and slots; `insn` is the instruction
whose chain runs, and `arch` what the program could see after the last complete one.
`ImplementsX86` is a refinement: under `regs <- arch.regs`, `stack <- arch.stack` the machine
implements `X86Machine`, each chain one step of it. A call stands with what precedes it: the
reservation of its arguments, the movs in between, and the call, which `Folds` says when to join. A
first call that reserves nothing may be joined with the prologue's own subtraction; that is a call
whose size is that of the frame. `X86Machine` computes carries and borrows
as reachability among sets of bits, so that it shares nothing with the byte-wise chains.

## 3. Runs

| Run | Shows |
|---|---|
| `runner_safety` | every act and both modes, `Pause` and `Close` at any moment: types; nothing used after it was closed; entries and exits agree with the kernel; a session that ran is told its end; a `Paused` carries the memory of its stop; `Close` and `Pause` get through, with a guest that spins |
| `runner_frames` | for guests that leave through the ABI page: the Runner implements `EventStream`; the last frame is the last memory |
| `runner_late_frame` | *finding*: an exit by int 0x80 is followed by a frame |
| `session_safety` | any messages, a client that may leave: no guest outlives its handler; a client that stays is told the end |
| `session_live` | with a client that stays, either goroutine's end ends the other; no deadlock |
| `session_leave` | *finding*: with a client that leaves, the session may hang for ever |
| `explorer_safety` | any clicks and socket events: button and loop agree; a live loop's Vm is not freed; while a local loop may step, every guest on every socket has been told to end, unless the user clicked during a handover |
| `explorer_live` | a reverse ends; the page does not show a dead guest for ever |
| `explorer_freed` | *finding*: a rejected ELF leaves a freed Vm mounted |
| `explorer_orphan` | *finding*: the close of one socket hides the guest of another |
| `runtime_calls` | every helper against IEEE 754 and integer division; every expanded comparison, select, minimum and reduction against arithmetic; every block of three narrow accesses, in every order, against the program's order; a division returns |
| `mov_chains` | every opcode's chain in the smallest frame the scan lays out for it: it has its slots, stays inside its tables and its stack, and is a step of `X86Machine` |

### Bounds

- `MaxMem` (2 or 3; 1 where no property is about memory): versions of guest memory. Two
  versions tell a stale snapshot from the current one; three also let a frame be stale twice
  (periodic frame, later store, final frame).
- `MaxInjects` = 1: injected mmap2 calls of the set-up. The next injection starts in the state
  the last one leaves, and a guest with `abiMmap` makes more.
- `MaxInbox` = 1: messages under way from the client. The server reads one at a time; a client
  that wants to send a second waits, and nothing of the server's depends on how many wait.
- `Acts`: `runner_safety` takes all. `runner_frames` leaves out the two acts
  whose terminal event the bridge sends, the subject of `runner_late_frame`. The session runs
  take one guest of each way to stop (int 0x80, signal, ABI event, injected mmap), so that the
  product with server and client stays within a minute.
- `Modes`: both signal modes in the Runner's runs; one in the session's, which never looks at it.
- `MaxVms` = 2, `MaxSockets` = 2, `MaxLoads` = 2: an old and a new of each, which is what the
  stale-callback hazards need. `MaxQueue` = 1 message in one direction of a socket: a full
  queue disables the click or the frame until it is read. A terminal event does not wait.
- `explorer_live` uses one Vm and one load: its properties are about sockets and sessions, and
  two sockets are kept.
- Word widths in `runtime_calls`: a 14-bit i32 with a float of 6 exponent and 7 mantissa bits,
  a 28-bit i64 with a double of 9 and 18. They keep what the bodies rely on (assumption
  `FormatsFit`): a guarded mantissa fits its word, a product does not, the double's mantissa
  is wider than an i32. All i32 are converted; the i64 within 1 of a power of two; floats and
  doubles have exponents at 0, 1, the bias, the mantissa's and the integers' widths and the
  top, each with a neighbour, and mantissas at the ends, the middle and the ties.
- Division takes all pairs of 5-bit words and in-line operations all pairs (a select: all
  triples, with poison) of 5-bit words; reductions have 1 to 5 lanes, odd counts included.
- `NarrowMemory`: bytes of 2 bits, two words of memory, blocks of three accesses from 16,
  which overlap in whole, in part and across the word boundary. A wrong order needs two
  accesses, and a third to see it; a byte is wide enough for its two halves to differ.
- `mov_chains`: `MaxRetired` = 1 instruction a behaviour. A second would find the slots as a
  first left them, and the slots hold either of two patterns at the start, one of them with
  every byte's top bit or a set bit next to a clear one. Seven register files have bytes at
  carries, signs and zeros; ESP starts on a page boundary, so that a push borrows through
  three bytes, and EBP below one. Registers are chosen among EAX, ECX and EDX, which the
  chains use themselves; the others only differ from these in being left alone. Each function
  is the least that holds its opcode, since a larger one only reserves more.

### Deadlock

Checked everywhere but in `session_safety` and `session_leave`. There the client may leave, and
the hang of `session_leave` is a deadlock of the whole session: nothing can be done about it
within `Turbo86Session`, and the safety properties are wanted with it. A session that is over,
and a Runner that is gone, stutter (`Finished`). In `ExplorerExec` the user can always act
until the bounds are used up, and selecting a back end is always possible. In `runtime_calls` and
`mov_chains` a behaviour ends when the call, the block or the instruction does; that a chain does
not stop before is `MovOnly`, `TablesInBounds` and `StackInBounds`, and that a division does not,
`DivisionReturns`.

### Fairness

- Go: every runnable goroutine is scheduled (WF of the tracer's, the ticker's, the server's
  steps), and senders blocked on a channel are served in order, so a receive from the tracer
  is not overtaken for ever by the ticker's (SF in the session, where receiving alternates
  with writing).
- Kernel: it completes a system call (WF of `SyscallReturns`), and a SIGSTOP reaches a child that
  is resumed again and again (SF of `StopDelivered`, as the child may stop for other reasons in
  between).
- Browser: timers fire, a connection attempt opens or fails, received messages and a close are
  dispatched, `loadVm` settles. A server session reads what it is sent, and a guest that was
  asked to pause or killed ends: that is what `CloseCompletes` and `PauseEndsSession` show.
- Compiled code: the processor goes on executing a division (WF of `Divide`).
- Nobody else owes anything: the guest need not ever stop, the user need not click, the
  client need not send.

## 4. What is proved

For every value of the constants that satisfies the named assumptions (`Acts` among the known
acts, `Modes` non-empty, the bounds naturals, most of them positive). The bounds themselves stay in
the guards. For the movs: `Insns` are instructions with operands of their opcode
(`InsnsAssumption`), `Functions` have a second block if they have a compare or a jump
(`FunctionsAssumption`), registers and slots hold words. For the runtime: the formats of floats fit
their words as the code relies on and no integer is too large for a float (`FormatsFit`, which
32, 64, 8 and 11 bits satisfy), operands are words (`OperandsAssumption`), the bytes of a block's memory are bytes (`ContentsAssumption`). The backends know nothing of exponentiation, so
`LongPowers`, `ISelPowers` and `WordPowers` say that each power of two is twice the one before, up to
the width (or two bits above it): facts of arithmetic, which TLC evaluates for the widths of the runs.

**Turbo86Proofs.** Of the Runner, `TypeCorrect` is inductive on its own. `ClosesSafely` and `EndsTold`
rest on `AfterInv /\ JoinInv /\ EndInv`: where a send or an injection goes on; that the ticker is
started once, by the set-up, and joined before what it uses is closed; that the way out of the
loop is a terminal event. None of the three follows from the property itself, which only looks
at closed channels. `ParityKept` needs `RunsInv` (the child runs only while the tracer waits)
and `ParityInv`, which says at each place of the tracer what `pending` and `inSyscall` are, as
the property only speaks of stops. `PausedKept` needs `HeldInv`, that a held snapshot is as
old as the signal it is held for, and `PausedInv`, that a `Paused` on its way carries the memory
of now. `StreamImplemented` shows the step simulation of `EventStream` from `StreamInv`, under
`NoBridgeEnds`: the guest does not end by SYS_exit or by a call the bridge refuses. Without
that assumption it is false, which is `runner_late_frame`. `LastFrameKept` (under the same
assumption) adds `FrameInv`: unless Close interfered, the child is stopped from where the
tracer has it until the end, so that the final frame is the memory of now when it is taken and still
when the terminal event is sent and received.

Of a session, `SessionRunsRunner`: it is a behaviour of the Runner's Spec, so that
everything proved of the Runner holds in the server. `GuestDies` adds `CleanInv` (past its
clean-up the tracer leaves no child, file or ticker) and `ReturnInv` (the handler returns only when
`done` is closed). `ClientIsTold` adds `ToldInv`, what the client was told at each place of the main
goroutine. `SessionTyped` needs `WireTypes`: what the client has sent are messages of the
protocol, and the reader is at one of its places.

**ExplorerExecProofs.** `TypeCorrect` needs `LoadsFit` (a load in flight has a number left for its
Vm) and `Awaited` (a connecting socket has a forward waiting). `RunFlagKept` and `LoopKept` go
together (`LoopInv`): the loop of the latest run id is cancelled by whoever frees its Vm, and only
that loop's end resets the flag. `OneEngineKept` is about the guests themselves, not about the flags:
while a local loop may step, every guest on every socket, one whose load is still under way
included, is being killed or has a Stop on its way. It holds of a user who has not clicked while the
session was `Unsettled` (`hasty` is the history variable that records such a click): a forward
waiting for its socket, a reverse for its `Paused`, a socket being closed. With such a click it is false,
as in `explorer_orphan`, where two sockets are open and the flag is cleared for both. It
rests on `SocketInv` (a guest lives only behind an open socket, and a terminal event
on the wire means that its session is over) and on `EngineInv`: there is one socket at a time;
no forward waits for one while a local loop runs; `turboRunning` shows every guest that was not
told to end; and the two flags are not set together. What remains is that Stop does not wait for the
guest, so that one that was told to stop may run on beside a local loop for a while.

**MovISelProofs.** First the divisions of `DivRem`, for every width: the constant `Pow2` stands for the powers of two, and all that
is assumed of it is that each is twice the one before. The loop's invariant is the usual one of
long division, said with the bits not yet taken: the dividend's bits above `i` are `q` (also
above `i`) times `d` plus `r`, and `r < d`. It needs that the shifted-in `2 * r + bit` fits the
word, which holds since only as many bits as were taken can be set in `r`. `DivisionTyped`
and `DivisionRight` follow; signs are handled by cases at the end.

Then what is expanded in line (`MovISel`). `SetCCRight`: the straight-line code for each of the ten predicates of icmp is
1 exactly when the relation holds, also where the subtraction overflows. `InlineMeans` adds the
blend with a poison arm, min, max, abs, sext and the reductions. The code works on bits and its
meaning is about numbers, so the lemmas between relate them: words with the same bits are equal
(`SameBits`), a word exists for every set of bits (`WordExists`), so `And`, `Or` and `Xor` are
what their names say bit by bit (`BitwiseWords`); the top bit is the order (`SignBitIs`), flipping
it adds or takes half the range (`FlipTop`). A reduction folds neighbours in rounds, the last of an
odd number of lanes waiting: `ReduceFolds` shows that this is the fold from the left, as each of the
four operations is associative (`Fold2Facts`), and `FoldSums` and `FoldCounts` what that fold is, for
vectors of any length. These are inductions over lanes and over bits. A theorem of the library that
takes the induced formula as an operator cannot be used, so each takes the least counterexample
instead (`LeastNumber`, from the well-foundedness of the naturals).

**NarrowMemoryProofs.** `NarrowInOrder`, for every block, memory, byte width and schedule. The
invariant: what has been executed is closed under `Before` (`Closed`), every byte is what that
much of the program leaves (`MemoryInOrder`), every word read is what the program's order shows
(`LoadsInOrder`). `Closed` is what the property lacks: it rules out that a store runs after a
later one to the same byte. The step needs `StoreDeclared` and `LoadDeclared`, that the
declarations cover what is touched, the latter because memory is made of whole words. A load that
straddles words reads them from memory that is made of words, cuts its bytes out by shifts and joins
them; `Digits` and `FieldBytes` show that this is the number with these bytes as digits, `SignExtends`
what extending it gives, `RawSeen` that these bytes are the ones the program's order shows (`WordSeen`,
from `InOrder`).

**SoftFloatProofs.** Each body against `FloatReference`, for all widths and operands. A comparison
flips the bits below the sign of a negative operand and compares signed keys, those of a double by
halves; the keys are ordered as the numbers are (`FloatKey`, `DoubleKeyParts`, `Lexicographic`). The
rest is about bits cut out of numbers: the shifts of an i64 by its halves are shifts
(`LshrPairIs`, `ShlPairIs`), a word is its sign, exponent and mantissa (`FloatParts`), also one packed
from parts that do not fit (`PackIs`, `PackParts`). A conversion to an integer shifts the mantissa
by a clamped amount, which `TruncatedIs` and `SaturatedRight` compare with the number it stands
for: `FloatToInt32Right`, `ToInt64Right` and `DoubleToInt32Right`, the last of which joins two
halves. What is rounded to nearest goes through one lemma each for numbers that fit the mantissa and
for those that do not (`NearestExact`, `NearestRounds`): the reference rounds an exact quotient, the
code looks at a guard bit and a sticky bit below the leading one, and a mantissa that overflows is
halved and its exponent bumped. `Int32ToFloatRight`, `FromInt64Right`, `Int32ToDoubleRight` and
`TruncRight` bring the bodies into that form, by where the leading bit is and in which half;
`ExtendRight` is exact. The roundings to an integer never unpack: they add one unit to the word itself,
and `WholeIsNearest` shows that this is the next number even when the carry reaches the exponent.
A product is exact before it is rounded: four partial products of half words, whose middle sum
and low sum may each carry, are the product of the mantissas (`ProductSf3Is`, `MulPairIs`,
`ProductDf3Is`), and its leading bit is in one of two places (`MulFiniteRight`). The quotient's loop is a
recursive function of the passes made so far, and the prover has no induction for it. `PassesExist`
shows that such a function exists and `DivLoopIs` that every pass keeps quotient times divisor
plus remainder, each by taking the least pass at which it would fail and refuting it from the one
before (`DivStepIs`); the last remainder is the sticky bit (`DivFiniteRight`). A sum orders its operands
by magnitude and shifts the lesser mantissa down, where what is lost is one sticky bit
(`TermShifted`). The reference adds the signed lesser mantissa as a floor, three bits below the
greater's last, and says whether anything is left. `ExactSumIs` and `AlignedIs` bring both to the same
two numbers, also where the sum borrows from what is left and where the exponents are equal and
the operands change places; `NormalisedIs` follows the leading bit wherever the carry or
the cancellation left it, and `SumRounds` rounds. What remains, a normalised exponent that is
not positive, is where the reference is below the smallest normal number, which `AddRight` excludes
by `SumUnderflows` on the reference's side alone (`AddIsRight`). Trying to prove the
special cases showed a flaw in the model: `AddSpecial` and `MulSpecial` were CASE expressions whose arms
overlapped (a NaN with an infinity), which is any of them in TLA+ and the first in TLC; they
are now chains in the order of the code's selects.

**RuntimeCallsProofs.** A compiled program does one thing after another, so each invariant says what it
is doing: `CallInv` (the operands are those of the operation, and what was returned is what it
returns for them), `DividesInv` and `BlockInv` (the division's and the block's own invariants while
there is one). `DivisionsRight` and `BlocksInOrder` carry the theorems of the parts over.
`ComparesRight`, `ToIntsRight`, `FromIntsRight`, `WidthsRight`, `FRoundsRight`, `AddsRight`,
`MultipliesRight` and `DividesRight` say of a call what
`SoftFloatProofs` says of the body, `LoadsAreRight` of a block what `NarrowMemoryProofs` says of an
access, `InlinesRight` is `InlineMeans` in a running program. `ShiftsInRange`: wherever a
body shifts an i32 by an amount it computed, the amount is below the width, in the arms that are
discarded too, for every operand but the 0 of i32 to f32, for which it is not (section 5). It follows
from the ranges of the exponents and of the leading bit, that of a sum from `AlignedInt`, the
exception from `ZeroOutOfRange`. The other bodies shift by
constants or by `LshrPair` and `ShlPair`, whose `Clamp31` bounds every amount. `RuntimeTyped`
says that what is returned is a word of the type it has. Where the results are known to be right, it follows
from the reference (`NearestWord`: rounding up may carry into the exponent and out of the largest
number, but not out of the word; `ToIntTyped`, `FromIntTyped`, `RoundTyped`). Sums, products and quotients
go through the code itself (`AddTyped`, `MulTyped`, `DivTyped`), as a sum that underflows is packed
from an exponent that does not fit, and is a word all the same.

**MovMachineProofs.** First the scan and the rewrites. `ScanServesRewrites`: for every function, whatever
its mix of opcodes, a rewrite finds its slots, as the union over the opcodes contains each one's.
`ScanServesPrologue`: so does the prologue's subtraction in a function that returns.
`NoReturnKeepsSub` is the converse: a function that neither returns nor contains a scanned opcode but
has two blocks keeps a `sub`. Then what TLC shows of chosen instructions, for all: any immediate, any
registers, any contents of the slots, any function. `TablesKept` is about what a chain has left in
ECX some movs before a look-up, so it needs to be known what memory may be at every place of every
chain. `Triple(D, c, P, Q)` says that chain `c` has such an annotation, from P to Q; the lemmas up to
`ChainFree` annotate the chains as `MovLegalize` builds them, bottom up: the movs, the byte stages,
the loops over four bytes, the spills around them, the rewrite of each opcode. Between two stages of
an addition the annotation says that CL is 0 or 1, and while an index is packed that its third
byte is 0 or 1 and its fourth 0: these are all the facts that the bounds of the tables rest on. The
carry byte is what a look-up returned, so the contents of the tables matter too (`CarryByte`,
`TableBytes`). `MachineInv` adds to the types that memory is in the set of the place the chain has
reached (`ChainReached`), and that a chain is entered only from a free state. `MachineTyped` and
`TablesKept` follow. `MovOnlyKept` joins this to the scan: `ScanServesRewrites` for the opcodes of the
function; the prologue's subtraction and a call's need `Served`, which the code does not guarantee
(`NoReturnKeepsSub`) and every function that returns and has a frame of less than a page does.

**MovExactProofs.** What the chains compute, for the instructions `Arithmetic` names: sums,
differences and bitwise operations of registers and of 32-bit constants, and the addresses of LEA.
`ArithmeticExact`: when such an instruction retires, the registers and the stack are what
`X86Machine` makes of them in one step, in any program, whatever the other instructions did and
the slots held. `ArithmeticImplemented`: a program of such instructions alone (prologues
included) implements `X86Machine`, which is `ImplementsX86`. The argument has three parts. A chain without
stores leads from a memory to one other (`Runs`), worked out stage by stage (`StageRuns`, `BitStageRuns`) as
`MovMachineProofs` worked out its annotations, but with the bytes: what a stage leaves in CL is
the carry of the bytes below. The four bytes are then compared with the carries of
`X86Machine`, a predicate on sets of bits (`Reaches`): eight full adders make a look-up
(`EightAdders`, `AddTableBits`, `SubTableBits`), and the carry out of one byte is the one into the next
(`Ripples`), so that `PlusWord` and `MinusWord` hold for all words; `CombineWords` is their bitwise
counterpart and `BitsOfImm` the constant's. Last, the machine: the property compares two states that are
a whole chain apart, and `ArithmeticInv` says what is true between them, that memory is on
its way (`LeadsInto`) to the result for the registers as `X86Machine` still sees them, and that the
stack is as it sees it.

Only model-checked: liveness, which is beyond the prover; what the chains of shifts, bit counts and scans,
products, comparisons, pushes, calls and returns compute (the rest of `ImplementsX86`); that
they find the stack (`StackInBounds`), which is about the addresses of the whole run; the violations.

## 5. Findings

1. `session_leave`: when a write to the client fails, the main goroutine waits in the deferred
   `Close` for the tracer, and the tracer for someone to receive its terminal event. Both
   goroutines stay, and the dead guest is not reaped.
2. `runner_late_frame`: the bridge's Exit and Fault are sent without stopping the ticker, so a
   frame may follow them. The path sends no final frame of its own either.
3. `explorer_freed`: `loadElf` frees the mounted Vm and leaves it mounted; after a rejected ELF
   every use throws, the next `loadElf` included.
4. `explorer_orphan`: `ensureOpen` makes another socket when one is still connecting, and any
   socket's close event tears down the session of the other, whose guest goes on unseen.

Seen while modelling and present in the models, without a run of their own: a `Pause` that
arrives during an injected mmap2 ends the session in a Fault; the `Paused` of a killed guest is
loaded as a state of zero registers; a frame that arrives after Stop is written into a Vm that
the local loop may run (below the model's grain); a load sent on the socket of an ended session
is lost; loading an ELF does not end the turbo86 session of the one before, whose state a later
switch back puts into the new Vm; Stop clears `turboRunning` at once, so that Run on movie86 may start a
loop while the guest has not read its Stop yet (`ToldToEnd` in `OneEngine`).

In llvm-mov, without a run of their own:

- A function that never returns and has two blocks but no opcode of the scan keeps the `sub esp`
  of its prologue, as nothing but RET reserves the slots for it (theorem `NoReturnKeepsSub`). The
  comment at `MovFrameLowering.cpp:165` says "Every function has at least one RET". The
  functions of `mov_chains` all return or compute, so that `MovOnly` holds there.
- A sum of floats whose exact value is below the smallest normal number: `main.cpp:296` says it
  is flushed to zero, and line 441 speaks of a check for exponents below 1, which the code
  does not make; `AddRight` leaves such sums out. Products and quotients are checked there too.
- For the operand 0, `emitInt32ToFloatBody` counts 32 leading zeros, so that the leading bit is at
  -1, which the unsigned test of line 1355 of `main.cpp` takes for one above 23; lines 1375
  to 1386 then shift by -24 and -25. The comment at lines 1367 to 1372 says that these amounts
  are kept in range, because the bit-blend that a select becomes needs both arms well-defined,
  and that the leading bit is 0 to 31 (line 1353). `ShiftsDefined`, which `runtime_calls` checks and
  `ShiftsInRange` proves for every width, says that the amounts of this body are in range for
  every operand but 0, and are not for 0. The last select discards the result, so that what the
  model returns is 0; what an undefined shift may do to the blend is not modelled.

Limits the source states itself, and the models keep: a frame whose slots are more than 4000
bytes below EBP keeps its `sub` (`PrologueInBudget`); an i32 select with a poison arm is not
frozen; the global cells assume that no signal handler of the guest runs compiled code.

## 6. What is not modelled

- Of the Runner: register contents, the signal handlers and the frames they get
  (`Turbo86Signals` will), addresses and region layout, input bytes, the perf counter. A signal is
  forwarded, fatal, or ends the session, as the code decides from its mode and number; which
  of a number's handlers runs is left out.
- Of the server: marshalling, logging, the HTTP upgrade, the bytes of code and of key presses.
- Of the explorer: status texts, console output, the follow and delay controls, the address and
  mode fields, rendering, and `disconnect()`, which no component calls.
- movie86, its CLI and wasm wrapper: planned above. The gdb stub, the diffing tools and trace
  formatting are out of the plan, being output only.
- Of llvm-mov: which helpers a module needs (`moduleNeeds*`) and the driver around them; the
  lowering of calls, arguments, returns, varargs and branches in `MovISelLowering.cpp`; block
  splitting, renumbering and live-in lists in `MovOnlyLegalize.cpp`; pattern selection and target
  registration, which are tables for LLVM. Saturating conversions to narrower integers are
  LLVM's. The STORE8 pseudo is a byte store.
- `movfuscator-wasm`, `simd`, the stub and build files: sequential or generated.
