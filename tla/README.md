# A verification of thm

thm is a small machine: an assembler, a ROM and a virtual machine with a
processor, a bus, an interrupt controller, a timer, a keyboard and a window. This
directory holds TLA+ models of the virtual machine and of its assembler, the TLC
configurations that check them and the TLAPS proofs about them. Paths below are relative to the
repository.

## The system

`src/vm` is the machine, in C, with five threads: the main thread (`vm_start`,
and the window in `video_loop`), the CPU's (`cpu_thread_run`), the keyboard's
(`keyboard_thread_run`), the timer's (`timer_loop`) and the video's
(`video_thread_run`). They share memory with hardly any lock.

| component | state | operations | interacts by |
|---|---|---|---|
| interrupt controller `pic.c` | words of active bits, words of mask bits, a condition variable | trigger, reset, mask, unmask, active, get | called by the CPU, the timer, the main thread; its mask is a zone of the bus |
| bus, memories `bus.c`, `memory.c` | sorted array of zones with notifications; words, size, mode | attach, read, write, register, mode | the CPU reads and writes; a write signals the threads registered for its address |
| processor `cpu.c`, `ops.c` | registers, flags, panic, running, trap | one iteration: interrupt, fetch, decode, execute | bus, controller, debugger |
| dispatcher `common/rom.a` | none but r0 and the stack | entered at `ROM_ADDRESS + 8` for every interrupt | calls the handler of the descriptor table |
| life cycle `vm.c` | which threads run, what is freed | create, start, join, destroy | all components |
| timer `pit.c` | running | start, loop, stop | triggers `INT_TIMER` |
| keyboard `keyboard.c` | running, one output register | start, key callbacks, stop | triggers `INT_KEYBOARD`; woken by its register |
| video `video.c` | window, enabled, current buffer, flags | loop, stop, thread | triggers `INT_VSYNC`; woken by its metadata word |
| debugger `debugger.c`, `debugger_lexer.c` | the previous line, a lexer | read a line, continue, step, quit, print, dump | its answer becomes `running`; a dump reads the bus |
| start-up `main.c`, `opts.c` | options | parse, load the image and the ROM, set registers, report | writes through the bus; starts the CPU; aborts on a panic it cannot name |
| assembler `src/asm` | a list of nodes, label addresses | lex, parse, check, resolve, emit | produces images |
| table generator `bin/thi` | next opcode | number the instructions | produces the opcode table of both sides |

What is hard in it, and what makes each component correct:

- *Controller.* Three threads update shared words with `|=` and `&= ~`. A trigger
  must be delivered once, in the order of the numbers, and only if it is not
  masked. `WFI` must not sleep through an interrupt.
- *Bus.* Zones are attached in an order that is not that of their addresses, move
  when others come, and their limits are computed in wrapping arithmetic up to the
  last address. It must behave as one flat memory, wake those that registered,
  and never reach its `abort()`.
- *Processor.* An instruction makes several accesses, any of which may be refused.
  A refused access must stop the program; pushes and pops, calls and returns must
  undo each other wherever the stack pointer is.
- *Dispatcher.* Interrupts nest, the interrupt number register is overwritten, and
  the dispatcher works on the program's registers and stack. None of it may show.
- *Life cycle.* Threads are stopped by flags and single signals. Nothing may be
  used after it is freed, one side must follow the other's stop in the master and
  slave modes, and the process must end.
- *Video and keyboard.* One word each, written by one thread and read by another,
  announced by a signal or an interrupt. The screen must show the buffer the word
  names, and a key the program has not read must still be announced.
- *Debugger.* A line is copied into a buffer that is kept, and back when an empty
  line repeats it; the lexer looks ahead without a way back.
- *Start-up.* The command line, two files and the reset all write the machine before
  it runs. It must start as it was asked to, and the report must come at the end.
- *Assembler.* The parser tries the alternatives of a mnemonic one after the other
  on the same tokens. The resolver and the emitter count addresses separately, the
  checker and the emitter know the registers separately, and the opcodes and
  lengths are generated from a table: what is emitted must be what the processor
  will fetch.

`PROJECT.json` lists the hazards one by one, with the line and the properties.

## The modules

`Interrupts` — the controller, the interrupt half of the CPU loop and the threads
that trigger. A word of bits is the set of the interrupts whose bit is 1. Every
read-modify-write of `active_interrupts` is two steps (`TriggerLoad`,
`TriggerStore`; `ResetLoad`, `ResetStore`; `op_int`, `IntStore`), and the scans of
`pic_interrupt_active` and `pic_interrupt_get` take one step per word and per
interrupt. The condition variable wakes a waiter or is lost; a waiter may wake by
itself. The program is arbitrary. `PendingSet` is what a controller promises:
raising is atomic, delivery takes the lowest pending line that is not masked. The
history variables are `owed` (triggered and not reset) and `missed`.

`Bus` — `bus.c` and `memory.c`: attachment with its insertion, the search of a
zone, translation, the errors of each memory, notifications, `abort()`. Addresses
wrap at `Space`. `FlatMemory` is one flat array of words: what was last written to
an address is what it reads, and mapping or protecting changes nothing else.

`Cpu` — the loop, the reset and all instructions. Each instruction is an operator
from the machine before to the machine after, with its accesses in the order of
the code, because an early return keeps what was done before it (an immediate
fetched, a stack pointer moved). Words have `Width` bits and wrap. The bus is two
sets of addresses, readable and writable. `Code` says which instructions a word
may encode, so that a small word stands for many. A trap ends in a thread
state that `Debug` leaves with an answer; whose it is, module `Debugger` says. The field `fault` records that an access was
refused; the program has no such variable, and it is what makes the properties
about panics more than a restatement of the panic.

`Dispatch` — the instructions of `rom.a` for the memory of `Cpu`, with a table that
encodes each instruction in one word. `frames` is a history variable with the
program's registers and stack at each interrupt being served. It has no initial
state of its own: the machine it runs on is the one `Startup` loads.

`Debugger` — the prompt and the lexer. A line is the sequence of its characters and a
token its type, its place and its value; `lexer_next`, `read_number` and `number`
follow the lexer. `previous` is `previous_line` with the length that is kept and the
bytes that are allocated, since what `getline` allocates is not what the line needs.
A trap is answered by `Resumes` with the rest of `Cpu!Debug`, by `Answers` when it
prompts again, or by the end of the input. Where the code reads memory that nothing
has written, the outcome is left open: a word may come out as an unknown command,
and a message about a token without a string prints something or crashes.

`Startup` — the whole program: the machine as `vm_create` leaves it, a command line,
`parse_register_values`, `load_file` for the image and for the ROM while it is
writable, the registers in the order of `main`, then the steps of `Dispatch` and `Debugger`, then the report, which
aborts at a panic it has no name for. A new memory is not all zero (`initial_word`):
`pic_create` masks the interrupts of the devices (`pic.c:58-60`), `video_create` sets
its bit (`video.c:201`), and the last word of a memory whose size is no multiple of the
word is never initialised (`memory.c:36`): it holds any of `Garbage`.

`Vm` — the five threads from `vm_start` to the end of `vm_destroy`: one step for
each flag, signal, join and free. The window library is external: opening fails or
succeeds, the user may close the window, and a closed window ends the next frame.
The CPU's program halts or not, and may execute `WFI`, whose `pthread_cond_wait` is
woken by the signal of `pic_interrupt_trigger` or not at all: `op_wfi` goes to its
wait in a step of its own, so that a signal may come before it. Under a breakpoint,
which the program may set at any time (`op_xbrk`), the loop stands at the prompt of the
debugger that `main` always attaches (`CpuTraps`) until the user answers, if he ever
does. His answer is stored in `running` over what came meanwhile (`cpu.c:74`,
`cpu_debugger_trap_handler`), and the instruction is then executed, whatever the answer
(`executes`).

`Devices` — the registers of the video and of the keyboard on the threads of `Vm`.
Each action is one of `Vm` with what it does to the registers (`Wakes` notes that the
video's thread was signalled), or a step between two of them: the thread reads the
metadata word once before its loop (`VideoReads`) and after each wait
(`VideoFollows`); the window's callback writes the key's word, then triggers; the
CPU takes the interrupt, then reads the word. `ControllerRace` is what `Interrupts`
shows another thread's update of the controller's word may do. `missed` and `owed` are
history variables.

`Instructions` — the table `instructions.thi` and what `bin/thi` makes of it: the
opcodes, the lengths and the processor's array of functions, with what the
processor takes from an image at an address. `Assembler` — `main.rs` over a
sequence of files, the parser one token or statement at a time, the resolver, the
checker, the emitter. A token is its kind and its value. A pattern is the sequence
of kinds a `parse_*` function peeks at before it reads; `parse_op` folds the
alternatives over what is left, as the code does. Where the code unwraps what is
not there the program ends as `panicked`. A word of the image is its four bytes
for an instruction and one value for an immediate.

| module | extends | checked by |
|---|---|---|
| `PendingSet`, `Interrupts`, `InterruptsProof` | `Interrupts` instantiates `PendingSet` | `MCInterrupts` |
| `FlatMemory`, `Bus`, `BusProof` | `Bus` instantiates `FlatMemory` | `MCBus` |
| `Cpu`, `CpuProof` | | `MCCpu` |
| `Dispatch`, `Debugger`, `Startup`, `DebuggerProof`, `StartupProof` | `Dispatch` and `Debugger` extend `Cpu`; `Startup` extends both | `MCSession` |
| `Vm`, `Devices`, `DevicesProof` | `Devices` extends `Vm` | `MCVm` |
| `Instructions`, `Assembler`, `AssemblerProof` | `Assembler` extends `Instructions` | `MCAssembler` |
| `FoldProof` | lemmas for the other proofs | |

`Cpu` takes its interrupts as any line at any loop top that accepts one, which
contains what `Interrupts` delivers, and its bus as an address that is refused or
not, which is what `Bus` answers. `Devices` is shown to implement `Vm`
(`DevicesImplementVm`), so that what holds of the threads alone holds with the
registers. The definitions named `slip_*` are what a slip in
a line of the code would compute instead; no action uses them, and each is what a
property is shown to catch.

## The runs

| run | configuration | shows |
|---|---|---|
| `interrupts` | `MCInterrupts.cfg` | `PrivateExact`, `AnswerJustified`, and that the private interrupts are a `PendingSet`, under any interleaving |
| `bus` | `MCBus.cfg` | `IsFlatMemory`, `AllNotified`, `ZonesSorted`, `NoAbort` for every order of operations |
| `cpu` | `MCCpu.cfg` | `FaultPanics`, `StackRoundTrips`, `CallReturns`, `PrintingInvisible` for arbitrary programs, with breakpoints |
| `session` | `MCSession.cfg` | from the command line to the end: `StartsAsAsked`, `ParsesAsDocumented`, `RightHandler` and `Transparent` with nested interrupts, `RepeatIsWhole` and `LexesExactly` at the prompt, `AbortsAtBadWord`; the programs keep to `Disciplined`, which the proofs of `RightHandler` and `Transparent` assume |
| `vm` | `MCVm.cfg` | who may use freed memory, that `WFI` resumes, which side follows, also when the debugger asks, how shutdown ends; which buffer is shown and which key is announced |
| `assembler` | `MCAssembler.cfg` | `OneLineEach`, `LabelsExact`, `FetchesAll`, `OnlyKnownPanics` for programs of two files |
| `lost_trigger` | `MCLostTrigger.cfg` | an interrupt the test suite expects is lost |
| `wfi_doc` | `MCWfiDoc.cfg` | `WFI` sleeps through an interrupt |
| `push_stores` | `MCPushStoresBoth.cfg` | a `PUSH` of two registers that stores one goes on |
| `continue` | `MCContinueRunsOn.cfg` | the debugger's continue stops the machine |
| `test_exits` | `MCVmTests.cfg` | a halted machine may never exit |
| `registers` | `MCRegisters.cfg` | with 255 registers the program does not start at `--pc` |

The last six are expected to find a violation: each states what a test, a script
or a document of the repository says, and the counterexample is what the code does.

Bounds, and why they are enough:

- `interrupts`: two words of two interrupts, one word the devices share and one
  they do not. A scan over words and over interrupts, two private lines for the
  priority, and two devices racing on one word all occur. `Vsync` and `Keyboard`
  share a number because the same thread raises both.
- `bus`: ten bytes of two-byte words; a memory at 0, one right above it whose size
  is odd, a gap, and a read-only one that ends at the last address. Every adjacency
  and both ends of the address space occur. Any memory is attached at any time and
  tried again, which is more than `vm_create` does. A dump (`MCBus!MCDumps`) crosses
  memories and the gap, starts in the middle of a word, ends before the last word or
  with it, or asks for no word at address 0; the last two never end.
- `cpu`: two-bit words, so that the stack pointer reaches a RAM word, a ROM word
  and a hole, and wraps. Every word may encode any instruction of `MCCpu!Program`,
  which holds each operation and each of its register operands, valid and not.
  A breakpoint is among them, and the debugger may give any of its answers to it.
  The tracing of `--print-steps` is in `session`, so that `XPSE` and `XPSD`, which only
  switch it, are left out; what it may change, `PrintingInvisible`, is tried from every
  state here.
- `session`: six-bit words hold the ROM, the table, two handlers, a loop, a
  stack of nine words, the two words that `vm_create` sets and one that nothing
  initialises, the last of the RAM, which starts with either of two values. A served interrupt takes up to four words of it, so that
  nesting reaches depth two and then exhausts the stack. One handler enables
  interrupts, one saves what it uses, and one image starts in the debugger. The
  eleven command lines hold each way to start and to fail: help, no image, a missing file,
  files that are too long for the RAM and for the ROM, a word that is no instruction, a
  ROM that goes on over the stack and the image, and an image that reaches the last word
  of the RAM.
  The prompt's lines need buffers of one chunk, of two and of more, in every order,
  and name commands with and without arguments. `LexesExactly` is evaluated on all
  lines of up to four characters out of eight, among them `0x1`, `0x` and `x0`, and
  `ParsesAsDocumented` on all lists of up to six out of five, among them two items,
  a missing number and a register the machine has not.
- `vm`: no bound; the three modes, both buffers, any number of keys, breakpoints and
  answers.
- `continue` and `registers`: the machine of `session`, the latter with 255 registers.
- `assembler`: every choice of two lines for a first file and one for a second,
  which may lack its end of line, among the 34 of `MCAssembler!Lines`: one for each
  kind of operands and each error. A jump forward and back, into the other file,
  before and after a `#base`, a variable defined and not, a label twice and missing
  all occur. Any two lines next to each other and a label on either side of an
  instruction of each length are what the properties tell apart; a longer program
  adds more of the same.

Deadlock is not checked where the machine really stops: a processor that has left
its loop, a process that has exited or hangs in a join, an
assembler that is done.

## Fairness

`Vm!FairSpec` states the fairness of the threads and `Devices!DevicesFair`, which
`vm` and `test_exits` check, the same with the registers. It assumes that each
thread that can take a step does, as a scheduler gives it. So does the timer, which
loops for as long as the machine runs: its interrupt is raised again and again, and a
pass that raises none counts only once its flag is cleared (`TimerEnds`). Keys do not come so fast that a frame never ends: `mfb_update_ex` calls back for
the events that are waiting and returns (strong fairness of `DevicesFrame`). It does
not assume that the program halts or writes its registers, that a key is pressed,
that the user closes the window or answers the prompt, or that a thread wakes by
itself. `WfiResumes` holds
by the timer alone: a single interrupt may be slept through (`wfi_doc`).
`MasterStops` allows a CPU that stands at the prompt again and again, or for ever: the
user may answer step to each, which overwrites the stop, or nothing.
`ShutdownEnds` has two hangs as outcomes of their own, and `TestExits` fails because
of the first. The other specifications state no fairness: nothing is claimed of what
they must reach.

## The proofs

TLAPS checks these for every value of the constants that meets the named
assumptions.

- `InterruptsProof`: `TypeCorrect`, `PrivateExactHolds`, `AnswerJustifiedHolds`,
  `Refinement`. `PrivateExact` is not inductive: the CPU stores a word it loaded a
  step before. `IInv` adds that what it loaded from a private word is still what
  the word holds (`LoadedFresh`), since no device writes it, and that the scan has
  passed no deliverable private interrupt (`ScanPassed`), which only the CPU could
  make appear behind it. The refinement maps each step to a step of `PendingSet` or
  to a stutter. Assumption: `ConstantsAssumption`; its last conjunct, that
  interrupt 0 lives in a word the devices write, is what makes the scan's answer 0
  for "nothing found" harmless. It holds in `vmarch.h`, where all three are in word 0.
- `BusProof`: `BusTypeCorrect`, `NeverAborts`, `ZonesStaySorted`,
  `BusImplementsFlatMemory`, `AllNotifiedHolds`. The invariant
  `BusInv` adds that every zone stands where the layout places its memory
  (`Placed`); with disjoint memories that start and end on words
  (`LayoutAssumption`), a first byte that is free is then a whole zone that is, and
  an offset found by the search is in bounds. `bus_memory_attach` checks only the
  first byte: without the assumption neither holds. The flat memory has a word where a memory that is attached has one (`Store`), writable where its mode says
  so. Under `BusInv` the search finds the zone of the memory an address is in, so that
  each operation of the bus is one of `FlatMemory`: the errors of the two layers become
  one, attaching adds words beside the old ones, and the dump prints the words of the
  range, up to the last byte, or nothing from within a word. A range that wraps around
  the end of the address space prints nothing (`bus.c:248`), which is the flat
  memory's exception. Its invariant for the notifications, `Registrations`, says that
  those of a zone are the ones registered for the address it starts at; the zones that
  `bus_memory_attach` moves take theirs along. `ArchAssumption` says what `vmarch.h`
  does: a word has several bytes, and the address space is a whole number of words.
- `FoldProof`: what a fold computes, without induction over data: a set of numbers from
  0 to n that holds 0, and k + 1 with every k, holds them all, because a number it
  lacked would have a least one among its like (`RangeInduction`). A fold is defined as
  some function on sets of places that obeys an equation, and there is one
  (`FoldExists`). A sum over a set of places is the same in whatever order they are
  taken: there is such a sum (`SumExists`), and it may be taken apart at any of its
  places (`SumChosen`).
- `DebuggerProof`: `LexerIsExact`: `LexesExactly` of a text of any length. A run of
  characters of one kind ends at the first that is of another, or with the text
  (`RunsEnd`). `read_number` adds a digit at a time, which comes to the sum of the
  digits times the powers of the base (`Horner`, `PositionalIs`). Each call of
  `lexer_next` then gives one exact token, and leaves nothing but blanks before it
  (`TokenAt`, `NextToken`). The tokens of a text are a recursive function of the place
  one looks from (`CutterExists`); going back from its end, one more character never
  lets anything be lost (`Cuts`, `OneMore`).
- `CpuProof`: `CpuTypeCorrect`, `FaultPanicsHolds`, `PrintingInvisibleHolds`,
  `CallReturnsHolds`, `StackRoundTripsHolds`. Every part an instruction is made of
  leads from a machine to a machine, and from one where no access failed to one that
  is sound: no access failed, or it panics (`Safe`); `ThenSafe` joins two parts at an
  early return, so that the lemma of an instruction is the list of its parts
  (`OpsSafe`). `FaultPanics` and `AbortsAtBadWord` are not inductive: `CpuInv` adds
  that the debugger is called for an instruction of the table with a machine whose
  access failed only if it was the printer's, whose refusal the instruction will meet
  again (`Runnable`, `RefusedAgain`), and that a CPU that ran into a word that is no
  instruction stands right behind it. `StackRoundTrips` follows the stack pointer word
  by word through a fold of pushes, whose addresses are all different
  (`DepthsApart`), and back. Its hypotheses: the registers that are pushed fit in the
  address space, as do the three of a triple, without which the addresses wrap onto
  each other, and are at most 252, the number of `SP`: `--registers` may be up to 255 (`opts.c:181`), and then one
  of those that `POPA` restores is the stack pointer itself. A register comes back
  unless its own write was refused (`PushThenPop`): the instruction panics, or, where a
  later write hid that (`ops.c:114-125,159-165`), the register gets the word that the
  ROM has in its place, which `StackRoundTrips` names. `PowerAssumption` is
  arithmetic: the powers of two, which the provers do not know. `CodeAssumption` says
  that a word encodes instructions of `instructions.thi`.
- `StartupProof`: `SessionKeepsMachine`, `StartsAsAskedHolds`, `AbortsAtBadWordHolds`,
  `RepeatIsWholeHolds`, `LexesExactlyHolds`, `ParsesAsDocumentedHolds` with
  `ParsesEveryText`, `RightHandlerHolds` and `TransparentHolds`. Every step of the run is one of the processor, or leaves it
  alone (`RunningStep`), so that what `CpuProof` shows of its steps holds between
  `main`, the ROM and the debugger. `SessionInv` adds that the machine is as
  `vm_create` leaves it until `main` has parsed the command line, and that `main`
  aborts only at the one panic. `StartsAsAsked` follows the load of a file word by word
  (`Loaded`): the last word of a file that lands at an address stays there, and a word
  no file reaches is what `vm_create` left. An image the bus takes ends before the ROM
  starts (`ImageFits`), and a ROM file that is no longer than the ROM does not wrap, so
  that neither touches the other. Its hypothesis, `RegCount <= IDT`, is that no general register is a special
  one; without it `--pc` is lost, which `registers` shows. `RepeatIsWhole` needs the
  buffer `getline` allocated to be no more than what was allocated for the copy
  (`Kept`). `ParsesEveryText` follows `parse_register_values` character by character
  (`ScanTrace`): what it has read so far is a list of whole items and an open one, in
  its register or in its value (`Scanned`), and what it has stored is what those items
  mean (`SoFar`). Where it stops, it has met a character that has no place in a list, an
  item without its colon, one with two, or a register the machine has not, and no list
  has these (`BadCharacter`, `NoColon`, `TwoColons`, `NoRegister`). `LexesExactlyHolds`
  and `ParsesAsDocumentedHolds` are what the runs check on short lines and lists, for
  all.
  `RightHandlerHolds` is about every program that keeps to `Disciplined`: while the
  dispatcher serves an interrupt the ROM is loaded, `idt` names the table, each line has
  a handler of its own outside the dispatcher, and what the dispatcher pushes does not
  land in the table; no other step starts a handler, or enters the dispatcher elsewhere
  than the processor does. The code leaves all of it to the programmer, and `session`
  checks that its programs do so. `RightHandler` says nothing of the words before the
  handler; `DispatchInv` adds what holds at each of them (`Served`): interrupts are
  off and `ir` is the line of the interrupt on top, `r0` holds what has been computed
  of the address so far, the word its `RET` goes back to stands on the stack; and
  (`Spared`) the registers and the stack of the program are as they were, with its
  program counter and its `r0` on top. So the handler is called with all of it
  (`Called`), which is what it has to give back. A lemma
  per instruction takes one to the next (`ServesPush` to `ServesHandler`), and every
  step is of the interrupted program (`InterruptedStep`), of the dispatcher
  (`InsideStep`) or of anything else (`OutsideStep`), single steps and traced ones
  included.
  `TransparentHolds` is about the way back. A handler may do what it likes to the
  machine, and may be interrupted itself; `Disciplined` asks that, when the dispatcher's
  `POP` is reached again, it and those that nested in it have given back what the
  interrupted program had: the registers but `r0`, the words of its stack, and the two
  words that are popped next (`GivenBack`); and that only the dispatcher's `IRET` ends an
  interrupt. An interrupt may come at the `POP` and at the `IRET` too: its frame is then
  one of the dispatcher's own, half way through giving back the frame below. `LeavesInv`
  therefore speaks of every frame of the stack (`Nested`): one whose program counter is
  at either word holds, as registers and as stack, what that word needs for the frame
  below, so that whatever the nesting the two words find it again when they run. A step
  is one of these two words (`LeavingStep`) or any other (`OtherStep`).
  `DispatchAssumption` says that a word encodes at most one instruction, those
  of the dispatcher included, that the ROM is where it is read and never written, that
  a stack is read, and that the last word of the address space, which is the ROM's, is
  not written: a push does not wrap.
  `StartupAssumption` and `DebuggerAssumption` say what `vmarch.h:39-46`
  does of the layout, the ROM last and read-only, the words of the devices apart and
  initialised, and what a command line and a line are.
- `DevicesProof`: `VmTypeCorrect`, `OnlyTimerUsesFreedHolds` of the threads alone, and
  `DevicesTypeCorrect`, `DevicesImplementVm`, `DevicesOnlyTimerUsesFreed`,
  `WrongBufferMissedHolds`, `LastKeyComesHolds` with the registers. The invariant
  `VmInv` adds that nothing is freed before the CPU's thread ended, and the keyboard
  and the video only when theirs have (`FreedLate`). Every step of `Devices` is one of
  `Vm` or leaves the threads alone; the trigger of a key is a CPU's wakeup to `Vm`.
  `WrongBufferMissed` is not inductive: `ScreenInv` adds that a thread that was
  signalled has not read yet, that it does not wait before its first read, and that
  what it read last is what it shows. `LastKeyComes` is inductive as it stands.
- `AssemblerProof`: `AsmTypeCorrect`, `OneLineEachHolds`, `LabelsExactHolds`,
  `FetchesAllHolds`, `OnlyKnownPanicsHolds`, for every sequence of files of tokens and
  any names of up to 32 registers. `ParserInv` says what an instruction of the list is
  (`Shapes`: its kind, the form of its opcode, and how many registers, numbers and
  addresses it has) and that a variable is a number; `ProgramInv` says what each stage
  after the parser may rely on: the addresses are those the resolver computed, no
  label is there twice, the registers the checker looks at are known to it. The
  resolver and the emitter are folds over the nodes; each is followed node by node
  (`LocateTrace`, `EmitTrace`), and after any number of nodes the resolver is at four
  times the words the emitter has written (`SamePlaces`), since the words of an
  instruction are as many as its length says (`WordsOf`, `Lengths`). A word that was
  written stays where it is (`EmitKeeps`), and every opcode is a byte that the
  processor's array takes back to its instruction (`Decoding`), which holds because
  the codes rise: so what is fetched there is what was emitted (`FetchesOne`). For
  `OneLineEach`, `PhaseStep` follows `parse_op` alternative by alternative (`Phase`): it
  has found nothing, and is where it began or stands at a comma or an end of line, where
  no other alternative matches; or it has found one instruction and taken its line, and
  at most what stands below it up to a variable that is not known; or it has found two,
  which is an error. It rests on what the patterns of a mnemonic with several
  alternatives have in common (`OneOfMany`). `OpAssumption` and
  `TableAssumption` are about closed tables, which TLC evaluates as a whole;
  `InputAssumption` says what a token is and that a general register is not called
  like a special one.

Only model-checked is every liveness property (`WfiResumes`, `SlaveFollows`, `MasterStops`,
`ShutdownEnds`), since fairness and ENABLED are out of the prover's reach.

## What the assembler's runs show

The five properties are also proved, for programs of any length.
`LabelsExact` and `FetchesAll` hold. `OneLineEach` holds with one exception that it
names: after `MOV r0, r1` is found, the next alternative matches a line `r2, $v`
below it, reads it up to `$v` and fails if there is no such variable; its error is
dropped, since an instruction was found, and the line, which alone is an error, is
lost without a word (`parser.rs:295`). A line that is a statement is never lost.
`OnlyKnownPanics` names
what the assembler accepts and then unwraps in vain: the label of `MOV r, &l`,
`MOV r, @l`, `LOAD r, &l` and `STOR &l, r`, which only `IA` instructions have looked
up (`address_resolver.rs:44`); the registers of those and of `LOAD r, [r+w]`, which
the checker passes over (`checker.rs:32-39`); and `pc`, which the checker accepts and
the emitter calls `cp` (`checker.rs:17`, `emitter.rs:15`). `LOAD r, [r+$v]` is always
refused, because `parse_ro` looks for the variable at the fourth operand token
(`parser.rs:557`), though its messages offer it.

## What the session's and the devices' runs show

`StartsAsAsked` says of every word what it holds when the CPU's thread starts. A ROM
file longer than the ROM is loaded on from address 0, since the address of a word wraps
and RAM is there (`main.c:137`): it covers the stack and the image as far as it goes, and
nothing else. Only of a word that neither a file nor `vm_create` sets nothing is said
(`memory.c:36`). `ParsesAsDocumented` leaves two things open that the code does not
check: an item may lack its digits, and the values of two items for one register are
written one after the other (`1:1,1:2` gives 12). `AbortsAtBadWord` says which
programs end in `abort()` instead of their report: only those that reach a word that
is no instruction. A dump of no word at address 0, or one that ends near the last
address, never ends where a word is several bytes (`Debugger!endless`, `bus.c:248`);
`session`, whose words are one byte, has no such dump, and `bus` tries both.
`MasterStops` holds for every CPU that has entered its loop, asleep or at the prompt,
with the one exception that the debugger makes: a stop that comes while the prompt
waits is overwritten by `step`.
`WrongBufferMissed` names the one way in which the screen keeps a buffer the
register no longer names: a switch written before the thread's first wait or between
two waits, which nothing repeats. `LastKeyComes` holds because the callback writes
before it triggers; the other order loses a key.

## Not modelled

- The lexers of the assembler and of the table generator, and the latter's output:
  text processing. An address beyond 32 bits in the emitter is left out.
- What is printed: the debugger's registers and memory, the state printers, JSON, the
  frames per second; the clock; the table of key codes of `video.c`. The syntax of
  options is `getopt`'s.
- Memory outside an object: a machine of fewer than 32 registers, which `cpu_reset`
  clears all the same (`cpu.c:121`). A freed token whose place the allocator gives to
  the next one (`debugger.c:146`) is read as that next one.
- Numbers beyond an int in the lexer and in the option parser.
- The rest of a file that is no whole number of words.
- A second image or a reset while the machine runs: the program has neither. Nothing
  survives the process, so that there is no recovery from a crash to model.
- Memory orders weaker than program order: a load or a store of a word is one step.
  A RAM of no word or one that reaches the devices is outside `LayoutAssumption`.

Comments that differ from the code and that no run is about: `opts.c:187` gives
`master` as the default of `--video`, which is none (`opts.c:42`); the constant `NOP`
of `main.c:110` is the word of `HALT`, by which a machine without an image stops; and
`instructions.thi:72-73` lets a `POP` of two or three registers end with
`sp = prev(sp)`, where the code takes the stack pointer back by as many words as there
are registers, as the `PUSH` of `instructions.thi:66-67` needs.

## Plan

1. Done: `Interrupts`, `Bus`, `Cpu`, `Dispatch`, `Vm`, in the order of what the
   rest relies on; then `Instructions` and `Assembler`; then `Devices`, `Debugger`
   and `Startup`, which closes the program from its command line to its end.
2. Done: the proofs about the controller, the threads and the devices; the bus as one
   flat memory, and whom it notifies; the processor's invariant and its four
   properties, for every width; the program from its command line on.
3. Done: the assembler's five properties, for every program.
4. Done: that the lexer covers a line and that a list of registers is read as
   documented, for every text; that the dispatcher starts the right handler, and that an
   interrupt does not show.
