-------------------------------- MODULE Cpu --------------------------------
(***************************************************************************)
(* The processor: the fetch-decode-execute loop of cpu.c and the           *)
(* instructions of ops.c, every one of which is an operator from the       *)
(* machine before it to the machine after it.                              *)
(*                                                                         *)
(* The data is abstracted in three places.  A word has Width bits instead  *)
(* of 32, and wraps around as the 32-bit one does.  The bus is reduced to  *)
(* the set of addresses it reads and the set of those it writes; module    *)
(* Bus models why it refuses an address.  A word of few bits stands for    *)
(* many of the program's words, so Code gives the set of instructions one  *)
(* may encode; a word that encodes none is not an opcode.                  *)
(*                                                                         *)
(* Interrupts arrive at any loop top that accepts them: module Interrupts  *)
(* shows that the controller behind them is a set of pending lines.        *)
(***************************************************************************)
EXTENDS Integers, Sequences, SequencesExt

CONSTANTS
    Width,          \* bits of a word
    WORD_SIZE,      \* bytes of a word, and of an address (vmarch.h)
    RegCount,       \* general registers (--registers)
    Readable,       \* addresses bus_word_read accepts
    Writable,       \* those bus_word_write accepts
    STACK_SIZE,     \* top of the stack at reset, and where an image is loaded
    ROM_ADDRESS,    \* start of the ROM
    IDT_ADDRESS,    \* the interrupt descriptor table
    Code,           \* [Word -> set of instructions the word may encode]
    Lines,          \* interrupts that may be raised
    Images,         \* memory contents at start
    Pcs             \* values of --pc

Modulus == 2^Width
Word == 0 .. Modulus - 1

ASSUME CpuAssumption ==
    /\ Width \in Nat \ {0} /\ WORD_SIZE \in Nat \ {0} /\ RegCount \in 1 .. 255
    /\ Readable \subseteq Word /\ Writable \subseteq Readable
    /\ {STACK_SIZE, ROM_ADDRESS, IDT_ADDRESS} \subseteq Word
    /\ Lines \subseteq Word /\ Pcs \subseteq Word
    /\ Images \subseteq [Readable -> Word]

\* What the provers have to be told of the powers of two.
ASSUME PowerAssumption ==
    /\ 2^0 = 1
    /\ \A k \in 0 .. Width - 1 : 2^k \in Nat /\ 2^(k + 1) = 2^k + 2^k

IDT == 250
IR == 251
SP == 252
BP == 253
PC == 254
CS == 255
Special == {IDT, IR, SP, BP, PC, CS}
Registers == (0 .. RegCount - 1) \union Special
General == [k \in 1 .. RegCount |-> k - 1]

Panics == {"OK", "PANIC", "CANNOT_READ_MEMORY", "CANNOT_WRITE_MEMORY",
           "UNIMPLEMENTED_OPCODE", "INVALID_REGISTER"}

NoLine == -1

Commands == {"continue", "step", "quit"}

(***************************************************************************)
(* The instructions of instructions.thi, and the operands of their forms:  *)
(* each register is a byte.                                                *)
(***************************************************************************)
Plain == {"NOP", "HALT", "PANIC", "PUSHA", "POPA", "RET", "IRET", "IND", "INE", "WFI",
          "XBM", "XDBG", "XPSE", "XPSD", "XBRK"}
Arithmetic == {"ADD", "SUB", "MUL", "AND", "OR", "XOR"}

forms(op) ==
    CASE op \in Plain -> {""}
      [] op \in {"INT", "MI", "UMI"} -> {"B"}
      [] op \in {"INC", "DEC"} -> {"R"}
      [] op \in {"J", "JEQ", "JNE"} -> {"S", "A"}
      [] op \in Arithmetic \union {"MOV", "CMP", "STOR"} -> {"RR", "RW"}
      [] op = "LOAD" -> {"RR", "RRW", "RW"}
      [] op = "CALL" -> {"S", "A", "R"}
      [] op = "PUSH" -> {"R", "RR", "RRR", "W"}
      [] op = "POP" -> {"R", "RR", "RRR"}
      [] OTHER -> {}

operands(form) ==
    CASE form \in {"R", "RW"} -> 1
      [] form \in {"RR", "RRW"} -> 2
      [] form = "RRR" -> 3
      [] OTHER -> 0

IsInstruction(i) ==
    /\ i \in [op : STRING, form : STRING, r : Seq(0 .. 255)]
    /\ i.form \in forms(i.op) /\ Len(i.r) = operands(i.form)

ASSUME CodeAssumption ==
    \A w \in Word : \A i \in Code[w] : IsInstruction(i)

VARIABLES
    m,          \* the CPU structure and the memory it reaches
    thread,     \* where the thread is: "idle", "loop", "trap" or "done"
    ins         \* instruction the debugger was called for

vars == <<m, thread, ins>>

Machine == [reg : [Registers -> Word], mem : [Readable -> Word],
            ie : BOOLEAN, z : BOOLEAN, n : BOOLEAN,
            print_op : BOOLEAN, trap : BOOLEAN,
            running : BOOLEAN, panic : Panics, fault : BOOLEAN]

(***************************************************************************)
(* Registers, memory and panics.  fault records that some access of the    *)
(* current instruction was refused; the program has no such variable.      *)
(***************************************************************************)
Panicked(s, e) == [s EXCEPT !.panic = e, !.fault = TRUE]

\* t, unless s has panicked: the early return after a failed access.
Then(s, t) == IF s.panic = "OK" THEN t ELSE s

\* cpu_register_get on each register of R, the panic being its result.
cpu_register_get(s, R) ==
    IF R \subseteq Registers THEN [s EXCEPT !.panic = "OK"]
                             ELSE Panicked(s, "INVALID_REGISTER")

cpu_flags_update(s, v) == [s EXCEPT !.z = (v = 0), !.n = (v >= Modulus \div 2)]

cpu_register_set(s, r, v) ==
    IF r \in Registers
    THEN cpu_flags_update([s EXCEPT !.reg[r] = v, !.panic = "OK"], v)
    ELSE Panicked(s, "INVALID_REGISTER")

load(s, a) == IF a \in Readable THEN s ELSE Panicked(s, "CANNOT_READ_MEMORY")

\* The mutant of store: the bus's refusal is not checked.
slip_store(s, a, v) ==
    IF a \in Writable THEN [s EXCEPT !.mem[a] = v] ELSE [s EXCEPT !.fault = TRUE]

store(s, a, v) ==
    IF a \in Writable THEN [s EXCEPT !.mem[a] = v]
                      ELSE Panicked(s, "CANNOT_WRITE_MEMORY")

\* The mutant of cpu_fetch: the program counter is not a word of Width bits.
slip_cpu_fetch(s) ==
    [Then(s, load(s, s.reg[PC])) EXCEPT !.reg[PC] = @ + WORD_SIZE]

cpu_fetch(s) ==
    [Then(s, load(s, s.reg[PC])) EXCEPT !.reg[PC] = (@ + WORD_SIZE) % Modulus]

\* The word cpu_fetch(s) returns when it does not panic.
fetched(s) == s.mem[s.reg[PC]]

jump(s, a) == [s EXCEPT !.reg[PC] = a % Modulus]

push(s, v) ==
    LET a == (s.reg[SP] - WORD_SIZE) % Modulus
    IN  store([s EXCEPT !.reg[SP] = a], a, v)

(***************************************************************************)
(* Stack instructions.  PUSH and PUSHA assign state.panic once per         *)
(* register, so a register that is pushed after one that was refused       *)
(* clears the panic; a POP stops at a failed read but not at a register    *)
(* that does not exist.                                                    *)
(***************************************************************************)
push_register(s, r) ==
    LET g == cpu_register_get(s, {r}) IN Then(g, push(g, s.reg[r]))

op_push(s, rs) == FoldLeft(push_register, s, rs)

\* The mutant of pop_register: the stack pointer moves before the read.
slip_pop_register(s, r) ==
    LET a == (s.reg[SP] + WORD_SIZE) % Modulus IN
    IF s.panic = "CANNOT_READ_MEMORY" \/ a \notin Readable
    THEN load(s, a)
    ELSE cpu_register_set([s EXCEPT !.reg[SP] = a], r, s.mem[a])

pop_register(s, r) ==
    LET a == s.reg[SP] IN
    IF s.panic = "CANNOT_READ_MEMORY" \/ a \notin Readable
    THEN load(s, a)
    ELSE cpu_register_set([s EXCEPT !.reg[SP] = (a + WORD_SIZE) % Modulus],
                          r, s.mem[a])

op_pop(s, rs) == FoldLeft(pop_register, s, rs)

op_push_w(s) == LET f == cpu_fetch(s) IN Then(f, push(f, fetched(s)))

(***************************************************************************)
(* Moves, arithmetic and comparisons.                                      *)
(***************************************************************************)
bit(x, k) == (x \div 2^k) % 2

\* The word whose bit k is 1 when the bits k of x and y add up to a number in on.
bitwise(on, x, y) ==
    FoldLeft(LAMBDA acc, k : IF bit(x, k) + bit(y, k) \in on THEN acc + 2^k ELSE acc,
             0, [k \in 1 .. Width |-> k - 1])

alu(op, x, y) ==
    CASE op = "ADD" -> (x + y) % Modulus
      [] op = "SUB" -> (x - y) % Modulus
      [] op = "MUL" -> (x * y) % Modulus
      [] op = "AND" -> bitwise({2}, x, y)
      [] op = "OR"  -> bitwise({1, 2}, x, y)
      [] op = "XOR" -> bitwise({1}, x, y)

op_mov_rw(s, r) ==
    LET f == cpu_fetch(s) IN Then(f, cpu_register_set(f, r[1], fetched(s)))

op_mov_rr(s, r) ==
    LET g == cpu_register_get(s, {r[2]})
    IN  Then(g, cpu_register_set(g, r[1], s.reg[r[2]]))

op_alu_rr(s, op, r) ==
    LET g == cpu_register_get(s, {r[1], r[2]})
    IN  Then(g, cpu_register_set(g, r[1], alu(op, s.reg[r[1]], s.reg[r[2]])))

\* The immediate is fetched before the register is read.
op_alu_rw(s, op, r) ==
    LET f == cpu_fetch(s)
        g == cpu_register_get(f, {r[1]})
    IN  Then(f, Then(g, cpu_register_set(g, r[1],
                                         alu(op, f.reg[r[1]], fetched(s)))))

op_count_r(s, op, r) ==
    LET g == cpu_register_get(s, {r[1]})
    IN  Then(g, cpu_register_set(g, r[1], alu(op, s.reg[r[1]], 1)))

op_cmp_rr(s, r) ==
    LET g == cpu_register_get(s, {r[1], r[2]})
    IN  Then(g, cpu_flags_update(g, alu("SUB", s.reg[r[1]], s.reg[r[2]])))

\* Here the register is read before the immediate is fetched.
op_cmp_rw(s, r) ==
    LET g == cpu_register_get(s, {r[1]})
        f == cpu_fetch(g)
    IN  Then(g, Then(f, cpu_flags_update(f, alu("SUB", s.reg[r[1]], fetched(s)))))

(***************************************************************************)
(* Memory.                                                                 *)
(***************************************************************************)
op_stor_rr(s, r) ==
    LET g == cpu_register_get(s, {r[1], r[2]})
    IN  Then(g, store(g, s.reg[r[1]], s.reg[r[2]]))

op_stor_rw(s, r) ==
    LET f == cpu_fetch(s)
        g == cpu_register_get(f, {r[1]})
    IN  Then(f, Then(g, store(g, fetched(s), f.reg[r[1]])))

\* load, then cpu_register_set
read_into(s, r, a) ==
    LET l == load(s, a) IN Then(l, cpu_register_set(l, r, s.mem[a]))

op_load_rr(s, r) ==
    LET g == cpu_register_get(s, {r[2]}) IN Then(g, read_into(g, r[1], s.reg[r[2]]))

op_load_rw(s, r) ==
    LET f == cpu_fetch(s) IN Then(f, read_into(f, r[1], fetched(s)))

op_load_rrw(s, r) ==
    LET g == cpu_register_get(s, {r[2]})
        f == cpu_fetch(g)
    IN  Then(g, Then(f, read_into(f, r[1],
                                  (s.reg[r[2]] + fetched(s)) % Modulus)))

(***************************************************************************)
(* Jumps, calls and returns.  A conditional jump that is not taken does    *)
(* not read its operand.                                                   *)
(***************************************************************************)
base(s, form) == IF form = "S" THEN s.reg[CS] ELSE 0

op_j(s, form) ==
    LET f == cpu_fetch(s) IN Then(f, jump(f, base(s, form) + fetched(s)))

op_jif(s, form, taken) ==
    IF taken THEN op_j(s, form) ELSE jump(s, s.reg[PC] + WORD_SIZE)

\* The mutant of call: the return address is that of the operand.
slip_call(s, a) ==
    LET p == push(s, (s.reg[PC] - WORD_SIZE) % Modulus) IN Then(p, jump(p, a))

call(s, a) == LET p == push(s, s.reg[PC]) IN Then(p, jump(p, a))

op_call(s, form) ==
    LET f == cpu_fetch(s) IN Then(f, call(f, base(s, form) + fetched(s)))

op_call_r(s, r) ==
    LET g == cpu_register_get(s, {r[1]}) IN Then(g, call(g, s.reg[r[1]]))

\* The mutant of op_ret: the return address stays on the stack.
slip_op_ret(s) ==
    LET l == load(s, s.reg[SP]) IN Then(l, jump(l, s.mem[s.reg[SP]]))

op_ret(s) ==
    LET a == s.reg[SP]
        l == load(s, a)
    IN  Then(l, [jump(l, s.mem[a]) EXCEPT !.reg[SP] = (a + WORD_SIZE) % Modulus])

op_iret(s) == LET t == op_ret(s) IN Then(t, [t EXCEPT !.ie = TRUE])

(***************************************************************************)
(* The table ops[].  INT, MI and UMI act on the interrupt controller and   *)
(* WFI waits: nothing of the processor changes, Interrupts models them.    *)
(***************************************************************************)
ops(s, i) ==
    CASE i.op \in {"NOP", "INT", "MI", "UMI", "WFI", "XBM", "XDBG"} -> s
      [] i.op = "HALT" -> [s EXCEPT !.running = FALSE]
      [] i.op = "PANIC" -> Then(s, Panicked(s, "PANIC"))
      [] i.op = "PUSH" /\ i.form = "W" -> op_push_w(s)
      [] i.op = "PUSH" /\ i.form # "W" -> op_push(s, i.r)
      [] i.op = "PUSHA" -> op_push(s, General)
      [] i.op = "POP" -> op_pop(s, i.r)
      [] i.op = "POPA" -> op_pop(s, Reverse(General))
      [] i.op = "MOV" /\ i.form = "RW" -> op_mov_rw(s, i.r)
      [] i.op = "MOV" /\ i.form = "RR" -> op_mov_rr(s, i.r)
      [] i.op = "CMP" /\ i.form = "RR" -> op_cmp_rr(s, i.r)
      [] i.op = "CMP" /\ i.form = "RW" -> op_cmp_rw(s, i.r)
      [] i.op = "JEQ" -> op_jif(s, i.form, s.z)
      [] i.op = "JNE" -> op_jif(s, i.form, ~s.z)
      [] i.op = "J" -> op_j(s, i.form)
      [] i.op = "STOR" /\ i.form = "RR" -> op_stor_rr(s, i.r)
      [] i.op = "STOR" /\ i.form = "RW" -> op_stor_rw(s, i.r)
      [] i.op = "LOAD" /\ i.form = "RR" -> op_load_rr(s, i.r)
      [] i.op = "LOAD" /\ i.form = "RW" -> op_load_rw(s, i.r)
      [] i.op = "LOAD" /\ i.form = "RRW" -> op_load_rrw(s, i.r)
      [] i.op \in Arithmetic /\ i.form = "RR" ->
             op_alu_rr(s, i.op, i.r)
      [] i.op \in Arithmetic /\ i.form = "RW" ->
             op_alu_rw(s, i.op, i.r)
      [] i.op = "INC" -> op_count_r(s, "ADD", i.r)
      [] i.op = "DEC" -> op_count_r(s, "SUB", i.r)
      [] i.op = "CALL" /\ i.form # "R" -> op_call(s, i.form)
      [] i.op = "CALL" /\ i.form = "R" -> op_call_r(s, i.r)
      [] i.op = "RET" -> op_ret(s)
      [] i.op = "IRET" -> op_iret(s)
      [] i.op = "IND" -> [s EXCEPT !.ie = FALSE]
      [] i.op = "INE" -> [s EXCEPT !.ie = TRUE]
      [] i.op = "XBRK" -> [s EXCEPT !.trap = TRUE]
      [] i.op = "XPSE" -> [s EXCEPT !.print_op = TRUE]
      [] i.op = "XPSD" -> [s EXCEPT !.print_op = FALSE]

(***************************************************************************)
(* Printing an instruction reads its immediate, so that it can panic.      *)
(* PUSH_W, STOR_RW and LOAD_RRW are not in the printer's switch.           *)
(***************************************************************************)
printed_operand(i) ==
    \/ i.op \in {"J", "JEQ", "JNE"}
    \/ i.op = "CALL" /\ i.form # "R"
    \/ i.form = "RW" /\ i.op # "STOR"

\* The mutant of cpu_instruction_to_string: it consumes the immediate.
slip_cpu_instruction_to_string(s, i) == IF printed_operand(i) THEN cpu_fetch(s) ELSE s

cpu_instruction_to_string(s, i) ==
    IF printed_operand(i) THEN load(s, s.reg[PC]) ELSE s

op_call_traced(s, i) ==
    ops(IF s.print_op THEN cpu_instruction_to_string(s, i) ELSE s, i)

(***************************************************************************)
(* The loop.  An iteration takes an interrupt if there is one, fetches and *)
(* decodes a word, and executes the instruction, after the debugger has    *)
(* returned if the CPU is trapped.                                         *)
(***************************************************************************)
TypeOK ==
    /\ m \in Machine
    /\ thread \in {"idle", "loop", "trap", "done"}

Nop == [op |-> "NOP", form |-> "", r |-> <<>>]

\* cpu_reset, then main: the image, --pc, the table; ir is never initialised.
Init ==
    /\ \E image \in Images, pc \in Pcs, ir \in {IDT_ADDRESS} \union Lines :
         m = [reg |-> [r \in Registers |->
                         CASE r \in {PC, CS} -> pc
                           [] r \in {SP, BP} -> STACK_SIZE
                           [] r = IDT -> IDT_ADDRESS
                           [] r = IR -> ir
                           [] OTHER -> 0],
              mem |-> image, ie |-> FALSE, z |-> TRUE, n |-> FALSE,
              print_op |-> FALSE, trap |-> FALSE,
              running |-> FALSE, panic |-> "OK", fault |-> FALSE]
    /\ thread = "idle" /\ ins = Nop

\* The CPU's thread enters cpu_loop.
StartLoop ==
    /\ thread = "idle"
    /\ thread' = "loop"
    /\ m' = [m EXCEPT !.running = TRUE, !.panic = "OK"]
    /\ UNCHANGED ins

Looping == thread = "loop" /\ m.running /\ m.panic = "OK"

\* An interrupt the loop may take, or none.
arriving == {NoLine} \union (IF m.ie THEN Lines ELSE {})

\* The mutant of interrupted: interrupts stay enabled.
slip_interrupted(s, line) ==
    LET p == push([s EXCEPT !.reg[IR] = line], s.reg[PC])
    IN  Then(p, jump(p, ROM_ADDRESS + 2 * WORD_SIZE))

interrupted(s, line) ==
    LET p == push([s EXCEPT !.ie = FALSE, !.reg[IR] = line], s.reg[PC])
    IN  Then(p, jump(p, ROM_ADDRESS + 2 * WORD_SIZE))

\* The machine before the fetch of this iteration.
top(line) ==
    LET s == [m EXCEPT !.fault = FALSE]
    IN  IF line = NoLine THEN s ELSE interrupted(s, line)

cpu_decode(line) == Code[fetched(top(line))]

\* The entry of the interrupt or the fetch panics.
CannotFetch(line) ==
    /\ Looping
    /\ cpu_fetch(top(line)).panic # "OK"
    /\ m' = cpu_fetch(top(line))
    /\ UNCHANGED <<thread, ins>>

Fetches(line) == Looping /\ cpu_fetch(top(line)).panic = "OK"

NotImplemented(line) ==
    /\ Fetches(line)
    /\ cpu_decode(line) = {}
    /\ m' = Panicked(cpu_fetch(top(line)), "UNIMPLEMENTED_OPCODE")
    /\ UNCHANGED <<thread, ins>>

Execute(line, i) ==
    /\ ~m.trap
    /\ m' = op_call_traced(cpu_fetch(top(line)), i)
    /\ UNCHANGED <<thread, ins>>

\* The debugger is called: it prints the instruction and waits for a command.
Trap(line, i) ==
    /\ m.trap
    /\ m' = cpu_instruction_to_string(cpu_fetch(top(line)), i)
    /\ ins' = i
    /\ thread' = "trap"

\* The debugger returns: its result becomes running, and the instruction it
\* was called for is executed whatever the result.
Debug(c) ==
    /\ thread = "trap"
    /\ m' = op_call_traced([m EXCEPT !.running = (c = "step"),
                                     !.trap = (c # "continue")], ins)
    /\ thread' = "loop"
    /\ ins' = Nop

LeaveLoop ==
    /\ thread = "loop" /\ ~Looping
    /\ m' = [m EXCEPT !.running = FALSE]
    /\ thread' = "done"
    /\ UNCHANGED ins

\* vm_start, on the main thread, when the window is closed.
cpu_stop ==
    /\ m' = [m EXCEPT !.running = FALSE]
    /\ UNCHANGED <<thread, ins>>

Iterate(line) ==
    \/ CannotFetch(line)
    \/ NotImplemented(line)
    \/ /\ Fetches(line)
       /\ \E i \in cpu_decode(line) : Execute(line, i) \/ Trap(line, i)

\* The processor, with a debugger that may answer a trap with any command: module
\* Debugger says which.
Next ==
    \/ StartLoop
    \/ \E line \in arriving : Iterate(line)
    \/ \E c \in Commands : Debug(c)
    \/ LeaveLoop
    \/ cpu_stop

Spec == Init /\ [][Next]_vars

----------------------------------------------------------------------------
(***************************************************************************)
(* Properties.                                                             *)
(***************************************************************************)
several_registers(i) ==
    i.op \in {"PUSHA", "POPA"} \/ (i.op \in {"PUSH", "POP"} /\ Len(i.r) > 1)

\* The step that executes instruction i, after the debugger or without it.
Executes(i) ==
    \/ thread = "trap" /\ i = ins /\ \E c \in Commands : Debug(c)
    \/ \E line \in arriving :
         Fetches(line) /\ i \in cpu_decode(line) /\ Execute(line, i)

Instructions == UNION {Code[w] : w \in Word}

\* An access the bus or the register file refused leaves the CPU in panic, so
\* that no instruction runs on its result: this is so across the several
\* accesses of an instruction, an interrupt taken just before it and the
\* printing of it, except in the stack instructions on several registers.
FaultPanics ==
    [][ m'.fault /\ m'.panic = "OK"
        => \A i \in Instructions : Executes(i) => several_registers(i) ]_vars

\* Watching a program does not change it: an instruction that was printed first,
\* by the tracing or by the debugger, does what it does unprinted, or the CPU is
\* in panic because the printer was refused the immediate: also when the
\* instruction clears the panic the printer left.
PrintingInvisible ==
    Looping /\ ~m.print_op =>
    LET s == cpu_fetch([m EXCEPT !.fault = FALSE])
    IN  s.panic = "OK" =>
          \A i \in Instructions :
            LET t == ops(cpu_instruction_to_string(s, i), i)
            IN  t = ops(s, i) \/ t.panic # "OK"

\* PUSHA then POPA, and the push of any registers then their pop in reverse,
\* give back the stack pointer and the registers, or panic; tried from every
\* state the program reaches, wherever its stack pointer wraps or runs out.
\* Excepted are registers whose write the ROM refused, when the last write was
\* accepted: every register assigns the panic anew (ops.c:114-125,159-165), so
\* nobody is told that they are not stacked, and a pop gives them the ROM's word.
Restores(rs, s, t) ==
    LET Below(k) == (m.reg[SP] - k * WORD_SIZE) % Modulus
        FromRom(r, v) == \E k \in DOMAIN rs :
                           /\ rs[k] = r /\ Below(k) \in Readable \ Writable
                           /\ v = m.mem[Below(k)]
    IN  \/ s.panic # "OK" \/ t.panic # "OK"
        \/ /\ t.reg[SP] = m.reg[SP]
           /\ \A r \in 0 .. RegCount - 1 : t.reg[r] = m.reg[r] \/ FromRom(r, t.reg[r])

StackRoundTrips ==
    Looping =>
    LET Run(s, op) == ops(s, [Nop EXCEPT !.op = op])
        Back(rs) == LET s == op_push(m, rs) IN Restores(rs, s, op_pop(s, Reverse(rs)))
    IN  /\ LET s == Run(m, "PUSHA") IN Restores(General, s, Run(s, "POPA"))
        /\ \A r0, r1 \in 0 .. RegCount - 1 : Back(<<r0, r1>>) /\ Back(<<r0, r1, r0>>)

\* A return undoes a call: after CALL then RET the program is at the
\* instruction after the call, and after the entry of an interrupt then IRET
\* it is where it was interrupted, with interrupts enabled and its stack
\* pointer back, or the CPU is in panic.
CallReturns ==
    Looping =>
    LET Returned(s, t, pc) ==
            \/ s.panic # "OK"
            \/ t.panic # "OK"
            \/ (t.reg[SP] = m.reg[SP] /\ t.reg[PC] = pc)
        After(n) == (m.reg[PC] + n) % Modulus
    IN  /\ \A form \in {"S", "A"} :
             LET s == op_call(m, form)
             IN  Returned(s, op_ret(s), After(WORD_SIZE))
        /\ \A r \in Registers :
             LET s == op_call_r(m, <<r>>) IN Returned(s, op_ret(s), After(0))
        /\ \A line \in Lines :
             LET s == interrupted(m, line)
             IN  /\ Returned(s, op_iret(s), After(0))
                 /\ s.panic = "OK" => ~s.ie /\ op_iret(s).ie

\* instructions.thi:66 gives PUSH r0,r1 the effect [sp] = r0; [next(sp)] = r1:
\* when the instruction completes, both registers are on the stack.
PushStoresBoth ==
    [][ \A i \in Instructions :
          (i.op = "PUSH" /\ Len(i.r) = 2
           /\ {i.r[1], i.r[2]} \subseteq Registers \ {SP}
           /\ m'.panic = "OK" /\ Executes(i))
          => LET a == m'.reg[SP]
                 b == (a + WORD_SIZE) % Modulus
             IN  /\ {a, b} \subseteq Writable
                 /\ m'.mem[b] = m'.reg[i.r[1]] /\ m'.mem[a] = m'.reg[i.r[2]]
      ]_vars

\* The debugger's help lists [c]ontinue beside [q]uit: after continue the
\* program runs on, unless it halts or panics.
ContinueRunsOn ==
    [][ (Debug("continue") /\ ins.op \notin {"HALT", "XBRK"} /\ m.running
         /\ m'.panic = "OK")
        => m'.running ]_vars
=============================================================================
