------------------------------ MODULE Dispatch ------------------------------
(***************************************************************************)
(* The interrupt dispatcher of the ROM (common/rom.a) on the processor of  *)
(* module Cpu.  The processor enters it at ROM_ADDRESS + 8 with nothing    *)
(* saved but the program counter; it looks the handler up in the           *)
(* descriptor table, calls it and returns to the program.                  *)
(*                                                                         *)
(* frames is a history variable: what the program had, for each interrupt  *)
(* being served, when it was interrupted.                                  *)
(***************************************************************************)
EXTENDS Cpu

CONSTANTS
    Encoded,    \* the instructions a word encodes: word k encodes Encoded[k]
    StackArea   \* the addresses of the stack

instruction(op, form, r) == [op |-> op, form |-> form, r |-> r]

\* The word that encodes an instruction; NOP is 0, what cleared memory holds.
word(op, form, r) == CHOOSE k \in DOMAIN Encoded : Encoded[k] = instruction(op, form, r)

EncodedCode ==
    [w \in Word |-> IF w = 0 THEN {Nop}
                    ELSE IF w \in DOMAIN Encoded THEN {Encoded[w]} ELSE {}]

\* The k-th word of the ROM, from 0, and the word of the table that names line's handler.
rom_at(k) == ROM_ADDRESS + k * WORD_SIZE
entry(line) == IDT_ADDRESS + line * WORD_SIZE

skip_int_dispatch == rom_at(14)
compute_interrupt_handler_address == rom_at(8)

\* The words of the ROM.
rom == <<
    word("J", "A", <<>>), skip_int_dispatch,
    word("PUSH", "R", <<0>>),
    word("CALL", "A", <<>>), compute_interrupt_handler_address,
    word("CALL", "R", <<0>>),
    word("POP", "R", <<0>>),
    word("IRET", "", <<>>),
    word("MOV", "RR", <<0, IR>>),
    word("MUL", "RW", <<0>>), WORD_SIZE,
    word("ADD", "RR", <<0, IDT>>),
    word("LOAD", "RR", <<0, 0>>),
    word("RET", "", <<>>) >>

\* The words of rom that are executed between an interrupt and its handler.
Serving == {2, 3, 5, 8, 9, 11, 12, 13}

\* Every word of the dispatcher encodes its instruction and no other, and stands where
\* the bus reads it and refuses to write it; so does the table, which may be written.
ASSUME DispatchAssumption ==
    /\ DOMAIN Encoded \subseteq Word \ {0}
    /\ {instruction("PUSH", "R", <<0>>), instruction("CALL", "A", <<>>),
        instruction("CALL", "R", <<0>>), instruction("POP", "R", <<0>>),
        instruction("IRET", "", <<>>), instruction("MOV", "RR", <<0, IR>>),
        instruction("MUL", "RW", <<0>>), instruction("ADD", "RR", <<0, IDT>>),
        instruction("LOAD", "RR", <<0, 0>>), instruction("RET", "", <<>>)}
         \subseteq {Encoded[w] : w \in DOMAIN Encoded}
    /\ Code = EncodedCode
    /\ \A k \in 0 .. 13 : rom_at(k) \in Readable \ Writable
    /\ rom_at(14) \in Word /\ StackArea \subseteq Readable
    /\ \A a \in Writable : a + WORD_SIZE \in Word
    /\ \A line \in Lines : entry(line) \in Readable

VARIABLE frames

dispatchVars == <<m, thread, ins, frames>>

\* What the program interrupted by line has.
frame(line) ==
    [line |-> line, reg |-> [m.reg EXCEPT ![IR] = line],
     stack |-> [a \in {b \in StackArea : b >= m.reg[SP]} |-> m.mem[a]]]

Returning(line) ==
    ~m.trap /\ Fetches(line) /\ \E i \in cpu_decode(line) : i.op = "IRET"

Iteration(line) ==
    LET served == IF line = NoLine THEN frames ELSE Append(frames, frame(line))
    IN  /\ Iterate(line)
        /\ frames' = IF Returning(line) /\ served # <<>> THEN Front(served)
                                                         ELSE served

Debugged(c) ==
    /\ Debug(c)
    /\ frames' = IF ins.op = "IRET" /\ frames # <<>> THEN Front(frames) ELSE frames

----------------------------------------------------------------------------
\* A step that ends an interrupt restores what its frame holds.
Undisturbed ==
    Len(frames') < Len(frames) /\ m'.panic = "OK" =>
    LET f == Last(frames)
    IN  /\ \A r \in Registers \ {IR} : m'.reg[r] = f.reg[r]
        /\ \A a \in DOMAIN f.stack : m'.mem[a] = f.stack[a]
        /\ m'.ie

\* An interrupt does not show: when the dispatcher returns, the program has
\* every register it had and every word of its stack, however deep the
\* interrupts nested meanwhile, and interrupts are enabled again.  (The flags
\* are not in the frame: rom.a's MUL, ADD, LOAD and POP set them.)
Transparent == [][Undisturbed]_dispatchVars

\* What a handler is called with: interrupts off, the registers of the program but r0,
\* which is on the stack between the address to return to and the program's counter, and
\* under these the program's own words.
Called(s, f) ==
    LET sp == s.reg[SP]
    IN  /\ ~ s.ie /\ \A r \in Registers \ {0, SP, PC} : s.reg[r] = f.reg[r]
        /\ \A a \in DOMAIN f.stack : s.mem[a] = f.stack[a]
        /\ f.reg[SP] = sp + WORD_SIZE + WORD_SIZE + WORD_SIZE
        /\ s.mem[sp] = rom_at(6) /\ s.mem[sp + WORD_SIZE] = f.reg[0]
        /\ s.mem[sp + WORD_SIZE + WORD_SIZE] = f.reg[PC]

\* A handler runs for the interrupt that was delivered, although IR holds only
\* the latest one and a handler may enable interrupts, and finds the program as it was.
RightHandler ==
    \A line \in Lines :
        m.reg[PC] = m.mem[entry(line)] /\ Looping
        => frames # <<>> /\ Last(frames).line = line /\ Called(m, Last(frames))

\* What the dispatcher leaves to the programmer.  While it serves an interrupt, the ROM
\* is loaded, idt names the table, each line has a handler of its own outside the
\* dispatcher, and the stack does not grow over the table.  No other step starts a
\* handler, or enters the dispatcher elsewhere than the processor does.
Standing ==
    /\ \A k \in DOMAIN rom : m.mem[rom_at(k - 1)] = rom[k]
    /\ m.reg[IDT] = IDT_ADDRESS
    /\ \A j, line \in Lines : m.mem[entry(j)] = m.mem[entry(line)] => j = line
    /\ \A line \in Lines, k \in Serving : m.mem[entry(line)] # rom_at(k)

At(k) == \/ thread = "loop" /\ m.reg[PC] = rom_at(k)
         \/ thread = "trap" /\ m.reg[PC] = rom_at(k + 1)

Inside == \E k \in Serving : At(k)

Interrupted == m.ie /\ \E line \in Lines : Iteration(line)

Outside ==
    \/ UNCHANGED <<thread, frames>> /\ m'.reg = m.reg /\ m'.mem = m.mem /\ m'.ie = m.ie
    \/ thread' = "loop" =>
         /\ \A k \in Serving : m'.reg[PC] # rom_at(k)
         /\ \A line \in Lines : m'.reg[PC] # m'.mem[entry(line)]

Discipline ==
    IF Inside \/ Interrupted
    THEN Standing /\ \A line \in Lines : m'.mem[entry(line)] = m.mem[entry(line)]
    ELSE Outside

\* A handler, with those that nest in it, gives back what it was called with: the
\* registers of the program, its stack, and the two words that are popped from it next.
\* Only the dispatcher's IRET ends an interrupt.
GivenBack(s, f) ==
    LET sp == s.reg[SP]
    IN  /\ \A r \in Registers \ {0, IR, SP, PC} : s.reg[r] = f.reg[r]
        /\ \A a \in DOMAIN f.stack : s.mem[a] = f.stack[a]
        /\ {sp, sp + WORD_SIZE} \subseteq StackArea
        /\ f.reg[SP] = sp + WORD_SIZE + WORD_SIZE
        /\ s.mem[sp] = f.reg[0] /\ s.mem[sp + WORD_SIZE] = f.reg[PC]

Giving ==
    IF (At(6) \/ At(7)) /\ ~ Interrupted
    THEN m.mem[rom_at(6)] = rom[7] /\ m.mem[rom_at(7)] = rom[8]
    ELSE /\ Len(frames') >= Len(frames) /\ ~ At(7)'
         /\ At(6)' => thread' = "loop" /\ frames' # <<>> /\ GivenBack(m', Last(frames'))

Disciplined == [][Discipline /\ Giving]_dispatchVars
=============================================================================
