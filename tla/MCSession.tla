----------------------------- MODULE MCSession -----------------------------
(***************************************************************************)
(* Runs of the program on a machine of six-bit words: 30 words of RAM, the *)
(* last of them uninitialised, and, at the top of the address space, the   *)
(* words that hold the interrupts masked and the video's flags and 15 of   *)
(* ROM.                                                                    *)
(*                                                                         *)
(* The first image is a program that keeps pushing, popping and branching, *)
(* interrupted at any instruction by two lines.  The handler of line 0     *)
(* saves the register it uses; the one of line 1 enables interrupts, so    *)
(* that interrupts nest until the stack is exhausted.  The second image    *)
(* starts with a breakpoint, goes once through the loop and halts.         *)
(***************************************************************************)
EXTENDS Startup

I(op, form, r) == [op |-> op, form |-> form, r |-> r]

MCEncoded == <<
    I("HALT", "", <<>>), I("NOP", "", <<>>), I("XBRK", "", <<>>), I("INE", "", <<>>),
    I("PUSH", "RR", <<0, 1>>), I("POP", "RR", <<1, 0>>), I("XOR", "RW", <<0>>),
    I("J", "S", <<>>), I("J", "A", <<>>), I("JEQ", "A", <<>>),
    I("PUSH", "R", <<1>>), I("LOAD", "RW", <<1>>), I("POP", "R", <<1>>),
    I("RET", "", <<>>), I("PUSH", "R", <<0>>), I("CALL", "A", <<>>),
    I("CALL", "R", <<0>>), I("POP", "R", <<0>>), I("IRET", "", <<>>),
    I("MOV", "RR", <<0, IR>>), I("MUL", "RW", <<0>>), I("ADD", "RR", <<0, IDT>>),
    I("LOAD", "RR", <<0, 0>>) >>

\* The two programs: the one that is interrupted for ever, and the one that is
\* debugged and ends.
Program(first, after, handler) == <<
    word(first, "", <<>>),                      \* 9
    word("INE", "", <<>>),
    word("PUSH", "RR", <<0, 1>>),               \* 11, the loop
    word("XOR", "RW", <<0>>), 1,
    word("POP", "RR", <<1, 0>>),
    after, 2,
    word("PUSH", "R", <<1>>),                   \* 17, the handler of line 0
    word("LOAD", "RW", <<1>>), 9,
    word("POP", "R", <<1>>),
    word("RET", "", <<>>),
    word(handler, "", <<>>),                    \* 22, the handler of line 1
    word("RET", "", <<>>),
    17, 22 >>                                   \* 24, the descriptor table

Endless == Program("NOP", word("J", "S", <<>>), "INE")
Ending == Program("XBRK", word("HALT", "", <<>>), "NOP")
Bad == 40

MCStackArea == 0 .. 8
MCUnset == {29}
MCWritable == 0 .. 29 \union {47, 48}
MCReadable == MCWritable \union 49 .. 63

\* Lines of the prompt, the first a bare newline; the buffers are of 4 bytes, 8 or
\* 10.  The dump of no word at address 0 ends, as a word here is a byte; where it is
\* several it does not (module Bus checks that case).
MCTyped ==
    {<<>>, <<"s">>, <<"q">>, <<"c", "o", "n", "t", "i", "n", "u", "e">>,
     <<"r", " ", "0">>, <<"m", " ", "0", ",", "0">>, <<"1">>}
MCTexts == BoundedSeq({"s", "0", "x", "1", ",", ":", "?", " "}, 4)
MCLists == BoundedSeq({"0", "1", "2", ":", ","}, 6)

Default ==
    [help |-> FALSE, image |-> NoFile, rom |-> NoFile, pc |-> STACK_SIZE,
     values |-> NoText, print_state |-> FALSE, print_steps |-> FALSE]

\* Help; no image; the two programs with the ROM; a word that is no instruction, and
\* a start behind it; a ROM that goes on over the stack and the image; an image that
\* reaches the last word of the RAM; a file that is missing, too long, or longer than
\* ROM and RAM.
MCCommandLines ==
    {[Default EXCEPT !.help = TRUE],
     [Default EXCEPT !.print_state = TRUE, !.values = <<"1", ":", "7", "1">>],
     [Default EXCEPT !.image = Endless, !.rom = rom, !.print_state = TRUE],
     [Default EXCEPT !.image = Ending, !.rom = rom, !.print_state = TRUE,
                     !.values = <<"0", ":", "3", ",", "1", ":", "5">>],
     [Default EXCEPT !.image = <<Bad>>, !.print_state = TRUE],
     [Default EXCEPT !.image = <<Bad, HALT_WORD>>, !.pc = 10, !.print_steps = TRUE,
                     !.values = <<"1", ":">>],
     [Default EXCEPT !.rom = rom \o [k \in 1 .. 11 |-> k]],
     [Default EXCEPT !.image = [k \in 1 .. 21 |-> HALT_WORD]],
     [Default EXCEPT !.image = Unreadable],
     [Default EXCEPT !.image = Endless \o rom],
     [Default EXCEPT !.rom = rom \o [k \in 1 .. 32 |-> 1]]}
=============================================================================
