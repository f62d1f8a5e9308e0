---------------------------- MODULE Instructions ----------------------------
(***************************************************************************)
(* The instruction table common/instructions.thi and what is generated     *)
(* from it for both sides: thi.lua numbers the instructions in the order   *)
(* of the file, gives the assembler their lengths (op.rs) and the          *)
(* processor the function of each opcode (ops_array.h).  The processor     *)
(* finds the operands by itself (ops.c).                                   *)
(*                                                                         *)
(* An instruction is a pair: its name and its form, the sequence of the    *)
(* letters of its arguments: r register, w word, b byte, s an address      *)
(* relative to the code segment, a an absolute address.                    *)
(***************************************************************************)
EXTENDS Naturals, Sequences, SequencesExt

\* The forms of the table.
None == <<>>
R == <<"r">>
RR == <<"r", "r">>
RRR == <<"r", "r", "r">>
W == <<"w">>
RW == <<"r", "w">>
RRW == <<"r", "r", "w">>
B == <<"b">>
S == <<"s">>
A == <<"a">>

\* (op NAME (code given) ((args ..)) ((args ..))), a code of 0 if none is given.
op(name, given, forms) ==
    [k \in DOMAIN forms |-> [op |-> <<name, forms[k]>>, given |-> given]]

plain(names) ==
    [k \in DOMAIN names |-> [op |-> <<names[k], None>>, given |-> 0]]

table == FlattenSeq(<<
    plain(<<"NOP", "HALT", "PANIC">>),
    op("MOV", 0, <<RW, RR>>),
    op("ADD", 0, <<RR, RW>>), op("SUB", 0, <<RR, RW>>), op("MUL", 0, <<RR, RW>>),
    op("INC", 0, <<R>>), op("DEC", 0, <<R>>),
    op("AND", 0, <<RR, RW>>), op("OR", 0, <<RR, RW>>), op("XOR", 0, <<RR, RW>>),
    op("CMP", 0, <<RR, RW>>),
    op("PUSH", 0, <<R, RR, RRR, W>>), plain(<<"PUSHA">>),
    op("POP", 0, <<R, RR, RRR>>), plain(<<"POPA">>),
    op("JEQ", 0, <<S, A>>), op("JNE", 0, <<S, A>>), op("J", 0, <<S, A>>),
    op("CALL", 0, <<S, A, R>>), plain(<<"RET">>),
    op("INT", 0, <<B>>), plain(<<"IRET">>),
    op("STOR", 0, <<RR, RW>>), op("LOAD", 0, <<RR, RRW, RW>>),
    op("MI", 0, <<B>>), op("UMI", 0, <<B>>),
    plain(<<"IND", "INE", "WFI">>),
    op("XBM", 240, <<None>>), plain(<<"XDBG", "XPSE", "XPSD", "XBRK">>) >>)

Ops == {table[k].op : k \in DOMAIN table}

Forms == {None, R, RR, RRR, W, RW, RRW, B, S, A}

(***************************************************************************)
(* thi.lua                                                                 *)
(***************************************************************************)
argSize(letter) == IF letter \in {"r", "b"} THEN 1 ELSE 4

\* Instruction:size
size(form) == FoldLeft(LAMBDA total, letter : total + argSize(letter), 1, form)

roundTo(a, b) == ((a + b - 1) \div b) * b

\* Op::length of op.rs
length(o) == roundTo(size(o[2]), 4)

\* The mutant of numbered: the next code is not counted up.
slip_numbered(codes, given) ==
    LET nextCode == IF codes = <<>> THEN 0 ELSE Last(codes)
    IN  Append(codes, IF given < nextCode THEN nextCode ELSE given)

\* The codes so far and the next: the one given, unless it is already passed, or
\* the one after the last.
numbered(codes, given) ==
    LET nextCode == IF codes = <<>> THEN 0 ELSE Last(codes) + 1
    IN  Append(codes, IF given < nextCode THEN nextCode ELSE given)

allCodes == FoldLeft(numbered, <<>>, [k \in DOMAIN table |-> table[k].given])

\* The file names no instruction twice, and all have a code of a byte.
ASSUME TableAssumption ==
    /\ table \in Seq([op : STRING \X Forms, given : Nat])
    /\ \A j, k \in DOMAIN table : table[j].op = table[k].op => j = k
    /\ ToSet(allCodes) \subseteq 0..255

\* Op::bytecode of op.rs
bytecode == [o \in Ops |-> allCodes[CHOOSE k \in DOMAIN table : table[k].op = o]]

\* ops_array.h: the last of the instructions with this code.
ops_array ==
    [c \in ToSet(allCodes) |->
        table[SelectLastInSeq(allCodes, LAMBDA d : d = c)].op]

(***************************************************************************)
(* The processor.  A word of an image is the tuple of its four bytes, or   *)
(* the tuple of one value.                                                 *)
(***************************************************************************)
WORD_SIZE == 4

word_at(image, address) == image[address \div WORD_SIZE + 1]

\* op_.._w, _rw, _rrw, _s and _a read the word at pc and step over it.
has_immediate(form) == ToSet(form) \intersect {"w", "s", "a"} # {}

\* What executing the word at an address takes: the function, the bytes that are
\* its registers (or its interrupt), the immediate, and the next address.
fetched(image, address) ==
    LET word == word_at(image, address)
        o == ops_array[word[1]]
        imm == has_immediate(o[2])
    IN  [op |-> o,
         bytes |-> [k \in {n \in DOMAIN o[2] : o[2][n] \in {"r", "b"}} |-> word[k + 1]],
         word |-> IF imm THEN word_at(image, address + WORD_SIZE) ELSE <<>>,
         pc |-> address + (IF imm THEN 2 ELSE 1) * WORD_SIZE]
=============================================================================
