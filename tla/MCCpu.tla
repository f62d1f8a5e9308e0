------------------------------- MODULE MCCpu -------------------------------
(***************************************************************************)
(* Arbitrary programs on a machine of two-bit words: every word of memory  *)
(* may be any instruction of Program.  Address 0 and 3 are RAM, 1 is ROM   *)
(* and nothing is attached at 2, so that the stack pointer meets every     *)
(* refusal next to an access that is accepted.  Word 3 is no opcode.  XBRK *)
(* traps, so that instructions are printed before they run.                *)
(***************************************************************************)
EXTENDS Cpu

Bad == 9

I(op, form, r) == [op |-> op, form |-> form, r |-> r]

Program ==
    {I(op, "", <<>>) : op \in {"NOP", "HALT", "PANIC", "PUSHA", "POPA", "RET",
                               "IRET", "IND", "INE", "XBRK"}}
    \union {I("PUSH", "R", <<r>>) : r \in {0, Bad}}
    \union {I("PUSH", "RR", r) : r \in {<<0, SP>>, <<0, 0>>, <<Bad, 0>>}}
    \union {I("PUSH", "W", <<>>), I("PUSH", "RRR", <<0, PC, 0>>)}
    \union {I("POP", "R", <<r>>) : r \in {0, SP, Bad}}
    \union {I("POP", "RR", r) : r \in {<<0, SP>>, <<Bad, 0>>}}
    \union {I("POP", "RRR", <<0, 0, Bad>>)}
    \union {I(op, "RR", <<0, SP>>) : op \in {"MOV", "CMP", "STOR", "LOAD", "ADD",
                                            "SUB", "MUL", "AND", "OR", "XOR"}}
    \union {I(op, "RR", <<0, Bad>>) : op \in {"MOV", "CMP", "STOR", "LOAD", "ADD"}}
    \union {I(op, "RW", <<r>>) : op \in {"MOV", "CMP", "XOR", "STOR", "LOAD"},
                                 r \in {0, Bad}}
    \union {I("LOAD", "RRW", <<0, SP>>), I("LOAD", "RRW", <<0, Bad>>)}
    \union {I(op, "R", <<0>>) : op \in {"INC", "DEC", "CALL"}}
    \union {I("CALL", "R", <<Bad>>)}
    \union {I(op, form, <<>>) : op \in {"J", "JEQ", "JNE", "CALL"},
                                form \in {"S", "A"}}

MCCode == [w \in Word |-> IF w = 3 THEN {} ELSE Program]

MCReadable == {0, 1, 3}
MCWritable == {0, 3}
MCImages == {[a \in {0, 1, 3} |-> 0]}
=============================================================================
