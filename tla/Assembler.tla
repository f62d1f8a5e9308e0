----------------------------- MODULE Assembler -----------------------------
(***************************************************************************)
(* The assembler (src/asm): main.rs parses the files one after the other   *)
(* into one list of nodes with one table of variables, resolves the        *)
(* labels, checks the registers and emits the code.                        *)
(*                                                                         *)
(* The lexer's output is the input here: a token is a tuple of its kind    *)
(* and its value if it has one, and "Error" is what the lexer refuses.     *)
(* The parser takes one step per token or statement it goes over.          *)
(***************************************************************************)
EXTENDS Instructions

CONSTANTS
    Inputs,         \* what the assembler may be called with: sequences of files
    General         \* the registers r0, r1, ... by name, in order

\* What the lexer gives.
Token ==
    {<<kind>> : kind \in {"Eol", "Comma", "LBracket", "RBracket", "Plus", "Equal", "Error"}}
    \union {"Integer"} \X Nat
    \union {"Op", "Identifier", "Variable", "Absolute", "Segment", "Label", "Directive",
            "Section"} \X STRING

SpecialRegisters == {"sp", "bp", "cs", "ir", "idt"}

ASSUME InputAssumption ==
    /\ Inputs \subseteq Seq(Seq(Token))
    /\ General \in Seq(STRING) /\ Len(General) <= 32
    /\ ToSet(General) \intersect (SpecialRegisters \union {"pc", "cp"}) = {}

VARIABLES
    stage,      \* of main
    files,      \* the files not opened yet
    tokens,     \* what the lexer has still to give of the file being parsed
    symbols,    \* the variables
    nodes,
    addresses,  \* of the labels
    code        \* the words of the image

vars == <<stage, files, tokens, symbols, nodes, addresses, code>>

NoMap == <<>>

\* HashMap::insert
put(map, name, value) ==
    [n \in DOMAIN map \union {name} |-> IF n = name THEN value ELSE map[n]]

----------------------------------------------------------------------------
(***************************************************************************)
(* The parser.  A statement's operands are parsed by peeking at the tokens *)
(* up to and with the end of the line and, if all are what is expected,    *)
(* reading them.                                                           *)
(***************************************************************************)
peek(ts) == IF ts = <<>> THEN "None" ELSE Head(ts)[1]

first(n, ts) == SubSeq(ts, 1, IF n < Len(ts) THEN n ELSE Len(ts))
after(n, ts) == SubSeq(ts, n + 1, Len(ts))

\* The next tokens are of the kinds of a pattern.
peeked(pattern, ts) ==
    Len(ts) >= Len(pattern) /\ \A k \in DOMAIN pattern : ts[k][1] \in pattern[k]

\* peek_register, peek_word or peek_variable, and so on
Register == {"Identifier"}
Word == {"Integer", "Variable"}
Comma == {"Comma"}
Eol == {"Eol"}

\* The mutant of parse_r: it does not look at the end of the line.
slip_parse_r == <<Register>>

parse_aa == <<{"Absolute"}, Eol>>
parse_as == <<{"Segment"}, Eol>>
parse_aar == <<{"Absolute"}, Comma, Register, Eol>>
parse_r == <<Register, Eol>>
parse_raa == <<Register, Comma, {"Absolute"}, Eol>>
parse_ras == <<Register, Comma, {"Segment"}, Eol>>
\* It looks for a variable at the fourth token, which is the register.
parse_ro == <<Register, Comma, {"LBracket"}, Register, {"Plus"}, {"Integer"},
              {"RBracket"}, Eol>>
parse_rr == <<Register, Comma, Register, Eol>>
parse_rw == <<Register, Comma, Word, Eol>>
parse_rrr == <<Register, Comma, Register, Comma, Register, Eol>>
parse_w == <<Word, Eol>>
parse_wr == <<Word, Comma, Register, Eol>>

\* What an alternative expects, and the places of its registers, of its number and of
\* its address.  op_void reads the end of the line without peeking.
op_void == [kind |-> "I", pattern |-> <<Eol>>, r |-> <<>>, w |-> <<>>, a |-> <<>>]
op_aa == [kind |-> "IA", pattern |-> parse_aa, r |-> <<>>, w |-> <<>>, a |-> <<1>>]
op_as == [kind |-> "IA", pattern |-> parse_as, r |-> <<>>, w |-> <<>>, a |-> <<1>>]
op_aar == [kind |-> "IRA", pattern |-> parse_aar, r |-> <<3>>, w |-> <<>>, a |-> <<1>>]
op_b == [kind |-> "IB", pattern |-> parse_w, r |-> <<>>, w |-> <<1>>, a |-> <<>>]
op_r == [kind |-> "IR", pattern |-> parse_r, r |-> <<1>>, w |-> <<>>, a |-> <<>>]
op_raa == [kind |-> "IRA", pattern |-> parse_raa, r |-> <<1>>, w |-> <<>>, a |-> <<3>>]
op_ras == [kind |-> "IRA", pattern |-> parse_ras, r |-> <<1>>, w |-> <<>>, a |-> <<3>>]
op_ro == [kind |-> "IRRW", pattern |-> parse_ro, r |-> <<1, 4>>, w |-> <<6>>, a |-> <<>>]
op_rr == [kind |-> "IRR", pattern |-> parse_rr, r |-> <<1, 3>>, w |-> <<>>, a |-> <<>>]
op_rw == [kind |-> "IRW", pattern |-> parse_rw, r |-> <<1>>, w |-> <<3>>, a |-> <<>>]
op_rrr == [kind |-> "IRRR", pattern |-> parse_rrr, r |-> <<1, 3, 5>>, w |-> <<>>, a |-> <<>>]
op_w == [kind |-> "IW", pattern |-> parse_w, r |-> <<>>, w |-> <<1>>, a |-> <<>>]
op_wr == [kind |-> "IRW", pattern |-> parse_wr, r |-> <<3>>, w |-> <<1>>, a |-> <<>>]

Binary == {"ADD", "AND", "CMP", "MUL", "OR", "SUB", "XOR"}
Bare == {"HALT", "IND", "INE", "IRET", "NOP", "PANIC", "POPA", "PUSHA", "RET", "WFI",
         "XBRK", "XDBG", "XPSD", "XPSE"}
Mnemonics == Binary \union Bare
             \union {"CALL", "DEC", "INC", "INT", "J", "JEQ", "JNE", "LOAD", "MI", "MOV",
                     "POP", "PUSH", "STOR", "UMI", "XBM"}

\* The alternatives of each mnemonic, in the order they are tried.
alternatives(name) ==
    CASE name \in Binary -> << <<RR, op_rr>>, <<RW, op_rw>> >>
      [] name \in {"DEC", "INC"} -> << <<R, op_r>> >>
      [] name \in {"J", "JEQ", "JNE"} -> << <<A, op_aa>>, <<S, op_as>> >>
      [] name = "CALL" -> << <<S, op_as>>, <<A, op_aa>>, <<R, op_r>> >>
      [] name = "LOAD" ->
            << <<RR, op_rr>>, <<RW, op_rw>>, <<RW, op_raa>>, <<RRW, op_ro>> >>
      [] name = "MOV" ->
            << <<RR, op_rr>>, <<RW, op_rw>>, <<RW, op_raa>>, <<RW, op_ras>> >>
      [] name = "STOR" -> << <<RR, op_rr>>, <<RW, op_wr>>, <<RW, op_aar>> >>
      [] name = "POP" -> << <<R, op_r>>, <<RR, op_rr>>, <<RRR, op_rrr>> >>
      [] name = "PUSH" ->
            << <<R, op_r>>, <<RR, op_rr>>, <<RRR, op_rrr>>, <<W, op_w>> >>
      [] name \in {"INT", "MI", "UMI"} -> << <<B, op_b>> >>
      [] name = "XBM" -> << <<None, op_b>> >>
      [] name \in Bare -> << <<None, op_void>> >>
      [] OTHER -> <<>>

\* Op has a member for each: both are closed tables.
ASSUME OpAssumption ==
    \A name \in Mnemonics : \A k \in DOMAIN alternatives(name) :
        <<name, alternatives(name)[k][1]>> \in Ops

unknown(ts) ==
    {k \in DOMAIN ts : ts[k][1] = "Variable" /\ ts[k][2] \notin DOMAIN symbols}

\* What a number or a variable that is known stands for.
number(t) == IF t[1] = "Variable" THEN symbols[t[2]] ELSE t[2]

\* The mutant of in_range: any word is taken for a byte.
slip_in_range(i) == TRUE

\* op_b takes a byte.
in_range(i) == i.kind = "IB" => i.w[1] <= 255

built(o, as, ts) ==
    [kind |-> as.kind, op |-> o,
     r |-> [k \in DOMAIN as.r |-> ts[as.r[k]][2]],
     w |-> [k \in DOMAIN as.w |-> number(ts[as.w[k]])],
     a |-> [k \in DOMAIN as.a |-> ts[as.a[k]][2]],
     absolute |-> \E k \in DOMAIN as.a : ts[as.a[k]][1] = "Absolute"]

\* One alternative on what is left: it adds the instruction it finds, and reads
\* nothing, or its operands, or what comes up to a variable it does not know.
tried(result, name, form, as) ==
    LET n == Len(as.pattern)
        ts == first(n, result.rest)
        i == built(<<name, form>>, as, ts)
    IN  IF ~peeked(as.pattern, result.rest) THEN result
        ELSE IF unknown(ts) # {} THEN [result EXCEPT !.rest = after(Max(unknown(ts)), @)]
        ELSE [found |-> IF in_range(i) THEN Append(result.found, i) ELSE result.found,
              rest |-> after(n, result.rest)]

\* parse_op tries all the alternatives, each on what the ones before it left.
parse_op(name, ts) ==
    FoldLeft(LAMBDA result, alt : tried(result, name, alt[1], alt[2]),
             [found |-> <<>>, rest |-> ts], alternatives(name))

SyntaxError ==
    /\ stage' = "refused"
    /\ UNCHANGED <<files, tokens, symbols, nodes, addresses, code>>

\* A statement that makes a node, or is an error if there is none to make.
Parsed(node, rest) ==
    IF node = <<>>
    THEN SyntaxError
    ELSE /\ nodes' = nodes \o node /\ tokens' = rest
         /\ UNCHANGED <<stage, files, symbols, addresses, code>>

Parsing == stage = "parse"

SkipEol ==
    /\ Parsing /\ peek(tokens) = "Eol"
    /\ tokens' = Tail(tokens)
    /\ UNCHANGED <<stage, files, symbols, nodes, addresses, code>>

\* $name = value; the end of the line is not looked for.
parse_variable ==
    /\ Parsing /\ peek(tokens) = "Variable"
    /\ IF /\ peek(Tail(tokens)) = "Equal"
          /\ peek(after(2, tokens)) = "Integer"
       THEN /\ symbols' = put(symbols, tokens[1][2], tokens[3][2])
            /\ tokens' = after(3, tokens)
            /\ UNCHANGED <<stage, files, nodes, addresses, code>>
       ELSE SyntaxError

ParseLabel ==
    /\ Parsing /\ peek(tokens) = "Label"
    /\ Parsed(IF peek(Tail(tokens)) = "Eol"
              THEN << [kind |-> "Label", name |-> tokens[1][2]] >> ELSE <<>>,
              after(2, tokens))

\* #base takes a number or a known variable, #word a name and a number.
parse_directive ==
    /\ Parsing /\ peek(tokens) = "Directive"
    /\ LET base == /\ tokens[1][2] = "base" /\ peeked(<<Word, Eol>>, Tail(tokens))
                   /\ unknown(first(2, tokens)) = {}
           word == /\ tokens[1][2] = "word"
                   /\ peeked(<<Register, {"Integer"}, Eol>>, Tail(tokens))
       IN  Parsed(IF base THEN << [kind |-> "Base",
                                   value |-> number(tokens[2])] >>
                  ELSE IF word THEN << [kind |-> "Word", name |-> tokens[2][2],
                                        value |-> tokens[3][2]] >>
                  ELSE <<>>,
                  after(IF base THEN 3 ELSE 4, tokens))

\* One alternative must have been found, not more.
parse_instruction ==
    /\ Parsing /\ peek(tokens) = "Op"
    /\ LET result == parse_op(tokens[1][2], Tail(tokens))
       IN  Parsed(IF Len(result.found) = 1
                  THEN << [kind |-> "Instruction", i |-> result.found[1]] >>
                  ELSE <<>>, result.rest)

\* Any other token, and what the lexer refuses.
Unexpected ==
    /\ Parsing
    /\ peek(tokens) \notin {"None", "Section", "Eol", "Variable", "Label", "Directive",
                            "Op"}
    /\ SyntaxError

\* A file ends where its tokens do or at a section; then comes the next one.
EndFile ==
    /\ Parsing /\ peek(tokens) \in {"None", "Section"}
    /\ IF files = <<>>
       THEN stage' = "resolve" /\ tokens' = <<>> /\ UNCHANGED files
       ELSE tokens' = Head(files) /\ files' = Tail(files) /\ UNCHANGED stage
    /\ UNCHANGED <<symbols, nodes, addresses, code>>

----------------------------------------------------------------------------
(***************************************************************************)
(* The address resolver.                                                   *)
(***************************************************************************)
named(map, name) ==
    IF name \in DOMAIN map.at THEN [map EXCEPT !.duplicate = TRUE]
    ELSE [map EXCEPT !.at = put(@, name, map.position)]

\* The mutant of located: a word of data takes no place.
slip_located(map, node) ==
    CASE node.kind \in {"Word", "Label"} -> named(map, node.name)
      [] node.kind = "Instruction" -> [map EXCEPT !.position = @ + length(node.i.op)]
      [] OTHER -> map

located(map, node) ==
    CASE node.kind = "Word" -> [named(map, node.name) EXCEPT !.position = @ + 4]
      [] node.kind = "Label" -> named(map, node.name)
      [] node.kind = "Instruction" -> [map EXCEPT !.position = @ + length(node.i.op)]
      [] OTHER -> map

\* AddressResolver::resolve, its first loop.
resolved(ns) ==
    FoldLeft(located, [at |-> NoMap, position |-> 0, duplicate |-> FALSE], ns)

\* The instructions among nodes.
instructions(ns) == {ns[k].i : k \in {n \in DOMAIN ns : ns[n].kind = "Instruction"}}

Resolve ==
    /\ stage = "resolve"
    /\ LET map == resolved(nodes)
           missing == \E i \in instructions(nodes) :
                         i.kind = "IA" /\ i.a[1] \notin DOMAIN map.at
       IN  IF map.duplicate \/ missing
           THEN stage' = "refused" /\ UNCHANGED addresses
           ELSE stage' = "check" /\ addresses' = map.at
    /\ UNCHANGED <<files, tokens, symbols, nodes, code>>

----------------------------------------------------------------------------
(***************************************************************************)
(* The checker and the emitter, each with its own names of the registers.  *)
(***************************************************************************)
CheckerRegisters == ToSet(General) \union SpecialRegisters \union {"pc"}

EmitterRegisters ==
    [r \in ToSet(General) \union SpecialRegisters \union {"cp"} |->
        CASE r = "idt" -> 250 [] r = "ir" -> 251 [] r = "sp" -> 252 [] r = "bp" -> 253
          [] r = "cp" -> 254 [] r = "cs" -> 255
          [] OTHER -> (CHOOSE k \in DOMAIN General : General[k] = r) - 1]

\* The mutant of checked_kinds: one kind is forgotten.
slip_checked_kinds == {"IR", "IRR", "IRRR"}

\* The kinds of instruction whose registers the checker looks at.
checked_kinds == {"IR", "IRR", "IRRR", "IRW"}

Check ==
    /\ stage = "check"
    /\ stage' = IF \A i \in instructions(nodes) :
                      i.kind \in checked_kinds => ToSet(i.r) \subseteq CheckerRegisters
                THEN "emit" ELSE "refused"
    /\ UNCHANGED <<files, tokens, symbols, nodes, addresses, code>>

\* decode_register and decode_address unwrap what they find.
decodes(i) ==
    /\ ToSet(i.r) \subseteq DOMAIN EmitterRegisters
    /\ ToSet(i.a) \subseteq DOMAIN addresses

\* The word of the opcode and, unless it is a byte, the value or the address.
words(i, base, at) ==
    LET bytes == IF i.kind = "IB" THEN i.w
                 ELSE [k \in DOMAIN i.r |-> EmitterRegisters[i.r[k]]]
        head == [k \in 1..4 |-> IF k = 1 THEN bytecode[i.op]
                                ELSE IF k - 1 \in DOMAIN bytes THEN bytes[k - 1] ELSE 0]
    IN  <<head>>
        \o (IF i.kind # "IB" /\ i.w # <<>> THEN << <<i.w[1]>> >> ELSE <<>>)
        \o (IF i.a # <<>>
            THEN << <<(IF i.absolute THEN base ELSE 0) + at[i.a[1]]>> >>
            ELSE <<>>)

\* What a node adds: #base counts from where it stands.
emit(out, node, at) ==
    CASE node.kind = "Base" -> [out EXCEPT !.base = node.value]
      [] node.kind = "Word" -> [out EXCEPT !.words = Append(@, <<node.value>>)]
      [] node.kind = "Instruction" -> [out EXCEPT !.words = @ \o words(node.i, out.base, at)]
      [] OTHER -> out

\* Emitter::emit
emitted(ns, at) ==
    FoldLeft(LAMBDA out, node : emit(out, node, at), [words |-> <<>>, base |-> 0], ns)

Emit ==
    /\ stage = "emit"
    /\ IF \A i \in instructions(nodes) : decodes(i)
       THEN stage' = "done" /\ code' = emitted(nodes, addresses).words
       ELSE stage' = "panicked" /\ UNCHANGED code
    /\ UNCHANGED <<files, tokens, symbols, nodes, addresses>>

----------------------------------------------------------------------------
Init ==
    /\ stage = "parse" /\ files \in Inputs
    /\ tokens = <<>> /\ symbols = NoMap /\ nodes = <<>>
    /\ addresses = NoMap /\ code = <<>>

Next ==
    \/ SkipEol \/ parse_variable \/ ParseLabel \/ parse_directive
    \/ parse_instruction \/ Unexpected \/ EndFile
    \/ Resolve \/ Check \/ Emit

Spec == Init /\ [][Next]_vars

----------------------------------------------------------------------------
(***************************************************************************)
(* Properties.                                                             *)
(***************************************************************************)
TypeOK ==
    /\ stage \in {"parse", "resolve", "check", "emit", "done", "refused", "panicked"}
    /\ stage \notin {"parse", "refused"} => files = <<>> /\ tokens = <<>>
    /\ \A k \in DOMAIN nodes : nodes[k].kind \in {"Label", "Base", "Word", "Instruction"}
    /\ \A i \in instructions(nodes) : i.op \in Ops
    \* a word of an image is four bytes, or one value
    /\ \A k \in DOMAIN code : \/ Len(code[k]) = 1 /\ code[k][1] \in Nat
                              \/ Len(code[k]) = 4 /\ ToSet(code[k]) \subseteq 0..255

\* A statement takes its own line and nothing of the next, though every alternative
\* of its mnemonic is tried on what the one before it left.  One line may be lost, and
\* no error is reported: operands that stand alone below a statement another
\* alternative has found, when that reads them up to a variable it does not know.
OneLineEach ==
    [][nodes' # nodes =>
          \E n \in 1..(Len(tokens) - Len(tokens')) :
              LET line == first(n, tokens)
                  more == SubSeq(tokens, n + 1, Len(tokens) - Len(tokens'))
              IN  /\ \A k \in DOMAIN line : line[k] = <<"Eol">> <=> k = n
                  /\ more # <<>> => /\ Head(more)[1] \in {"Identifier", "Variable"}
                                    /\ unknown(more) = {Len(more)}]_vars

\* What the emitter has before a node, and where the bytes of the node are.
before(k) == emitted(SubSeq(nodes, 1, k - 1), addresses)
start(k) == WORD_SIZE * Len(before(k).words)

\* The resolver counts with the lengths of op.rs, the emitter writes bytes: the
\* address of every label is where what follows it was written.
LabelsExact ==
    stage = "done" =>
        \A k \in DOMAIN nodes :
            nodes[k].kind \in {"Label", "Word"} => addresses[nodes[k].name] = start(k)

\* What the processor takes from the image at an instruction is that instruction:
\* its function, its registers, its immediate (relative to the base, the place of
\* its label), and it goes on at the next node.
FetchesAll ==
    stage = "done" =>
        \A k \in {n \in DOMAIN nodes : nodes[n].kind = "Instruction"} :
            LET i == nodes[k].i
                f == fetched(code, start(k))
                base == IF i.absolute THEN before(k).base ELSE 0
            IN  /\ f.op = i.op /\ f.pc = start(k + 1)
                /\ i.r # <<>> => f.bytes = [n \in DOMAIN i.r |-> EmitterRegisters[i.r[n]]]
                /\ i.op[2] = B => f.bytes = i.w
                /\ i.kind \in {"IRW", "IRRW", "IW"} => f.word = i.w
                /\ i.a # <<>> =>
                      \E l \in DOMAIN nodes : /\ nodes[l].kind \in {"Label", "Word"}
                                              /\ nodes[l].name = i.a[1]
                                              /\ f.word[1] - base = start(l)

\* What the resolver and the checker accept is emitted, but for what neither looks
\* at: the labels of an instruction with a register, the registers of two kinds of
\* instruction, and pc, which the emitter calls cp.
OnlyKnownPanics ==
    stage = "panicked" =>
        \E i \in instructions(nodes) :
            \/ i.kind \in {"IRA", "IRRW"} /\ ~decodes(i)
            \/ "pc" \in ToSet(i.r)
=============================================================================
