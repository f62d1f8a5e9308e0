--------------------------- MODULE AssemblerProof ---------------------------
(***************************************************************************)
(* Proofs about module Assembler: what the parser makes of any tokens, the *)
(* panics that are left, and that the labels are where their code is.      *)
(***************************************************************************)
EXTENDS Assembler, FoldProof

(***************************************************************************)
(* What the parser makes.                                                  *)
(***************************************************************************)
Maps == UNION {[D -> Nat] : D \in SUBSET STRING}

\* The kinds of instruction, with the forms they stand for and how many registers,
\* numbers and addresses they have.
Shapes ==
    {<<"I", None, 0, 0, 0>>, <<"IB", B, 0, 1, 0>>, <<"IB", None, 0, 1, 0>>,
     <<"IR", R, 1, 0, 0>>, <<"IRR", RR, 2, 0, 0>>, <<"IRRR", RRR, 3, 0, 0>>,
     <<"IRW", RW, 1, 1, 0>>, <<"IRRW", RRW, 2, 1, 0>>, <<"IW", W, 0, 1, 0>>,
     <<"IA", A, 0, 0, 1>>, <<"IA", S, 0, 0, 1>>, <<"IRA", RW, 1, 0, 1>>}

Kinds == {"I", "IB", "IR", "IRR", "IRRR", "IRW", "IRRW", "IW", "IA", "IRA"}

Instruction ==
    {i \in [kind : Kinds, op : Ops, r : Seq(STRING), w : Seq(Nat), a : Seq(STRING),
            absolute : BOOLEAN] :
        <<i.kind, i.op[2], Len(i.r), Len(i.w), Len(i.a)>> \in Shapes /\ in_range(i)}

Node ==
    [kind : {"Label"}, name : STRING] \union [kind : {"Base"}, value : Nat]
    \union [kind : {"Word"}, name : STRING, value : Nat]
    \union [kind : {"Instruction"}, i : Instruction]

Result == [found : Seq(Instruction), rest : Seq(Token)]

LEMMA SeqFacts ==
    ASSUME NEW T, NEW s \in Seq(T)
    PROVE  Len(s) \in Nat /\ DOMAIN s = 1 .. Len(s) /\ \A k \in DOMAIN s : s[k] \in T
OBVIOUS

LEMMA SeqMade ==
    ASSUME NEW T, NEW n \in Nat, NEW s \in [1 .. n -> T]
    PROVE  s \in Seq(T) /\ Len(s) = n
OBVIOUS

LEMMA LenOne ==
    ASSUME NEW T, NEW s \in Seq(T), Len(s) = 1
    PROVE  DOMAIN s = {1} /\ s # <<>> /\ s[1] \in T
OBVIOUS

LEMMA SubSeqFacts ==
    ASSUME NEW T, NEW s \in Seq(T), NEW m \in 0 .. Len(s), NEW n \in 0 .. Len(s), m <= n
    PROVE  LET u == SubSeq(s, m + 1, n)
           IN  /\ u \in Seq(T) /\ Len(u) = n - m
               /\ \A k \in 1 .. n - m : u[k] = s[m + k]
OBVIOUS

LEMMA AfterTokens ==
    ASSUME NEW s \in Seq(Token), NEW m \in 0 .. Len(s)
    PROVE  LET u == SubSeq(s, m + 1, Len(s))
           IN  /\ u \in Seq(Token) /\ Len(u) = Len(s) - m
               /\ \A k \in 1 .. Len(s) - m : u[k] = s[m + k]
BY SubSeqFacts

LEMMA PutTyped ==
    ASSUME NEW map \in Maps, NEW name \in STRING, NEW value \in Nat
    PROVE  put(map, name, value) \in Maps
<1> PICK D \in SUBSET STRING : map \in [D -> Nat]
  BY DEF Maps
<1>1. put(map, name, value) \in [D \union {name} -> Nat]
  BY DEF put
<1>2. D \union {name} \in SUBSET STRING
  OBVIOUS
<1> QED
  BY <1>1, <1>2 DEF Maps

\* A token's kind and what its value is.
LEMMA TokenKinds ==
    ASSUME NEW t \in Token
    PROVE  /\ t[1] = "Integer" => t[2] \in Nat
           /\ t[1] \in {"Op", "Identifier", "Variable", "Absolute", "Segment", "Label",
                        "Directive", "Section"} => t[2] \in STRING
BY DEF Token

\* What an alternative's places point at, and the shape of what it makes.
Fits(form, as) ==
    /\ Len(as.pattern) \in Nat /\ DOMAIN as.pattern = 1 .. Len(as.pattern)
    /\ as.r \in Seq(DOMAIN as.pattern) /\ as.w \in Seq(DOMAIN as.pattern)
    /\ as.a \in Seq(DOMAIN as.pattern)
    /\ \A k \in DOMAIN as.r : as.pattern[as.r[k]] = Register
    /\ \A k \in DOMAIN as.w : as.pattern[as.w[k]] \subseteq Word
    /\ \A k \in DOMAIN as.a : as.pattern[as.a[k]] \subseteq {"Absolute", "Segment"}
    /\ as.kind \in Kinds
    /\ <<as.kind, form, Len(as.r), Len(as.w), Len(as.a)>> \in Shapes

Offered ==
    {<<None, op_void>>, <<None, op_b>>, <<B, op_b>>, <<R, op_r>>, <<RR, op_rr>>,
     <<RRR, op_rrr>>, <<RW, op_rw>>, <<RW, op_wr>>, <<RW, op_raa>>, <<RW, op_ras>>,
     <<RW, op_aar>>, <<RRW, op_ro>>, <<W, op_w>>, <<A, op_aa>>, <<S, op_as>>}

LEMMA ChoiceFits == \A choice \in Offered : Fits(choice[1], choice[2])
<1> USE DEF Fits, Kinds, Shapes, Register, Word, Comma, Eol
<1>1. Fits(None, op_void)
  BY DEF op_void
<1>2. Fits(None, op_b) /\ Fits(B, op_b)
  BY DEF op_b, parse_w
<1>3. Fits(R, op_r)
  BY DEF op_r, parse_r
<1>4. Fits(RR, op_rr)
  BY DEF op_rr, parse_rr
<1>5. Fits(RRR, op_rrr)
  BY DEF op_rrr, parse_rrr
<1>6. Fits(RW, op_rw)
  BY DEF op_rw, parse_rw
<1>7. Fits(RW, op_wr)
  BY DEF op_wr, parse_wr
<1>8. Fits(RW, op_raa)
  BY DEF op_raa, parse_raa
<1>9. Fits(RW, op_ras)
  BY DEF op_ras, parse_ras
<1>10. Fits(RW, op_aar)
  BY DEF op_aar, parse_aar
<1>11. Fits(RRW, op_ro)
  BY DEF op_ro, parse_ro
<1>12. Fits(W, op_w)
  BY DEF op_w, parse_w
<1>13. Fits(A, op_aa)
  BY DEF op_aa, parse_aa
<1>14. Fits(S, op_as)
  BY DEF op_as, parse_as
<1> HIDE DEF Fits
<1> QED
  BY <1>1, <1>2, <1>3, <1>4, <1>5, <1>6, <1>7, <1>8, <1>9, <1>10, <1>11, <1>12, <1>13,
     <1>14 DEF Offered

\* What the table of the parser gives for a name.
LEMMA AlternativesTyped ==
    ASSUME NEW name \in STRING
    PROVE  /\ alternatives(name) \in Seq(Offered)
           /\ \A k \in DOMAIN alternatives(name) : <<name, alternatives(name)[k][1]>> \in Ops
<1>1. alternatives(name) \in Seq(Offered)
  <2>1. /\ {<<None, op_void>>, <<None, op_b>>, <<B, op_b>>, <<R, op_r>>, <<RR, op_rr>>}
               \subseteq Offered
        /\ {<<RRR, op_rrr>>, <<RW, op_rw>>, <<RW, op_wr>>, <<RW, op_raa>>, <<RW, op_ras>>}
               \subseteq Offered
        /\ {<<RW, op_aar>>, <<RRW, op_ro>>, <<W, op_w>>, <<A, op_aa>>, <<S, op_as>>}
               \subseteq Offered
    BY DEF Offered
  <2>2. CASE name \in Binary
    BY <2>1, <2>2 DEF alternatives, Binary
  <2>3. CASE name \in Bare
    BY <2>1, <2>3 DEF alternatives, Binary, Bare
  <2>4. CASE name \in {"DEC", "INC", "J", "JEQ", "JNE", "CALL"}
    BY <2>1, <2>4 DEF alternatives, Binary
  <2>5. CASE name \in {"LOAD", "MOV", "STOR"}
    BY <2>1, <2>5 DEF alternatives, Binary
  <2>6. CASE name \in {"POP", "PUSH", "INT", "MI", "UMI", "XBM"}
    BY <2>1, <2>6 DEF alternatives, Binary
  <2>7. CASE name \notin Mnemonics
    BY <2>7 DEF alternatives, Mnemonics
  <2> QED
    BY <2>2, <2>3, <2>4, <2>5, <2>6, <2>7 DEF Mnemonics
<1>2. CASE name \in Mnemonics
  BY <1>1, <1>2, OpAssumption, Zenon
<1>3. CASE name \notin Mnemonics
  <2>1. alternatives(name) = <<>>
    BY <1>3 DEF alternatives, Mnemonics
  <2>2. DOMAIN alternatives(name) = {}
    BY <2>1
  <2> QED
    BY <1>1, <2>2, Zenon
<1> QED
  BY <1>2, <1>3, Zenon

\* The instruction an alternative makes of tokens it expects, of known variables.
LEMMA BuiltTyped ==
    ASSUME symbols \in Maps, NEW o \in Ops, NEW as, Fits(o[2], as), NEW ts \in Seq(Token),
           Len(ts) = Len(as.pattern),
           \A k \in DOMAIN as.pattern : ts[k][1] \in as.pattern[k],
           unknown(ts) = {}
    PROVE  LET i == built(o, as, ts)
           IN  /\ in_range(i) => i \in Instruction
               /\ i.op = o
<1> DEFINE i == built(o, as, ts)
           rs == [k \in DOMAIN as.r |-> ts[as.r[k]][2]]
           ws == [k \in DOMAIN as.w |-> number(ts[as.w[k]])]
           ads == [k \in DOMAIN as.a |-> ts[as.a[k]][2]]
           flag == \E k \in DOMAIN as.a : ts[as.a[k]][1] = "Absolute"
<1>0. DOMAIN ts = DOMAIN as.pattern /\ \A k \in DOMAIN ts : ts[k] \in Token
  BY SeqFacts DEF Fits
<1>1. rs \in Seq(STRING) /\ Len(rs) = Len(as.r)
  <2>1. ASSUME NEW k \in DOMAIN as.r PROVE ts[as.r[k]][2] \in STRING
    <3>0. as.r[k] \in DOMAIN as.pattern
      BY SeqFacts DEF Fits
    <3>1. as.r[k] \in DOMAIN as.pattern /\ ts[as.r[k]][1] = "Identifier"
      BY <3>0 DEF Fits, Register
    <3> QED
      BY <1>0, <3>1, TokenKinds
  <2>2. Len(as.r) \in Nat /\ DOMAIN as.r = 1 .. Len(as.r)
    BY SeqFacts DEF Fits
  <2>3. rs \in [1 .. Len(as.r) -> STRING]
    BY <2>1, <2>2
  <2> HIDE DEF rs
  <2> QED
    BY <2>2, <2>3, SeqMade
<1>2. ws \in Seq(Nat) /\ Len(ws) = Len(as.w)
  <2>1. ASSUME NEW k \in DOMAIN as.w PROVE number(ts[as.w[k]]) \in Nat
    <3>0. as.w[k] \in DOMAIN as.pattern
      BY SeqFacts DEF Fits
    <3>1. as.w[k] \in DOMAIN as.pattern /\ ts[as.w[k]][1] \in {"Integer", "Variable"}
      <4>1. as.pattern[as.w[k]] \subseteq Word
        BY DEF Fits
      <4>2. ts[as.w[k]][1] \in as.pattern[as.w[k]]
        BY <3>0
      <4> QED
        BY <3>0, <4>1, <4>2 DEF Word
    <3> DEFINE t == ts[as.w[k]]
    <3>2. t \in Token
      BY <1>0, <3>1
    <3>3. t[1] = "Variable" => t[2] \in DOMAIN symbols
      BY <1>0, <3>1 DEF unknown
    <3>4. \A n \in DOMAIN symbols : symbols[n] \in Nat
      BY DEF Maps
    <3> HIDE DEF t
    <3>5. number(t) \in Nat
      BY <3>1, <3>2, <3>3, <3>4, TokenKinds DEF number, t
    <3> QED
      BY <3>5 DEF t
  <2>2. Len(as.w) \in Nat /\ DOMAIN as.w = 1 .. Len(as.w)
    BY SeqFacts DEF Fits
  <2>3. ws \in [1 .. Len(as.w) -> Nat]
    BY <2>1, <2>2
  <2> HIDE DEF ws
  <2> QED
    BY <2>2, <2>3, SeqMade
<1>3. ads \in Seq(STRING) /\ Len(ads) = Len(as.a)
  <2>1. ASSUME NEW k \in DOMAIN as.a PROVE ts[as.a[k]][2] \in STRING
    <3>0. as.a[k] \in DOMAIN as.pattern
      BY SeqFacts DEF Fits
    <3>1. as.a[k] \in DOMAIN as.pattern /\ ts[as.a[k]][1] \in {"Absolute", "Segment"}
      BY <3>0 DEF Fits
    <3> QED
      BY <1>0, <3>1, TokenKinds
  <2>2. Len(as.a) \in Nat /\ DOMAIN as.a = 1 .. Len(as.a)
    BY SeqFacts DEF Fits
  <2>3. ads \in [1 .. Len(as.a) -> STRING]
    BY <2>1, <2>2
  <2> HIDE DEF ads
  <2> QED
    BY <2>2, <2>3, SeqMade
<1>4. flag \in BOOLEAN
  BY Zenon
<1>5. i = [kind |-> as.kind, op |-> o, r |-> rs, w |-> ws, a |-> ads, absolute |-> flag]
  BY Zenon DEF built
<1> HIDE DEF i, rs, ws, ads, flag
<1>6. as.kind \in Kinds /\ <<as.kind, o[2], Len(rs), Len(ws), Len(ads)>> \in Shapes
  BY <1>1, <1>2, <1>3 DEF Fits
<1>7. i \in [kind : Kinds, op : Ops, r : Seq(STRING), w : Seq(Nat), a : Seq(STRING),
             absolute : BOOLEAN]
  BY <1>1, <1>2, <1>3, <1>4, <1>5, <1>6
<1>8. /\ i.kind = as.kind /\ i.op = o /\ i.r = rs /\ i.w = ws /\ i.a = ads
  BY <1>5
<1>9. <<i.kind, i.op[2], Len(i.r), Len(i.w), Len(i.a)>> \in Shapes
  BY <1>6, <1>8, Zenon
<1>10. in_range(i) => i \in Instruction
  BY <1>7, <1>9 DEF Instruction
<1> QED
  BY <1>8, <1>10 DEF i

LEMMA UnknownLast ==
    ASSUME NEW ts \in Seq(Token), unknown(ts) # {}
    PROVE  Max(unknown(ts)) \in 1 .. Len(ts)
<1>1. Len(ts) \in Nat /\ unknown(ts) \in SUBSET (1 .. Len(ts))
  BY SeqFacts DEF unknown
<1>2. Max(unknown(ts)) \in unknown(ts)
  BY <1>1, MaxIsElement
<1> QED
  BY <1>1, <1>2

LEMMA TriedTyped ==
    ASSUME symbols \in Maps, NEW result \in Result, NEW name, NEW choice \in Offered,
           <<name, choice[1]>> \in Ops
    PROVE  tried(result, name, choice[1], choice[2]) \in Result
<1> DEFINE as == choice[2]
           n == Len(as.pattern)
           rest == result.rest
           ts == first(n, rest)
           o == <<name, choice[1]>>
           i == built(o, as, ts)
<1>1. Fits(choice[1], as)
  BY ChoiceFits
<1>2. rest \in Seq(Token) /\ result.found \in Seq(Instruction) /\ n \in Nat
  BY <1>1 DEF Result, Fits
<1>3. \A m \in Nat : after(m, rest) \in Seq(Token)
  BY <1>2 DEF after
<1>4. CASE ~ peeked(as.pattern, rest)
  BY <1>4, Zenon DEF tried
<1>5. CASE peeked(as.pattern, rest) /\ unknown(ts) # {}
  <2>1. ts \in Seq(Token)
    BY <1>2 DEF first
  <2>2. Max(unknown(ts)) \in Nat
    BY <1>5, <2>1, UnknownLast
  <2>3. tried(result, name, choice[1], choice[2])
           = [result EXCEPT !.rest = after(Max(unknown(ts)), @)]
    BY <1>5, Zenon DEF tried
  <2> HIDE DEF ts
  <2> QED
    BY <1>2, <1>3, <2>2, <2>3 DEF Result
<1>6. CASE peeked(as.pattern, rest) /\ unknown(ts) = {}
  <2>1. /\ ts \in Seq(Token) /\ Len(ts) = n
        /\ \A k \in DOMAIN as.pattern : ts[k][1] \in as.pattern[k]
    <3>1. n <= Len(rest) /\ Len(rest) \in Nat
      BY <1>2, <1>6 DEF peeked
    <3>2. ts = SubSeq(rest, 1, n)
      BY <1>2, <3>1 DEF first
    <3>3. ts \in Seq(Token) /\ Len(ts) = n /\ \A k \in 1 .. n : ts[k] = rest[k]
      BY <1>2, <3>1, <3>2
    <3>4. \A k \in DOMAIN as.pattern : k \in 1 .. n /\ rest[k][1] \in as.pattern[k]
      BY <1>1, <1>6 DEF peeked, Fits
    <3> QED
      BY <3>3, <3>4, Zenon
  <2>2. in_range(i) => i \in Instruction
    <3> HIDE DEF ts, as
    <3>1. o \in Ops /\ Fits(o[2], as)
      BY <1>1
    <3>2. unknown(ts) = {}
      BY <1>6
    <3> HIDE DEF o
    <3> QED
      BY <2>1, <3>1, <3>2, BuiltTyped
  <2>3. tried(result, name, choice[1], choice[2])
           = [found |-> IF in_range(i) THEN Append(result.found, i) ELSE result.found,
              rest |-> after(n, rest)]
    BY <1>6, Zenon DEF tried
  <2> HIDE DEF i, ts, n
  <2>4. (IF in_range(i) THEN Append(result.found, i) ELSE result.found) \in Seq(Instruction)
    BY <1>2, <2>2
  <2> QED
    BY <1>2, <1>3, <2>3, <2>4 DEF Result
<1> QED
  BY <1>4, <1>5, <1>6

\* What parse_op has after each alternative.
ParseRun(h, name, ts) ==
    LET alts == alternatives(name)
    IN  /\ h \in [0 .. Len(alts) -> Result]
        /\ h[0] = [found |-> <<>>, rest |-> ts]
        /\ \A k \in 1 .. Len(alts) : h[k] = tried(h[k - 1], name, alts[k][1], alts[k][2])
        /\ parse_op(name, ts) = h[Len(alts)]

LEMMA ParseOpTrace ==
    ASSUME symbols \in Maps, NEW name \in STRING, NEW ts \in Seq(Token)
    PROVE  \E h : ParseRun(h, name, ts)
<1> DEFINE alts == alternatives(name)
           n == Len(alts)
           base == [found |-> <<>>, rest |-> ts]
           step(result, k) == tried(result, name, alts[k][1], alts[k][2])
           Folds(g) == g = [T \in SUBSET DOMAIN alts |->
                              IF T = {} THEN base ELSE step(g[T \ {Max(T)}], Max(T))]
<1>1. parse_op(name, ts) = (CHOOSE g : Folds(g))[DOMAIN alts]
  BY Zenon DEF parse_op, FoldLeft, MapThenFoldSet
<1>2. n \in Nat /\ DOMAIN alts = 1 .. n /\ \A k \in 1 .. n : /\ alts[k] \in Offered
                                                            /\ <<name, alts[k][1]>> \in Ops
  BY AlternativesTyped, SeqFacts
<1>3. \A r \in Result : \A k \in 1 .. n : step(r, k) \in Result
  BY <1>2, TriedTyped
<1>4. base \in Result
  BY DEF Result
<1> DEFINE F == [a \in Result \X (1 .. n) |-> step(a[1], a[2])]
<1> HIDE DEF alts, n, base
<1>5. F \in [Result \X (1 .. n) -> Result]
  BY <1>3
<1>6. \A r \in Result, k \in 1 .. n : F[<<r, k>>] = step(r, k)
  OBVIOUS
<1> HIDE DEF F, step
<1>7. PICK f \in [SUBSET (1 .. n) -> Result] : Folded(f, base, n, F)
  BY <1>2, <1>4, <1>5, FoldExists
<1>8. ASSUME NEW T \in SUBSET (1 .. n), T # {}
      PROVE  F[<<f[T \ {Max(T)}], Max(T)>>] = step(f[T \ {Max(T)}], Max(T))
  <2>1. Max(T) \in 1 .. n /\ f[T \ {Max(T)}] \in Result
    BY <1>2, <1>8, MaxIsElement
  <2> QED
    BY <1>6, <2>1
<1>9. Folds(f)
  BY <1>2, <1>7, <1>8, Zenon DEF Folded
<1>10. PICK g : Folds(g) /\ parse_op(name, ts) = g[1 .. n]
  BY <1>1, <1>2, <1>9
<1>11. g[{}] = base
  BY <1>10
<1>12. \A T \in SUBSET (1 .. n) :
          T # {} /\ g[T \ {Max(T)}] \in Result => g[T] = F[<<g[T \ {Max(T)}], Max(T)>>]
  <2> SUFFICES ASSUME NEW T \in SUBSET (1 .. n), T # {}, g[T \ {Max(T)}] \in Result
               PROVE  g[T] = F[<<g[T \ {Max(T)}], Max(T)>>]
    BY Zenon
  <2>1. g[T] = step(g[T \ {Max(T)}], Max(T)) /\ Max(T) \in 1 .. n
    BY <1>2, <1>10, MaxIsElement
  <2> QED
    BY <1>6, <2>1
<1>13. PICK h \in [0 .. n -> Result] : Runs(h, base, n, F, g[1 .. n])
  <2>1. Steps(g, Result, base, n, F)
    BY <1>11, <1>12, Zenon DEF Steps
  <2> QED
    BY <1>2, <1>4, <1>5, <2>1, FoldRun
<1>14. ASSUME NEW k \in 1 .. n PROVE h[k] = step(h[k - 1], k)
  <2>1. h[k - 1] \in Result
    BY <1>2, <1>13
  <2> QED
    BY <1>6, <1>13, <2>1 DEF Runs
<1> QED
  BY <1>10, <1>13, <1>14, Zenon DEF Runs, ParseRun, alts, n, base, step

LEMMA ParseOpTyped ==
    ASSUME symbols \in Maps, NEW name \in STRING, NEW ts \in Seq(Token)
    PROVE  parse_op(name, ts) \in Result
<1>1. PICK h : ParseRun(h, name, ts)
  BY ParseOpTrace
<1> DEFINE n == Len(alternatives(name))
<1>2. n \in Nat
  BY AlternativesTyped, SeqFacts
<1> HIDE DEF n
<1>3. n \in 0 .. n
  BY <1>2
<1> QED
  BY <1>1, <1>3 DEF ParseRun, n

Stages == {"parse", "resolve", "check", "emit", "done", "refused", "panicked"}

\* What the parser has read is what a lexer gives, and what it has made is typed.
ParserInv ==
    /\ stage \in Stages
    /\ files \in Seq(Seq(Token)) /\ tokens \in Seq(Token)
    /\ symbols \in Maps /\ nodes \in Seq(Node)
    /\ stage \notin {"parse", "refused"} => files = <<>> /\ tokens = <<>>

LEMMA Peeks ==
    ASSUME NEW ts \in Seq(Token)
    PROVE  /\ \A n \in Nat : after(n, ts) \in Seq(Token)
           /\ peek(ts) # "None" => /\ ts # <<>> /\ ts[1] \in Token /\ ts[1][1] = peek(ts)
                                   /\ Tail(ts) \in Seq(Token)
BY DEF after, peek

LEMMA NodeTyped ==
    /\ \A name \in STRING : [kind |-> "Label", name |-> name] \in Node
    /\ \A value \in Nat : [kind |-> "Base", value |-> value] \in Node
    /\ \A name \in STRING, value \in Nat :
          [kind |-> "Word", name |-> name, value |-> value] \in Node
    /\ \A i \in Instruction : [kind |-> "Instruction", i |-> i] \in Node
    /\ <<>> \in Seq(Node) /\ \A node \in Node : <<node>> \in Seq(Node)
BY DEF Node

\* A statement that is read leaves tokens and makes a node.
LEMMA ParsedInv ==
    ASSUME ParserInv, Parsing, NEW node \in Seq(Node), NEW rest \in Seq(Token),
           Parsed(node, rest)
    PROVE  ParserInv'
<1>1. CASE node = <<>>
  BY <1>1 DEF Parsed, SyntaxError, ParserInv, Stages, Parsing
<1>2. CASE node # <<>>
  <2>1. nodes \o node \in Seq(Node)
    BY DEF ParserInv
  <2> QED
    BY <1>2, <2>1 DEF Parsed, ParserInv, Parsing
<1> QED
  BY <1>1, <1>2

LEMMA SyntaxErrorInv == ParserInv /\ SyntaxError => ParserInv'
BY DEF SyntaxError, ParserInv, Stages

LEMMA VariableInv == ParserInv /\ parse_variable => ParserInv'
<1> SUFFICES ASSUME ParserInv, parse_variable PROVE ParserInv'
  OBVIOUS
<1> DEFINE found == /\ peek(Tail(tokens)) = "Equal"
                    /\ peek(after(2, tokens)) = "Integer"
<1>1. CASE ~ found
  BY <1>1, SyntaxErrorInv DEF parse_variable
<1>2. CASE found
  <2>1. symbols' = put(symbols, tokens[1][2], tokens[3][2]) /\ tokens' = after(3, tokens)
        /\ UNCHANGED <<stage, files, nodes, addresses, code>>
    BY <1>2 DEF parse_variable
  <2>2. tokens[1][2] \in STRING /\ tokens' \in Seq(Token)
    BY <2>1, Peeks, TokenKinds DEF parse_variable, ParserInv
  <2>3. tokens[3][2] \in Nat
    <3>1. after(2, tokens)[1] = tokens[3] /\ after(2, tokens)[1] \in Token
          /\ tokens[3][1] = "Integer"
      BY <1>2, Peeks DEF after, peek, ParserInv
    <3> QED
      BY <3>1, TokenKinds
  <2>4. symbols' \in Maps
    BY <2>1, <2>2, <2>3, PutTyped DEF ParserInv
  <2> QED
    BY <2>1, <2>2, <2>4 DEF ParserInv, parse_variable, Parsing
<1> QED
  BY <1>1, <1>2

LEMMA LabelInv == ParserInv /\ ParseLabel => ParserInv'
<1> SUFFICES ASSUME ParserInv, ParseLabel PROVE ParserInv'
  OBVIOUS
<1> DEFINE node == IF peek(Tail(tokens)) = "Eol"
                   THEN << [kind |-> "Label", name |-> tokens[1][2]] >> ELSE <<>>
<1>1. tokens[1][2] \in STRING /\ after(2, tokens) \in Seq(Token)
  BY Peeks, TokenKinds DEF ParseLabel, ParserInv
<1>2. node \in Seq(Node)
  BY <1>1, NodeTyped
<1>3. Parsed(node, after(2, tokens)) /\ Parsing
  BY Zenon DEF ParseLabel
<1> HIDE DEF node
<1> QED
  BY <1>1, <1>2, <1>3, ParsedInv

LEMMA DirectiveInv == ParserInv /\ parse_directive => ParserInv'
<1> SUFFICES ASSUME ParserInv, parse_directive PROVE ParserInv'
  OBVIOUS
<1> DEFINE base == /\ tokens[1][2] = "base" /\ peeked(<<Word, Eol>>, Tail(tokens))
                   /\ unknown(first(2, tokens)) = {}
           word == /\ tokens[1][2] = "word"
                   /\ peeked(<<Register, {"Integer"}, Eol>>, Tail(tokens))
           baseNode == [kind |-> "Base", value |-> number(tokens[2])]
           wordNode == [kind |-> "Word", name |-> tokens[2][2], value |-> tokens[3][2]]
           node == IF base THEN <<baseNode>> ELSE IF word THEN <<wordNode>> ELSE <<>>
           rest == after(IF base THEN 3 ELSE 4, tokens)
<1>1. Parsed(node, rest) /\ Parsing
  BY Zenon DEF parse_directive
<1>2. rest \in Seq(Token)
  BY Peeks DEF ParserInv
<1>3. tokens \in Seq(Token) /\ tokens # <<>>
  BY Peeks DEF parse_directive, ParserInv
<1>4. base => baseNode \in Node
  <2> SUFFICES ASSUME base PROVE baseNode \in Node
    OBVIOUS
  <2>1. tokens[2][1] \in {"Integer", "Variable"} /\ Len(tokens) >= 2 /\ tokens[2] \in Token
    BY <1>3 DEF peeked, Word
  <2>2. first(2, tokens) = SubSeq(tokens, 1, 2)
    BY <1>3, <2>1 DEF first
  <2>3. 2 \in DOMAIN first(2, tokens) /\ first(2, tokens)[2] = tokens[2]
    BY <1>3, <2>1, <2>2
  <2>4. tokens[2][1] = "Variable" => tokens[2][2] \in DOMAIN symbols
    BY <2>3 DEF unknown
  <2>5. \A n \in DOMAIN symbols : symbols[n] \in Nat
    BY DEF ParserInv, Maps
  <2>6. number(tokens[2]) \in Nat
    BY <2>1, <2>4, <2>5, TokenKinds DEF number
  <2> QED
    BY <2>6, NodeTyped
<1>5. word => wordNode \in Node
  <2> SUFFICES ASSUME word PROVE wordNode \in Node
    OBVIOUS
  <2>1. /\ tokens[2][1] = "Identifier" /\ tokens[2] \in Token
        /\ tokens[3][1] = "Integer" /\ tokens[3] \in Token
    BY <1>3 DEF peeked, Register
  <2>2. tokens[2][2] \in STRING /\ tokens[3][2] \in Nat
    BY <2>1, TokenKinds
  <2> QED
    BY <2>2, NodeTyped
<1> HIDE DEF base, word, baseNode, wordNode
<1>6. node \in Seq(Node)
  BY <1>4, <1>5, NodeTyped
<1> HIDE DEF node, rest
<1> QED
  BY <1>1, <1>2, <1>6, ParsedInv

LEMMA InstructionInv == ParserInv /\ parse_instruction => ParserInv'
<1> SUFFICES ASSUME ParserInv, parse_instruction PROVE ParserInv'
  OBVIOUS
<1> DEFINE result == parse_op(tokens[1][2], Tail(tokens))
           node == IF Len(result.found) = 1
                   THEN << [kind |-> "Instruction", i |-> result.found[1]] >> ELSE <<>>
<1>1. Parsed(node, result.rest) /\ Parsing
  BY Zenon DEF parse_instruction
<1>2. tokens[1][2] \in STRING /\ Tail(tokens) \in Seq(Token)
  BY Peeks, TokenKinds DEF parse_instruction, ParserInv
<1>3. result \in Result
  BY <1>2, ParseOpTyped DEF ParserInv
<1> HIDE DEF result
<1>4. result.rest \in Seq(Token) /\ result.found \in Seq(Instruction)
  BY <1>3 DEF Result
<1>5. node \in Seq(Node)
  <2>1. Len(result.found) = 1 => result.found[1] \in Instruction
    BY <1>4
  <2> QED
    BY <2>1, NodeTyped
<1> HIDE DEF node
<1> QED
  BY <1>1, <1>4, <1>5, ParsedInv

LEMMA InitParser == Init => ParserInv
<1> SUFFICES ASSUME Init PROVE ParserInv
  OBVIOUS
<1>1. files \in Seq(Seq(Token))
  BY InputAssumption DEF Init
<1>2. symbols \in [{} -> Nat]
  BY DEF Init, NoMap
<1>3. symbols \in Maps
  BY <1>2 DEF Maps
<1> QED
  BY <1>1, <1>3 DEF Init, ParserInv, Stages

LEMMA StepParser == ParserInv /\ [Next]_vars => ParserInv'
<1> SUFFICES ASSUME ParserInv, [Next]_vars PROVE ParserInv'
  OBVIOUS
<1>1. CASE SkipEol
  <2>1. Tail(tokens) \in Seq(Token)
    BY <1>1, Peeks DEF SkipEol, ParserInv
  <2> QED
    BY <1>1, <2>1 DEF SkipEol, Parsing, ParserInv
<1>2. CASE EndFile
  <2>1. CASE files = <<>>
    BY <1>2, <2>1 DEF EndFile, Parsing, ParserInv, Stages
  <2>2. CASE files # <<>>
    <3>1. Head(files) \in Seq(Token) /\ Tail(files) \in Seq(Seq(Token))
      BY <2>2 DEF ParserInv
    <3> QED
      BY <1>2, <2>2, <3>1 DEF EndFile, Parsing, ParserInv
  <2> QED
    BY <2>1, <2>2
<1>3. CASE Resolve \/ Check \/ Emit
  BY <1>3 DEF Resolve, Check, Emit, ParserInv, Stages
<1>4. CASE UNCHANGED vars
  BY <1>4 DEF vars, ParserInv
<1>5. CASE Unexpected
  BY <1>5, SyntaxErrorInv DEF Unexpected
<1> QED
  BY <1>1, <1>2, <1>3, <1>4, <1>5, VariableInv, LabelInv, DirectiveInv, InstructionInv
     DEF Next

(***************************************************************************)
(* What main keeps from the resolver, the checker and the emitter.         *)
(***************************************************************************)
Found ==
    /\ addresses = resolved(nodes).at /\ ~ resolved(nodes).duplicate
    /\ \A i \in instructions(nodes) : i.kind = "IA" => i.a[1] \in DOMAIN addresses

Checked ==
    \A i \in instructions(nodes) :
        i.kind \in checked_kinds => ToSet(i.r) \subseteq CheckerRegisters

Decodable == \A i \in instructions(nodes) : decodes(i)

ProgramInv ==
    /\ stage \in {"check", "emit", "done", "panicked"} => Found
    /\ stage \in {"emit", "done", "panicked"} => Checked
    /\ stage = "panicked" => ~ Decodable
    /\ stage = "done" => Decodable /\ code = emitted(nodes, addresses).words
    /\ stage # "done" => code = <<>>

LEMMA InitProgram == Init => ProgramInv
BY DEF Init, ProgramInv

LEMMA ResolveProgram == ProgramInv /\ Resolve => ProgramInv'
<1> SUFFICES ASSUME ProgramInv, Resolve PROVE ProgramInv'
  OBVIOUS
<1> DEFINE map == resolved(nodes)
           missing == \E i \in instructions(nodes) :
                         i.kind = "IA" /\ i.a[1] \notin DOMAIN map.at
<1>1. nodes' = nodes /\ code' = code
  BY DEF Resolve
<1>2. CASE map.duplicate \/ missing
  BY <1>1, <1>2, Zenon DEF Resolve, ProgramInv
<1>3. CASE ~ (map.duplicate \/ missing)
  <2>1. stage' = "check" /\ addresses' = map.at
    BY <1>3, Zenon DEF Resolve
  <2>2. resolved(nodes') = resolved(nodes) /\ instructions(nodes') = instructions(nodes)
    BY <1>1
  <2>3. map.at = resolved(nodes').at /\ ~ resolved(nodes').duplicate
    BY <1>3, <2>2, Zenon
  <2>4. Found'
    BY <1>3, <2>1, <2>2, <2>3, Zenon DEF Found
  <2> QED
    BY <1>1, <2>1, <2>4 DEF ProgramInv, Resolve
<1> QED
  BY <1>2, <1>3

LEMMA StepProgram == ProgramInv /\ [Next]_vars => ProgramInv'
<1> SUFFICES ASSUME ProgramInv, [Next]_vars PROVE ProgramInv'
  OBVIOUS
<1>1. CASE stage' \in {"parse", "resolve", "refused"} /\ code' = code /\ stage # "done"
  BY <1>1 DEF ProgramInv
<1>2. CASE Resolve
  BY <1>2, ResolveProgram
<1>3. CASE Check
  <2>1. /\ stage = "check" /\ UNCHANGED <<nodes, addresses, code>>
        /\ stage' = IF Checked THEN "emit" ELSE "refused"
    BY <1>3, Zenon DEF Check, Checked
  <2>2. Found' <=> Found
    BY <2>1, Zenon DEF Found
  <2>3. Checked' <=> Checked
    BY <2>1, Zenon DEF Checked
  <2> QED
    BY <2>1, <2>2, <2>3 DEF ProgramInv
<1>4. CASE Emit
  <2>1. stage = "emit" /\ UNCHANGED <<nodes, addresses>> /\ stage' \in {"done", "panicked"}
    BY <1>4 DEF Emit
  <2>2. Found' /\ Checked'
    BY <2>1 DEF Found, Checked, ProgramInv
  <2>3. Decodable' <=> Decodable
    BY <2>1, Zenon DEF Decodable, decodes
  <2>4. IF Decodable THEN stage' = "done" /\ code' = emitted(nodes, addresses).words
                     ELSE stage' = "panicked" /\ UNCHANGED code
    BY <1>4, Zenon DEF Emit, Decodable
  <2>5. emitted(nodes', addresses') = emitted(nodes, addresses)
    BY <2>1
  <2> QED
    BY <2>1, <2>2, <2>3, <2>4, <2>5 DEF ProgramInv
<1>5. CASE UNCHANGED vars
  <2>1. UNCHANGED <<stage, nodes, addresses, code>>
    BY <1>5 DEF vars
  <2>2. (Found' <=> Found) /\ (Checked' <=> Checked)
    BY <2>1, Zenon DEF Found, Checked
  <2>3. Decodable' <=> Decodable
    BY <2>1, Zenon DEF Decodable, decodes
  <2>4. emitted(nodes', addresses') = emitted(nodes, addresses)
    BY <2>1
  <2> QED
    BY <2>1, <2>2, <2>3, <2>4 DEF ProgramInv
<1>6. CASE SkipEol \/ parse_variable \/ ParseLabel \/ parse_directive
           \/ parse_instruction \/ Unexpected \/ EndFile
  <2>1. stage = "parse" /\ stage' \in {"parse", "resolve", "refused"} /\ code' = code
    <3>1. CASE SkipEol \/ parse_variable \/ Unexpected \/ EndFile
      BY <3>1 DEF SkipEol, parse_variable, Unexpected, EndFile, Parsing, SyntaxError
    <3>2. CASE ParseLabel \/ parse_directive \/ parse_instruction
      <4>1. Parsing /\ \E node, rest : Parsed(node, rest)
        BY <3>2, Zenon DEF ParseLabel, parse_directive, parse_instruction
      <4> QED
        BY <4>1 DEF Parsing, Parsed, SyntaxError
    <3> QED
      BY <1>6, <3>1, <3>2
  <2> QED
    BY <1>1, <2>1
<1> QED
  BY <1>2, <1>3, <1>4, <1>5, <1>6 DEF Next

LEMMA InstructionsTyped ==
    ASSUME ParserInv, NEW i \in instructions(nodes)
    PROVE  i \in Instruction
<1>1. PICK k \in DOMAIN nodes : nodes[k].kind = "Instruction" /\ i = nodes[k].i
  BY DEF instructions
<1>2. nodes[k] \in Node
  BY SeqFacts DEF ParserInv
<1> QED
  BY <1>1, <1>2 DEF Node

\* How many operands a kind has.
LEMMA KindOperands ==
    ASSUME NEW i \in Instruction
    PROVE  /\ i.kind \in {"I", "IB", "IW", "IA"} => i.r = <<>>
           /\ i.kind \notin {"IA", "IRA"} => i.a = <<>>
           /\ i.kind \in {"IA", "IRA"} => Len(i.a) = 1
           /\ i.kind \in {"I", "IR", "IRR", "IRRR", "IA", "IRA"} => i.w = <<>>
           /\ i.kind \in {"IB", "IRW", "IRRW", "IW"} => Len(i.w) = 1
           /\ i.kind \in {"IR", "IRW", "IRA"} => Len(i.r) = 1
           /\ i.kind \in {"IRR", "IRRW"} => Len(i.r) = 2
           /\ i.kind = "IRRR" => Len(i.r) = 3
<1>1. /\ i.r \in Seq(STRING) /\ i.w \in Seq(Nat) /\ i.a \in Seq(STRING)
      /\ <<i.kind, i.op[2], Len(i.r), Len(i.w), Len(i.a)>> \in Shapes
  BY DEF Instruction
<1>2. /\ i.kind \in {"I", "IB", "IW", "IA"} => Len(i.r) = 0
      /\ i.kind \notin {"IA", "IRA"} => Len(i.a) = 0
      /\ i.kind \in {"IA", "IRA"} => Len(i.a) = 1
      /\ i.kind \in {"I", "IR", "IRR", "IRRR", "IA", "IRA"} => Len(i.w) = 0
      /\ i.kind \in {"IB", "IRW", "IRRW", "IW"} => Len(i.w) = 1
      /\ i.kind \in {"IR", "IRW", "IRA"} => Len(i.r) = 1
      /\ i.kind \in {"IRR", "IRRW"} => Len(i.r) = 2
      /\ i.kind = "IRRR" => Len(i.r) = 3
  BY <1>1 DEF Shapes
<1>3. (Len(i.r) = 0 => i.r = <<>>) /\ (Len(i.w) = 0 => i.w = <<>>) /\ (Len(i.a) = 0 => i.a = <<>>)
  BY <1>1
<1> QED
  BY <1>2, <1>3

\* What is accepted is emitted, but for what neither the resolver nor the checker looks
\* at: of the instruction that is to blame, the kinds the parser makes leave no other.
LEMMA PanicsKnown == ParserInv /\ ProgramInv => OnlyKnownPanics
<1> SUFFICES ASSUME ParserInv, ProgramInv, stage = "panicked"
             PROVE  \E i \in instructions(nodes) :
                       \/ i.kind \in {"IRA", "IRRW"} /\ ~ decodes(i)
                       \/ "pc" \in ToSet(i.r)
  BY DEF OnlyKnownPanics
<1>1. PICK i \in instructions(nodes) : ~ decodes(i)
  BY DEF ProgramInv, Decodable
<1>2. i \in Instruction
  BY InstructionsTyped
<1>3. SUFFICES ASSUME i.kind \notin {"IRA", "IRRW"}, "pc" \notin ToSet(i.r)
               PROVE  decodes(i)
  BY <1>1
<1>4. Found /\ Checked
  BY DEF ProgramInv
<1>5. CheckerRegisters \ {"pc"} \subseteq DOMAIN EmitterRegisters
  BY DEF CheckerRegisters, EmitterRegisters
<1>6. ToSet(i.r) \subseteq DOMAIN EmitterRegisters
  <2>1. CASE i.kind \in checked_kinds
    <3>1. ToSet(i.r) \subseteq CheckerRegisters
      BY <1>4, <2>1 DEF Checked
    <3> QED
      BY <1>3, <1>5, <3>1
  <2>2. CASE i.kind \notin checked_kinds
    <3>1. i.kind \in {"I", "IB", "IW", "IA"}
      BY <1>2, <1>3, <2>2 DEF Instruction, Kinds, checked_kinds
    <3>2. i.r = <<>>
      BY <1>2, <3>1, KindOperands
    <3> QED
      BY <3>2 DEF ToSet
  <2> QED
    BY <2>1, <2>2
<1>7. ToSet(i.a) \subseteq DOMAIN addresses
  <2>1. CASE i.kind = "IA"
    <3>1. Len(i.a) = 1 /\ i.a[1] \in DOMAIN addresses /\ i.a \in Seq(STRING)
      BY <1>2, <1>4, <2>1, KindOperands DEF Found, Instruction
    <3>2. DOMAIN i.a = {1}
      BY <3>1
    <3> QED
      BY <3>1, <3>2 DEF ToSet
  <2>2. CASE i.kind # "IA"
    <3>1. i.a = <<>>
      BY <1>2, <1>3, <2>2, KindOperands
    <3> QED
      BY <3>1 DEF ToSet
  <2> QED
    BY <2>1, <2>2
<1> QED
  BY <1>6, <1>7 DEF decodes

\* Whatever the files hold and whatever the registers are called, the assembler unwraps in
\* vain only what its passes are known not to look at (emitter.rs).
THEOREM OnlyKnownPanicsHolds == Spec => []OnlyKnownPanics
<1>1. Init => ParserInv /\ ProgramInv
  BY InitParser, InitProgram
<1>2. ParserInv /\ ProgramInv /\ [Next]_vars => (ParserInv /\ ProgramInv)'
  BY StepParser, StepProgram
<1> QED
  BY <1>1, <1>2, PanicsKnown, PTL DEF Spec

(***************************************************************************)
(* The table: lengths and codes.                                           *)
(***************************************************************************)
LEMMA SizeTrace ==
    ASSUME NEW n \in Nat, NEW form, DOMAIN form = 1 .. n
    PROVE  \E h \in [0 .. n -> Nat] :
              /\ h[0] = 1 /\ h[n] = size(form)
              /\ \A k \in 1 .. n : h[k] = h[k - 1] + argSize(form[k])
<1> DEFINE step(total, k) == total + argSize(form[k])
           Folds(g) == g = [T \in SUBSET DOMAIN form |->
                              IF T = {} THEN 1 ELSE step(g[T \ {Max(T)}], Max(T))]
<1>1. size(form) = (CHOOSE g : Folds(g))[DOMAIN form]
  BY Zenon DEF size, FoldLeft, MapThenFoldSet
<1>2. \A r \in Nat : \A k \in 1 .. n : step(r, k) \in Nat
  BY DEF argSize
<1> DEFINE F == [a \in Nat \X (1 .. n) |-> step(a[1], a[2])]
<1>3. F \in [Nat \X (1 .. n) -> Nat]
  BY <1>2
<1>4. \A r \in Nat, k \in 1 .. n : F[<<r, k>>] = step(r, k)
  OBVIOUS
<1> HIDE DEF F, step
<1>5. PICK f \in [SUBSET (1 .. n) -> Nat] : Folded(f, 1, n, F)
  BY <1>3, FoldExists
<1>6. ASSUME NEW T \in SUBSET (1 .. n), T # {}
      PROVE  F[<<f[T \ {Max(T)}], Max(T)>>] = step(f[T \ {Max(T)}], Max(T))
  <2>1. Max(T) \in 1 .. n /\ f[T \ {Max(T)}] \in Nat
    BY <1>6, MaxIsElement
  <2> QED
    BY <1>4, <2>1
<1>7. Folds(f)
  BY <1>5, <1>6, Zenon DEF Folded
<1>8. PICK g : Folds(g) /\ size(form) = g[1 .. n]
  BY <1>1, <1>7
<1>9. Steps(g, Nat, 1, n, F)
  <2>1. g[{}] = 1
    BY <1>8
  <2>2. ASSUME NEW T \in SUBSET (1 .. n), T # {}, g[T \ {Max(T)}] \in Nat
        PROVE  g[T] = F[<<g[T \ {Max(T)}], Max(T)>>]
    <3>1. g[T] = step(g[T \ {Max(T)}], Max(T)) /\ Max(T) \in 1 .. n
      BY <1>8, <2>2, MaxIsElement
    <3> QED
      BY <1>4, <2>2, <3>1
  <2> QED
    BY <2>1, <2>2, Zenon DEF Steps
<1>10. PICK h \in [0 .. n -> Nat] : Runs(h, 1, n, F, g[1 .. n])
  BY <1>3, <1>9, FoldRun
<1>11. ASSUME NEW k \in 1 .. n PROVE h[k] = step(h[k - 1], k)
  <2>1. h[k - 1] \in Nat
    BY <1>10
  <2> QED
    BY <1>4, <1>10, <2>1 DEF Runs
<1> QED
  BY <1>8, <1>10, <1>11, Zenon DEF Runs, step

\* An instruction with an immediate takes two words, another takes one.
Wide == {W, RW, RRW, S, A}

LEMMA Lengths ==
    ASSUME NEW o, o[2] \in Forms
    PROVE  length(o) = IF o[2] \in Wide THEN 8 ELSE 4
<1>1. CASE o[2] = None
  <2>1. size(None) = 1
    <3>1. DOMAIN None = 1 .. 0
      BY DEF None
    <3>2. PICK h \in [0 .. 0 -> Nat] : h[0] = 1 /\ h[0] = size(None)
      BY <3>1, SizeTrace
    <3> QED
      BY <3>2
  <2> QED
    BY <1>1, <2>1 DEF length, roundTo, None, Wide, W, RW, RRW, S, A
<1>2. CASE o[2] \in {R, B}
  <2>1. 1 \in Nat /\ DOMAIN o[2] = 1 .. 1 /\ o[2][1] \in {"r", "b"}
    BY <1>2 DEF R, B
  <2>2. PICK h \in [0 .. 1 -> Nat] : /\ h[0] = 1 /\ h[1] = size(o[2])
                                     /\ \A k \in 1 .. 1 : h[k] = h[k - 1] + argSize(o[2][k])
    BY <2>1, SizeTrace, Zenon
  <2>3. size(o[2]) = 2
    BY <2>1, <2>2 DEF argSize
  <2> QED
    BY <1>2, <2>3 DEF length, roundTo, R, B, Wide, W, RW, RRW, S, A
<1>3. CASE o[2] \in {W, S, A}
  <2>1. 1 \in Nat /\ DOMAIN o[2] = 1 .. 1 /\ o[2][1] \in {"w", "s", "a"}
    BY <1>3 DEF W, S, A
  <2>2. PICK h \in [0 .. 1 -> Nat] : /\ h[0] = 1 /\ h[1] = size(o[2])
                                     /\ \A k \in 1 .. 1 : h[k] = h[k - 1] + argSize(o[2][k])
    BY <2>1, SizeTrace, Zenon
  <2>3. size(o[2]) = 5
    BY <2>1, <2>2 DEF argSize
  <2> QED
    BY <1>3, <2>3 DEF length, roundTo, Wide
<1>4. CASE o[2] \in {RR, RW}
  <2>1. 2 \in Nat /\ DOMAIN o[2] = 1 .. 2 /\ o[2][1] = "r" /\ o[2][2] \in {"r", "w"}
        /\ (o[2][2] = "w" <=> o[2] = RW)
    BY <1>4 DEF RR, RW
  <2>2. PICK h \in [0 .. 2 -> Nat] : /\ h[0] = 1 /\ h[2] = size(o[2])
                                     /\ \A k \in 1 .. 2 : h[k] = h[k - 1] + argSize(o[2][k])
    BY <2>1, SizeTrace, Zenon
  <2>3. size(o[2]) = IF o[2] = RW THEN 6 ELSE 3
    BY <2>1, <2>2 DEF argSize
  <2>4. o[2] \in Wide <=> o[2] = RW
    BY <1>4 DEF RR, Wide, W, RW, RRW, S, A
  <2> QED
    BY <2>3, <2>4 DEF length, roundTo
<1>5. CASE o[2] \in {RRR, RRW}
  <2>1. 3 \in Nat /\ DOMAIN o[2] = 1 .. 3 /\ o[2][1] = "r" /\ o[2][2] = "r" /\ o[2][3] \in {"r", "w"}
        /\ (o[2][3] = "w" <=> o[2] = RRW)
    BY <1>5 DEF RRR, RRW
  <2>2. PICK h \in [0 .. 3 -> Nat] : /\ h[0] = 1 /\ h[3] = size(o[2])
                                     /\ \A k \in 1 .. 3 : h[k] = h[k - 1] + argSize(o[2][k])
    BY <2>1, SizeTrace, Zenon
  <2>3. size(o[2]) = IF o[2] = RRW THEN 7 ELSE 4
    BY <2>1, <2>2 DEF argSize
  <2>4. o[2] \in Wide <=> o[2] = RRW
    BY <1>5 DEF RRR, Wide, W, RW, RRW, S, A
  <2> QED
    BY <2>3, <2>4 DEF length, roundTo
<1> QED
  BY <1>1, <1>2, <1>3, <1>4, <1>5 DEF Forms

\* Codes that go up.
Rising == {c \in Seq(Nat) : \A j, k \in 1 .. Len(c) : j < k => c[j] < c[k]}

LEMMA NumberedRises ==
    ASSUME NEW c \in Rising, NEW given \in Nat
    PROVE  numbered(c, given) \in Rising /\ Len(numbered(c, given)) = Len(c) + 1
<1> DEFINE next == IF c = <<>> THEN 0 ELSE Last(c) + 1
           d == IF given < next THEN next ELSE given
<1>1. c \in Seq(Nat) /\ Len(c) \in Nat /\ \A j, k \in 1 .. Len(c) : j < k => c[j] < c[k]
  BY DEF Rising
<1>2. c # <<>> => Len(c) \in 1 .. Len(c) /\ Last(c) = c[Len(c)] /\ c[Len(c)] \in Nat
  BY <1>1 DEF Last
<1>3. d \in Nat /\ next \in Nat /\ d >= next
  BY <1>1, <1>2
<1>4. \A j \in 1 .. Len(c) : c[j] < next
  <2> SUFFICES ASSUME NEW j \in 1 .. Len(c) PROVE c[j] < next
    OBVIOUS
  <2>1. c # <<>> /\ c[j] \in Nat
    BY <1>1
  <2>2. j = Len(c) \/ c[j] < c[Len(c)]
    BY <1>1
  <2> QED
    BY <1>1, <1>2, <2>1, <2>2
<1>5. numbered(c, given) = Append(c, d)
  BY Zenon DEF numbered
<1> HIDE DEF d, next
<1>6. \A j \in 1 .. Len(c) : c[j] < d
  <2> SUFFICES ASSUME NEW j \in 1 .. Len(c) PROVE c[j] < d
    OBVIOUS
  <2>1. c[j] \in Nat /\ c[j] < next
    BY <1>1, <1>4
  <2> QED
    BY <1>3, <2>1
<1>7. /\ Append(c, d) \in Seq(Nat) /\ Len(Append(c, d)) = Len(c) + 1
      /\ \A j \in 1 .. Len(c) : Append(c, d)[j] = c[j]
      /\ Append(c, d)[Len(c) + 1] = d
  BY <1>1, <1>3
<1>8. ASSUME NEW j \in 1 .. Len(c) + 1, NEW k \in 1 .. Len(c) + 1, j < k
      PROVE  Append(c, d)[j] < Append(c, d)[k]
  <2>1. j \in 1 .. Len(c)
    BY <1>1, <1>8
  <2>2. CASE k = Len(c) + 1
    BY <1>6, <1>7, <2>1, <2>2
  <2>3. CASE k # Len(c) + 1
    <3>1. k \in 1 .. Len(c)
      BY <1>1, <2>3
    <3> QED
      BY <1>1, <1>7, <1>8, <2>1, <3>1
  <2> QED
    BY <2>2, <2>3
<1> HIDE DEF numbered
<1> QED
  BY <1>5, <1>7, <1>8 DEF Rising

\* thi.lua gives every instruction of the table a code of its own.
LEMMA CodesRise == allCodes \in Rising /\ Len(allCodes) = Len(table)
<1> DEFINE givens == [k \in DOMAIN table |-> table[k].given]
           n == Len(table)
           Folds(g) == g = [T \in SUBSET DOMAIN givens |->
                              IF T = {} THEN <<>>
                              ELSE numbered(g[T \ {Max(T)}], givens[Max(T)])]
<1>1. allCodes = (CHOOSE g : Folds(g))[DOMAIN givens]
  BY Zenon DEF allCodes, FoldLeft, MapThenFoldSet
<1>2. n \in Nat /\ DOMAIN table = 1 .. n /\ \A k \in 1 .. n : table[k].given \in Nat
  <2> DEFINE Entry == [op : STRING \X Forms, given : Nat]
  <2>1. \A e \in Entry : e.given \in Nat
    OBVIOUS
  <2> HIDE DEF Entry
  <2>2. n \in Nat /\ DOMAIN table = 1 .. n /\ \A k \in DOMAIN table : table[k] \in Entry
    BY TableAssumption, SeqFacts DEF Entry
  <2> QED
    BY <2>1, <2>2, Zenon
<1>3. DOMAIN givens = 1 .. n /\ \A k \in 1 .. n : givens[k] \in Nat
  BY <1>2
<1>4. <<>> \in Rising
  BY DEF Rising
<1> DEFINE F == [a \in Rising \X (1 .. n) |-> numbered(a[1], givens[a[2]])]
<1> HIDE DEF givens, n
<1>5. F \in [Rising \X (1 .. n) -> Rising]
  BY <1>3, NumberedRises
<1>6. \A r \in Rising, k \in 1 .. n : F[<<r, k>>] = numbered(r, givens[k])
  OBVIOUS
<1> HIDE DEF F
<1>7. PICK f \in [SUBSET (1 .. n) -> Rising] : Folded(f, <<>>, n, F)
  BY <1>2, <1>4, <1>5, FoldExists
<1>8. ASSUME NEW T \in SUBSET (1 .. n), T # {}
      PROVE  F[<<f[T \ {Max(T)}], Max(T)>>] = numbered(f[T \ {Max(T)}], givens[Max(T)])
  <2>1. Max(T) \in 1 .. n /\ f[T \ {Max(T)}] \in Rising
    BY <1>2, <1>8, MaxIsElement
  <2> QED
    BY <1>6, <2>1
<1>9. Folds(f)
  BY <1>3, <1>7, <1>8, Zenon DEF Folded
<1>10. PICK g : Folds(g) /\ allCodes = g[1 .. n]
  BY <1>1, <1>3, <1>9
<1>11. Steps(g, Rising, <<>>, n, F)
  <2>1. g[{}] = <<>>
    BY <1>10
  <2>2. ASSUME NEW T \in SUBSET (1 .. n), T # {}, g[T \ {Max(T)}] \in Rising
        PROVE  g[T] = F[<<g[T \ {Max(T)}], Max(T)>>]
    <3>1. g[T] = numbered(g[T \ {Max(T)}], givens[Max(T)]) /\ Max(T) \in 1 .. n
      BY <1>2, <1>3, <1>10, <2>2, MaxIsElement
    <3> QED
      BY <1>6, <2>2, <3>1
  <2> QED
    BY <2>1, <2>2, Zenon DEF Steps
<1>12. PICK h \in [0 .. n -> Rising] : Runs(h, <<>>, n, F, g[1 .. n])
  BY <1>2, <1>4, <1>5, <1>11, FoldRun
<1> DEFINE P == { k \in 0 .. n : Len(h[k]) = k }
<1>13. 0 \in P
  BY <1>2, <1>12 DEF Runs
<1>14. ASSUME NEW k \in 0 .. n - 1, k \in P PROVE k + 1 \in P
  <2>1. k + 1 \in 1 .. n /\ (k + 1) - 1 = k /\ k + 1 \in 0 .. n
    BY <1>2
  <2>2. h[k] \in Rising /\ h[k + 1] = F[<<h[k], k + 1>>]
    <3>1. \A j \in 1 .. n : h[j] = F[<<h[j - 1], j>>]
      BY <1>12, Zenon DEF Runs
    <3>2. h[k + 1] = F[<<h[(k + 1) - 1], k + 1>>]
      BY <2>1, <3>1, Zenon
    <3>3. h[k] \in Rising
      BY <1>12, <1>14
    <3> QED
      BY <2>1, <3>2, <3>3
  <2>3. h[k + 1] = numbered(h[k], givens[k + 1]) /\ givens[k + 1] \in Nat
    BY <1>3, <1>6, <2>1, <2>2
  <2> QED
    BY <1>14, <2>1, <2>2, <2>3, NumberedRises
<1>15. 0 .. n \subseteq P
  <2> HIDE DEF P
  <2> QED
    BY <1>2, <1>13, <1>14, RangeInduction
<1>16. n \in 0 .. n
  BY <1>2
<1>17. allCodes = h[n] /\ h[n] \in Rising /\ Len(h[n]) = n
  BY <1>10, <1>12, <1>15, <1>16 DEF Runs
<1> QED
  BY <1>17 DEF n

\* Every opcode is a byte from which the processor finds its instruction again.
LEMMA Decoding ==
    \A o \in Ops : /\ bytecode[o] \in 0 .. 255 /\ ops_array[bytecode[o]] = o
                   /\ o[2] \in Forms
<1> SUFFICES ASSUME NEW o \in Ops
             PROVE  /\ bytecode[o] \in 0 .. 255 /\ ops_array[bytecode[o]] = o
                    /\ o[2] \in Forms
  OBVIOUS
<1> DEFINE p == CHOOSE k \in DOMAIN table : table[k].op = o
           c == allCodes[p]
<1>1. p \in DOMAIN table /\ table[p].op = o
  BY DEF Ops
<1>2. bytecode[o] = c
  BY DEF bytecode
<1> HIDE DEF p
<1>3. /\ Len(allCodes) \in Nat /\ DOMAIN allCodes = 1 .. Len(allCodes)
      /\ p \in 1 .. Len(allCodes) /\ p \in Nat
      /\ \A k \in 1 .. Len(allCodes) : allCodes[k] \in Nat
      /\ \A j, k \in 1 .. Len(allCodes) : j < k => allCodes[j] < allCodes[k]
  <2>1. DOMAIN table = 1 .. Len(table) /\ allCodes \in Seq(Nat)
    BY CodesRise, TableAssumption, SeqFacts DEF Rising
  <2>2. Len(allCodes) \in Nat /\ DOMAIN allCodes = 1 .. Len(allCodes)
    BY <2>1
  <2> QED
    BY <1>1, <2>1, <2>2, CodesRise DEF Rising
<1>4. {i \in 1 .. Len(allCodes) : allCodes[i] = c} = {p}
  <2>1. ASSUME NEW i \in 1 .. Len(allCodes), allCodes[i] = c PROVE i = p
    <3>1. ~ (i < p) /\ ~ (p < i)
      BY <1>3, <2>1
    <3> QED
      BY <1>3, <3>1
  <2> QED
    BY <1>3, <2>1
<1>5. c \in ToSet(allCodes)
  BY <1>3 DEF ToSet
<1> HIDE DEF c
<1>6. Max({p}) = p
  BY <1>3 DEF Max
<1>7. SelectLastInSeq(allCodes, LAMBDA d : d = c) = p
  BY <1>4, <1>6 DEF SelectLastInSeq
<1>8. ops_array[c] = table[p].op
  BY <1>5, <1>7 DEF ops_array
<1>9. o[2] \in Forms
  <2>1. table[p] \in [op : STRING \X Forms, given : Nat]
    BY <1>1, TableAssumption, SeqFacts
  <2> QED
    BY <1>1, <2>1
<1> QED
  BY <1>1, <1>2, <1>5, <1>8, <1>9, TableAssumption

(***************************************************************************)
(* The emitter.                                                            *)
(***************************************************************************)
CodeWord == [1 .. 4 -> 0 .. 255] \union [1 .. 1 -> Nat]

Out == [words : Seq(CodeWord), base : Nat]

\* decodes, of any map of the labels
Decodes(i, at) == ToSet(i.r) \subseteq DOMAIN EmitterRegisters /\ ToSet(i.a) \subseteq DOMAIN at

Emittable(ns, at) ==
    /\ ns \in Seq(Node) /\ at \in Maps
    /\ \A k \in DOMAIN ns : ns[k].kind = "Instruction" => Decodes(ns[k].i, at)

\* One word and another after it, or none.
LEMMA TwoWords == ASSUME NEW x, NEW y PROVE <<x>> \o <<y>> = <<x, y>>
<1> DEFINE z == <<x>> \o <<y>>
           T == {x, y}
<1>1. <<x>> \in Seq(T) /\ <<y>> \in Seq(T)
  OBVIOUS
<1>2. z \in Seq(T) /\ Len(z) = 2 /\ z[1] = x /\ z[2] = y
  BY <1>1
<1> HIDE DEF z
<1>3. z = <<x, y>>
  BY <1>2
<1> QED
  BY <1>3 DEF z

LEMMA NoWord == \A x, y : <<x>> \o <<>> = <<x>> /\ <<x, y>> \o <<>> = <<x, y>>
OBVIOUS

LEMMA RegisterIsByte == \A r \in DOMAIN EmitterRegisters : EmitterRegisters[r] \in 0 .. 255
<1> SUFFICES ASSUME NEW r \in DOMAIN EmitterRegisters PROVE EmitterRegisters[r] \in 0 .. 255
  OBVIOUS
<1>1. CASE r \in SpecialRegisters \union {"cp"}
  <2>1. /\ EmitterRegisters["idt"] = 250 /\ EmitterRegisters["ir"] = 251
        /\ EmitterRegisters["sp"] = 252 /\ EmitterRegisters["bp"] = 253
        /\ EmitterRegisters["cp"] = 254 /\ EmitterRegisters["cs"] = 255
    BY DEF EmitterRegisters, SpecialRegisters
  <2>2. r \in {"idt", "ir", "sp", "bp", "cp", "cs"}
    BY <1>1 DEF SpecialRegisters
  <2>3. EmitterRegisters[r] \in {250, 251, 252, 253, 254, 255}
    BY ONLY <2>1, <2>2
  <2>4. \A x : x \in {250, 251, 252, 253, 254, 255} => x \in 0 .. 255
    OBVIOUS
  <2> QED
    BY <2>3, <2>4
<1>2. CASE r \notin SpecialRegisters \union {"cp"}
  <2>1. r \in ToSet(General)
    BY <1>2 DEF EmitterRegisters
  <2> DEFINE p == CHOOSE k \in DOMAIN General : General[k] = r
  <2>2. p \in DOMAIN General
    BY <2>1 DEF ToSet
  <2>3. DOMAIN General = 1 .. Len(General) /\ Len(General) \in Nat /\ Len(General) <= 32
    BY InputAssumption, SeqFacts
  <2>4. EmitterRegisters[r] = p - 1
    BY <1>2, <2>1 DEF EmitterRegisters, SpecialRegisters
  <2> HIDE DEF p
  <2>5. p \in 1 .. Len(General)
    BY <2>2, <2>3
  <2>6. \A x, n : n \in Nat /\ n <= 32 /\ x \in 1 .. n => x - 1 \in 0 .. 255
    OBVIOUS
  <2>7. p - 1 \in 0 .. 255
    BY <2>3, <2>5, <2>6
  <2> QED
    BY <2>4, <2>7
<1> QED
  BY <1>1, <1>2

\* The bytes after the opcode.
operands(i) == IF i.kind = "IB" THEN i.w ELSE [k \in DOMAIN i.r |-> EmitterRegisters[i.r[k]]]

LEMMA OperandsTyped ==
    ASSUME NEW i \in Instruction, ToSet(i.r) \subseteq DOMAIN EmitterRegisters
    PROVE  /\ operands(i) \in Seq(0 .. 255)
           /\ Len(operands(i)) = IF i.kind = "IB" THEN 1 ELSE Len(i.r)
<1>1. i.w \in Seq(Nat) /\ i.r \in Seq(STRING) /\ in_range(i)
  BY DEF Instruction
<1>2. CASE i.kind = "IB"
  <2>0. Len(i.w) = 1 /\ i.w[1] <= 255
    BY <1>1, <1>2, KindOperands DEF in_range
  <2>1. Len(i.w) = 1 /\ i.w[1] \in 0 .. 255
    <3>1. i.w[1] \in Nat
      BY <1>1, <2>0, LenOne
    <3> QED
      BY <2>0, <3>1
  <2>2. i.w \in [1 .. 1 -> 0 .. 255]
    BY <1>1, <2>1
  <2> QED
    <3>1. i.w \in Seq(0 .. 255)
      BY <2>2, SeqMade
    <3>2. operands(i) = i.w
      BY <1>2 DEF operands
    <3> QED
      BY <1>2, <2>1, <3>1, <3>2
<1>3. CASE i.kind # "IB"
  <2> DEFINE bytes == [k \in DOMAIN i.r |-> EmitterRegisters[i.r[k]]]
  <2>1. DOMAIN i.r = 1 .. Len(i.r) /\ Len(i.r) \in Nat
    BY <1>1, SeqFacts
  <2>2. \A k \in DOMAIN i.r : EmitterRegisters[i.r[k]] \in 0 .. 255
    BY RegisterIsByte DEF ToSet
  <2>3. bytes \in [1 .. Len(i.r) -> 0 .. 255]
    BY <2>1, <2>2
  <2>4. operands(i) = bytes
    BY <1>3 DEF operands
  <2> HIDE DEF bytes
  <2>5. bytes \in Seq(0 .. 255) /\ Len(bytes) = Len(i.r)
    <3> DEFINE l == Len(i.r)
    <3>1. l \in Nat /\ bytes \in [1 .. l -> 0 .. 255]
      BY <2>1, <2>3
    <3> HIDE DEF l
    <3>2. bytes \in Seq(0 .. 255) /\ Len(bytes) = l
      BY <3>1
    <3> QED
      BY <3>2 DEF l
  <2> QED
    BY <1>3, <2>4, <2>5
<1> QED
  BY <1>2, <1>3

\* The words of an instruction: the opcode with its bytes, and the immediate if its form
\* has one.
LEMMA WordsOf ==
    ASSUME NEW i \in Instruction, NEW at \in Maps, Decodes(i, at), NEW base \in Nat
    PROVE  LET ws == words(i, base, at)
               bytes == operands(i)
           IN  /\ ws \in Seq(CodeWord)
               /\ Len(ws) = IF i.op[2] \in Wide THEN 2 ELSE 1
               /\ ws[1][1] = bytecode[i.op]
               /\ \A k \in DOMAIN bytes : k <= 3 => ws[1][k + 1] = bytes[k]
               /\ i.kind \in {"IRW", "IRRW", "IW"} => ws[2] = <<i.w[1]>>
               /\ i.kind \in {"IA", "IRA"} =>
                     ws[2] = <<(IF i.absolute THEN base ELSE 0) + at[i.a[1]]>>
<1> DEFINE bytes == operands(i)
           head == [k \in 1 .. 4 |-> IF k = 1 THEN bytecode[i.op]
                                     ELSE IF k - 1 \in DOMAIN bytes THEN bytes[k - 1] ELSE 0]
           imm == i.w[1]
           address == (IF i.absolute THEN base ELSE 0) + at[i.a[1]]
           ws == words(i, base, at)
<1>1. ws = <<head>> \o (IF i.kind # "IB" /\ i.w # <<>> THEN << <<imm>> >> ELSE <<>>)
                    \o (IF i.a # <<>> THEN << <<address>> >> ELSE <<>>)
  BY Zenon DEF words, operands
<1>2. /\ i.w \in Seq(Nat) /\ i.a \in Seq(STRING) /\ i.op \in Ops /\ i.kind \in Kinds
      /\ i.absolute \in BOOLEAN
      /\ <<i.kind, i.op[2], Len(i.r), Len(i.w), Len(i.a)>> \in Shapes
  BY DEF Instruction
<1>3. /\ i.kind \in {"IRW", "IRRW", "IW", "IA", "IRA"} => i.op[2] \in Wide
      /\ i.kind \notin {"IRW", "IRRW", "IW", "IA", "IRA"} => i.op[2] \in {None, B, R, RR, RRR}
  BY <1>2 DEF Shapes, Wide
<1>4. {None, B, R, RR, RRR} \intersect Wide = {}
  BY DEF Wide, None, B, R, RR, RRR, W, RW, RRW, S, A
<1>5. head \in CodeWord
  <2>1. bytes \in Seq(0 .. 255)
    BY OperandsTyped DEF Decodes
  <2>2. bytecode[i.op] \in 0 .. 255
    BY <1>2, Decoding
  <2>3. \A k \in DOMAIN bytes : bytes[k] \in 0 .. 255
    BY <2>1, SeqFacts
  <2> HIDE DEF bytes
  <2> QED
    BY <2>2, <2>3 DEF CodeWord
<1>6. head[1] = bytecode[i.op] /\ \A k \in DOMAIN bytes : k <= 3 => head[k + 1] = bytes[k]
  <2>1. bytes \in Seq(0 .. 255)
    BY OperandsTyped DEF Decodes
  <2> HIDE DEF bytes
  <2> QED
    BY <2>1
<1> HIDE DEF head, bytes, address, imm, ws
<1>7. CASE i.kind \in {"I", "IB", "IR", "IRR", "IRRR"}
  <2>1. i.a = <<>> /\ (i.kind # "IB" => i.w = <<>>)
    BY <1>7, KindOperands
  <2>2. ws = <<head>>
    BY <1>1, <2>1, NoWord
  <2> QED
    BY <1>3, <1>4, <1>5, <1>6, <1>7, <2>2 DEF ws, bytes
<1>8. CASE i.kind \in {"IRW", "IRRW", "IW"}
  <2>0. i.a = <<>> /\ i.kind # "IB" /\ Len(i.w) = 1
    BY <1>8, KindOperands
  <2>1. i.a = <<>> /\ i.kind # "IB" /\ i.w # <<>> /\ imm \in Nat
    <3>1. i.w # <<>> /\ i.w[1] \in Nat
      BY <1>2, <2>0, LenOne
    <3> QED
      BY <2>0, <3>1 DEF imm
  <2>2. ws = <<head, <<imm>> >>
    BY <1>1, <2>1, NoWord, TwoWords
  <2>3. <<imm>> \in CodeWord
    BY <2>1 DEF CodeWord
  <2> QED
    BY <1>3, <1>5, <1>6, <1>8, <2>2, <2>3 DEF ws, bytes, imm
<1>9. CASE i.kind \in {"IA", "IRA"}
  <2>0. Len(i.a) = 1 /\ i.w = <<>>
    BY <1>9, KindOperands
  <2>1. i.a # <<>> /\ i.w = <<>> /\ 1 \in DOMAIN i.a
    BY <1>2, <2>0, LenOne
  <2>2. at[i.a[1]] \in Nat
    <3>1. i.a[1] \in ToSet(i.a)
      BY <2>1, Zenon DEF ToSet
    <3>2. i.a[1] \in DOMAIN at
      BY <3>1, Zenon DEF Decodes
    <3>3. \A name \in DOMAIN at : at[name] \in Nat
      BY DEF Maps
    <3> QED
      BY <3>2, <3>3
  <2>3. address \in Nat
    BY <1>2, <2>2 DEF address
  <2>4. ws = <<head, <<address>> >>
    BY <1>1, <2>1, NoWord, TwoWords
  <2>5. <<address>> \in CodeWord
    BY <2>3 DEF CodeWord
  <2> QED
    BY <1>3, <1>5, <1>6, <1>9, <2>4, <2>5 DEF ws, bytes, address
<1> QED
  BY <1>2, <1>7, <1>8, <1>9 DEF Kinds

LEMMA NodeFacts ==
    ASSUME NEW node \in Node
    PROVE  /\ node.kind \in {"Label", "Base", "Word", "Instruction"}
           /\ node.kind = "Instruction" => node.i \in Instruction
           /\ node.kind \in {"Label", "Word"} => node.name \in STRING
           /\ node.kind \in {"Base", "Word"} => node.value \in Nat
BY DEF Node

LEMMA ConcatFacts ==
    ASSUME NEW T, NEW s \in Seq(T), NEW t \in Seq(T)
    PROVE  /\ s \o t \in Seq(T) /\ Len(s \o t) = Len(s) + Len(t)
           /\ \A j \in 1 .. Len(s) : (s \o t)[j] = s[j]
           /\ \A j \in 1 .. Len(t) : (s \o t)[Len(s) + j] = t[j]
OBVIOUS

LEMMA AppendFacts ==
    ASSUME NEW T, NEW s \in Seq(T), NEW x \in T
    PROVE  /\ Append(s, x) \in Seq(T) /\ Len(Append(s, x)) = Len(s) + 1
           /\ \A j \in 1 .. Len(s) : Append(s, x)[j] = s[j]
OBVIOUS

\* How many words a node takes in the image.
places(node) ==
    CASE node.kind = "Word" -> 1
      [] node.kind = "Instruction" -> IF node.i.op[2] \in Wide THEN 2 ELSE 1
      [] OTHER -> 0

\* A node adds its words behind those that are there and changes none of them.
LEMMA EmitTyped ==
    ASSUME NEW out \in Out, NEW node \in Node, NEW at \in Maps,
           node.kind = "Instruction" => Decodes(node.i, at)
    PROVE  LET next == emit(out, node, at)
               ws == words(node.i, out.base, at)
           IN  /\ next \in Out /\ places(node) \in 0 .. 2
               /\ Len(next.words) = Len(out.words) + places(node)
               /\ \A j \in 1 .. Len(out.words) : next.words[j] = out.words[j]
               /\ node.kind = "Instruction" =>
                     /\ Len(ws) = places(node)
                     /\ \A j \in 1 .. Len(ws) : next.words[Len(out.words) + j] = ws[j]
<1> DEFINE next == emit(out, node, at)
           ws == words(node.i, out.base, at)
<1>1. out.words \in Seq(CodeWord) /\ out.base \in Nat /\ Len(out.words) \in Nat
  BY DEF Out
<1>2. CASE node.kind = "Instruction"
  <2>1. node.i \in Instruction /\ Decodes(node.i, at)
    BY <1>2, NodeFacts
  <2>2. ws \in Seq(CodeWord) /\ Len(ws) = places(node)
    <3>1. ws \in Seq(CodeWord) /\ Len(ws) = IF node.i.op[2] \in Wide THEN 2 ELSE 1
      BY <1>1, <2>1, WordsOf
    <3> QED
      BY <1>2, <3>1 DEF places
  <2>3. next = [out EXCEPT !.words = @ \o ws]
    BY <1>2 DEF emit
  <2>4. places(node) \in 0 .. 2
    BY <1>2 DEF places
  <2> HIDE DEF ws, next
  <2>5. next.words = out.words \o ws /\ next.base = out.base
    BY <2>3 DEF Out
  <2>6. out.words \o ws \in Seq(CodeWord)
    BY <1>1, <2>2, ConcatFacts
  <2>7. next \in Out
    BY <1>1, <2>3, <2>6 DEF Out
  <2>8. /\ Len(next.words) = Len(out.words) + places(node)
        /\ \A j \in 1 .. Len(out.words) : next.words[j] = out.words[j]
        /\ \A j \in 1 .. Len(ws) : next.words[Len(out.words) + j] = ws[j]
    <3> DEFINE words1 == out.words
    <3>1. words1 \in Seq(CodeWord) /\ ws \in Seq(CodeWord) /\ next.words = words1 \o ws
      BY <1>1, <2>2, <2>5
    <3> HIDE DEF words1
    <3>2. /\ Len(words1 \o ws) = Len(words1) + Len(ws)
          /\ \A j \in 1 .. Len(words1) : (words1 \o ws)[j] = words1[j]
          /\ \A j \in 1 .. Len(ws) : (words1 \o ws)[Len(words1) + j] = ws[j]
      BY <3>1, ConcatFacts
    <3> QED
      BY <2>2, <3>1, <3>2, Zenon DEF words1
  <2> QED
    BY <2>2, <2>4, <2>7, <2>8, Zenon DEF ws, next
<1>3. CASE node.kind = "Word"
  <2>1. node.value \in Nat
    BY <1>3, NodeFacts
  <2>2. next = [out EXCEPT !.words = Append(@, <<node.value>>)]
    BY <1>3 DEF emit
  <2>3. places(node) = 1
    BY <1>3 DEF places
  <2>4. <<node.value>> \in CodeWord
    BY <2>1 DEF CodeWord
  <2> HIDE DEF next
  <2>5. next.words = Append(out.words, <<node.value>>)
    BY <2>2 DEF Out
  <2>6. Append(out.words, <<node.value>>) \in Seq(CodeWord)
    BY <1>1, <2>4, AppendFacts
  <2>7. next \in Out
    BY <1>1, <2>2, <2>6 DEF Out
  <2> QED
    BY <1>1, <1>3, <2>3, <2>4, <2>5, <2>7, AppendFacts DEF next
<1>4. CASE node.kind \in {"Label", "Base"}
  <2>1. places(node) = 0
    BY <1>4 DEF places
  <2>2. next = IF node.kind = "Base" THEN [out EXCEPT !.base = node.value] ELSE out
    BY <1>4 DEF emit
  <2>3. node.kind = "Base" => node.value \in Nat
    BY NodeFacts
  <2> HIDE DEF next
  <2>4. next \in Out /\ next.words = out.words
    BY <2>2, <2>3 DEF Out
  <2> QED
    BY <1>1, <1>4, <2>1, <2>4 DEF next
<1> QED
  BY <1>2, <1>3, <1>4, NodeFacts

\* What the emitter has before its first node and after each.
Blank == [words |-> <<>>, base |-> 0]

Emits(h, ns, at) ==
    /\ h \in [0 .. Len(ns) -> Out] /\ h[0] = Blank
    /\ \A k \in 1 .. Len(ns) : h[k] = emit(h[k - 1], ns[k], at)

LEMMA EmitTrace ==
    ASSUME NEW ns, NEW at, Emittable(ns, at)
    PROVE  \E h : Emits(h, ns, at) /\ emitted(ns, at) = h[Len(ns)]
<1> DEFINE n == Len(ns)
           step(out, k) == emit(out, ns[k], at)
           Folds(g) == g = [T \in SUBSET DOMAIN ns |->
                              IF T = {} THEN Blank ELSE step(g[T \ {Max(T)}], Max(T))]
<1>1. emitted(ns, at) = (CHOOSE g : Folds(g))[DOMAIN ns]
  BY Zenon DEF emitted, FoldLeft, MapThenFoldSet, Blank
<1>2. n \in Nat /\ DOMAIN ns = 1 .. n /\ \A k \in 1 .. n : ns[k] \in Node
  BY SeqFacts DEF Emittable
<1>3. \A out \in Out : \A k \in 1 .. n : step(out, k) \in Out
  <2> SUFFICES ASSUME NEW out \in Out, NEW k \in 1 .. n PROVE emit(out, ns[k], at) \in Out
    OBVIOUS
  <2>1. /\ ns[k] \in Node /\ at \in Maps
        /\ ns[k].kind = "Instruction" => Decodes(ns[k].i, at)
    BY <1>2 DEF Emittable
  <2> QED
    BY <2>1, EmitTyped
<1>4. Blank \in Out
  BY DEF Blank, Out
<1> DEFINE F == [a \in Out \X (1 .. n) |-> step(a[1], a[2])]
<1> HIDE DEF step, n
<1>5. F \in [Out \X (1 .. n) -> Out]
  BY <1>3
<1>6. \A r \in Out, k \in 1 .. n : F[<<r, k>>] = step(r, k)
  OBVIOUS
<1> HIDE DEF F
<1>7. PICK f \in [SUBSET (1 .. n) -> Out] : Folded(f, Blank, n, F)
  BY <1>2, <1>4, <1>5, FoldExists
<1>8. ASSUME NEW T \in SUBSET (1 .. n), T # {}
      PROVE  F[<<f[T \ {Max(T)}], Max(T)>>] = step(f[T \ {Max(T)}], Max(T))
  <2>1. Max(T) \in 1 .. n /\ f[T \ {Max(T)}] \in Out
    BY <1>2, <1>8, MaxIsElement
  <2> QED
    BY <1>6, <2>1
<1>9. Folds(f)
  BY <1>2, <1>7, <1>8, Zenon DEF Folded
<1>10. PICK g : Folds(g) /\ emitted(ns, at) = g[1 .. n]
  BY <1>1, <1>2, <1>9
<1>11. Steps(g, Out, Blank, n, F)
  <2>1. g[{}] = Blank
    BY <1>10
  <2>2. ASSUME NEW T \in SUBSET (1 .. n), T # {}, g[T \ {Max(T)}] \in Out
        PROVE  g[T] = F[<<g[T \ {Max(T)}], Max(T)>>]
    <3>1. g[T] = step(g[T \ {Max(T)}], Max(T)) /\ Max(T) \in 1 .. n
      BY <1>2, <1>10, <2>2, MaxIsElement
    <3> QED
      BY <1>6, <2>2, <3>1
  <2> QED
    BY <2>1, <2>2, Zenon DEF Steps
<1>12. PICK h \in [0 .. n -> Out] : Runs(h, Blank, n, F, g[1 .. n])
  BY <1>2, <1>4, <1>5, <1>11, FoldRun
<1>13. ASSUME NEW k \in 1 .. n PROVE h[k] = emit(h[k - 1], ns[k], at)
  <2>1. h[k - 1] \in Out
    BY <1>2, <1>12
  <2>2. h[k] = F[<<h[k - 1], k>>]
    BY <1>12, Zenon DEF Runs
  <2> QED
    BY <1>6, <2>1, <2>2 DEF step
<1>14. h[0] = Blank /\ h[n] = emitted(ns, at)
  BY <1>10, <1>12, Zenon DEF Runs
<1> QED
  BY <1>12, <1>13, <1>14 DEF Emits, n

\* What is emitted of a part of the nodes is what the emitter has after them.
LEMMA EmitPrefix ==
    ASSUME NEW ns, NEW at, Emittable(ns, at), NEW h, Emits(h, ns, at), NEW m \in 0 .. Len(ns)
    PROVE  emitted(SubSeq(ns, 1, m), at) = h[m]
<1> DEFINE us == SubSeq(ns, 1, m)
<1>0. ns \in Seq(Node) /\ Len(ns) \in Nat /\ m \in Nat /\ m <= Len(ns)
  BY DEF Emittable
<1>1. us \in Seq(Node) /\ Len(us) = m /\ DOMAIN us = 1 .. m /\ \A k \in 1 .. m : us[k] = ns[k]
  BY <1>0
<1> HIDE DEF us
<1>2. DOMAIN ns = 1 .. Len(ns)
  BY <1>0
<1>3. Emittable(us, at)
  <2>1. ASSUME NEW k \in DOMAIN us, us[k].kind = "Instruction" PROVE Decodes(us[k].i, at)
    <3>1. k \in DOMAIN ns /\ us[k] = ns[k]
      BY <1>0, <1>1, <1>2, <2>1
    <3> QED
      BY <2>1, <3>1 DEF Emittable
  <2> QED
    BY <1>1, <2>1 DEF Emittable
<1>4. PICK g : Emits(g, us, at) /\ emitted(us, at) = g[m]
  BY <1>1, <1>3, EmitTrace
<1> DEFINE P == { k \in 0 .. m : g[k] = h[k] }
<1>5. 0 \in P
  BY <1>0, <1>4 DEF Emits
<1>6. ASSUME NEW k \in 0 .. m - 1, k \in P PROVE k + 1 \in P
  <2>1. k + 1 \in 1 .. m /\ k + 1 \in 1 .. Len(ns) /\ (k + 1) - 1 = k
    BY <1>0
  <2>2. g[k + 1] = emit(g[k], us[k + 1], at)
    BY <1>1, <1>4, <2>1, Zenon DEF Emits
  <2>3. h[k + 1] = emit(h[k], ns[k + 1], at)
    BY <2>1, Zenon DEF Emits
  <2> QED
    BY <1>1, <1>6, <2>1, <2>2, <2>3
<1>7. 0 .. m \subseteq P
  <2> HIDE DEF P
  <2> QED
    BY <1>0, <1>5, <1>6, RangeInduction
<1> QED
  BY <1>0, <1>4, <1>7 DEF us

\* Every node adds as many words as it has places, and they stay.
\* The words of the k-th node are where the emitter stood.
Written(h, ns, at, k) ==
    LET ws == words(ns[k].i, h[k - 1].base, at)
    IN  /\ Len(ws) = places(ns[k])
        /\ \A j \in 1 .. Len(ws) : h[k].words[Len(h[k - 1].words) + j] = ws[j]

LEMMA EmitSteps ==
    ASSUME NEW ns, NEW at, Emittable(ns, at), NEW h, Emits(h, ns, at), NEW k \in 1 .. Len(ns)
    PROVE  /\ ns[k] \in Node /\ h[k - 1] \in Out /\ h[k] \in Out
           /\ places(ns[k]) \in 0 .. 2
           /\ Len(h[k].words) = Len(h[k - 1].words) + places(ns[k])
           /\ \A j \in 1 .. Len(h[k - 1].words) : h[k].words[j] = h[k - 1].words[j]
           /\ ns[k].kind = "Instruction" => Written(h, ns, at, k)
<1>1. k \in DOMAIN ns /\ ns[k] \in Node /\ at \in Maps /\ Len(ns) \in Nat
  BY SeqFacts DEF Emittable
<1>2. ns[k].kind = "Instruction" => Decodes(ns[k].i, at)
  BY <1>1 DEF Emittable
<1>3. k - 1 \in 0 .. Len(ns) /\ k \in 0 .. Len(ns)
  BY <1>1
<1>4. h[k - 1] \in Out /\ h[k] \in Out /\ h[k] = emit(h[k - 1], ns[k], at)
  BY <1>3 DEF Emits
<1> DEFINE out == h[k - 1]
           node == ns[k]
<1>5. out \in Out /\ node \in Node /\ (node.kind = "Instruction" => Decodes(node.i, at))
  BY <1>1, <1>2, <1>4
<1>6. h[k] = emit(out, node, at)
  BY <1>4
<1> HIDE DEF out, node
<1>7. /\ places(node) \in 0 .. 2
      /\ Len(h[k].words) = Len(out.words) + places(node)
      /\ \A j \in 1 .. Len(out.words) : h[k].words[j] = out.words[j]
      /\ node.kind = "Instruction" =>
            LET ws == words(node.i, out.base, at)
            IN  /\ Len(ws) = places(node)
                /\ \A j \in 1 .. Len(ws) : h[k].words[Len(out.words) + j] = ws[j]
  BY <1>1, <1>5, <1>6, EmitTyped
<1> QED
  BY <1>1, <1>4, <1>7, Zenon DEF out, node, Written

LEMMA EmitWords ==
    ASSUME NEW ns, NEW at, Emittable(ns, at), NEW h, Emits(h, ns, at), NEW k \in 1 .. Len(ns),
           ns[k].kind = "Instruction"
    PROVE  /\ Len(words(ns[k].i, h[k - 1].base, at)) = places(ns[k])
           /\ \A j \in 1 .. Len(words(ns[k].i, h[k - 1].base, at)) :
                 h[k].words[Len(h[k - 1].words) + j] = words(ns[k].i, h[k - 1].base, at)[j]
<1>1. Written(h, ns, at, k)
  BY EmitSteps
<1> QED
  BY <1>1, Zenon DEF Written

LEMMA EmitKeeps ==
    ASSUME NEW ns, NEW at, Emittable(ns, at), NEW h, Emits(h, ns, at), NEW m \in 0 .. Len(ns)
    PROVE  LET all == h[Len(ns)].words
           IN  /\ all \in Seq(CodeWord) /\ Len(h[m].words) \in 0 .. Len(all)
               /\ \A j \in 1 .. Len(h[m].words) : all[j] = h[m].words[j]
<1> DEFINE n == Len(ns)
           all == h[n].words
           kept(k) == /\ Len(h[k].words) \in 0 .. Len(all)
                      /\ \A j \in 1 .. Len(h[k].words) : all[j] = h[k].words[j]
           P == { d \in 0 .. n : kept(n - d) }
<1>0. ASSUME NEW k \in 1 .. n
      PROVE  /\ places(ns[k]) \in 0 .. 2
             /\ Len(h[k].words) = Len(h[k - 1].words) + places(ns[k])
             /\ \A j \in 1 .. Len(h[k - 1].words) : h[k].words[j] = h[k - 1].words[j]
  BY EmitSteps
<1>1. n \in Nat
  BY DEF Emittable
<1>2. \A k \in 0 .. n : h[k].words \in Seq(CodeWord) /\ Len(h[k].words) \in Nat
  BY DEF Emits, Out
<1> HIDE DEF n
<1>3. 0 \in P
  BY <1>1, <1>2
<1>4. ASSUME NEW d \in 0 .. n - 1, d \in P PROVE d + 1 \in P
  <2> DEFINE k == n - d
  <2>1. k \in 1 .. n /\ k - 1 = n - (d + 1) /\ d + 1 \in 0 .. n /\ k - 1 \in 0 .. n /\ k \in 0 .. n
    BY <1>1
  <2>2. kept(k)
    BY <1>4
  <2> HIDE DEF k
  <2>3. /\ places(ns[k]) \in 0 .. 2
        /\ Len(h[k].words) = Len(h[k - 1].words) + places(ns[k])
        /\ \A j \in 1 .. Len(h[k - 1].words) : h[k].words[j] = h[k - 1].words[j]
    BY <1>0, <2>1
  <2> HIDE DEF all
  <2>4. kept(k - 1)
    <3> DEFINE l == Len(h[k].words)
               l1 == Len(h[k - 1].words)
    <3>1. l \in Nat /\ l1 \in Nat /\ l1 <= l /\ l <= Len(all) /\ Len(all) \in Nat
      <4>1. l \in Nat /\ l1 \in Nat
        BY <1>2, <2>1
      <4>2. l <= Len(all) /\ Len(all) \in Nat
        BY <1>1, <1>2, <2>1, <2>2 DEF all
      <4>3. l = l1 + places(ns[k]) /\ places(ns[k]) \in 0 .. 2
        BY <2>3
      <4> HIDE DEF l, l1
      <4> QED
        BY <4>1, <4>2, <4>3
    <3>2. l1 \in 0 .. Len(all) /\ \A j \in 1 .. l1 : j \in 1 .. l
      BY <3>1
    <3> HIDE DEF l, l1
    <3> QED
      BY <2>2, <2>3, <3>2 DEF l, l1
  <2> QED
    BY <2>1, <2>4
<1> HIDE DEF kept
<1>5. 0 .. n \subseteq P
  <2> HIDE DEF P
  <2> QED
    BY <1>1, <1>3, <1>4, RangeInduction
<1>6. n - m \in 0 .. n /\ n - (n - m) = m /\ n \in 0 .. n
  BY <1>1 DEF n
<1>7. kept(m)
  BY <1>5, <1>6
<1> QED
  BY <1>2, <1>6, <1>7 DEF kept, n

(***************************************************************************)
(* The resolver.                                                           *)
(***************************************************************************)
Located == [at : Maps, position : Nat, duplicate : BOOLEAN]

\* A node that has an address.
Named(node) == node.kind \in {"Label", "Word"}

\* The resolver goes on by as many bytes as the emitter writes, keeps the addresses it
\* has, and gives a node that has one the place it has come to.
LEMMA LocatedTyped ==
    ASSUME NEW map \in Located, NEW node \in Node
    PROVE  LET next == located(map, node)
           IN  /\ next \in Located
               /\ next.position = map.position + WORD_SIZE * places(node)
               /\ map.duplicate => next.duplicate
               /\ ~ next.duplicate =>
                     /\ DOMAIN next.at =
                           DOMAIN map.at \union (IF Named(node) THEN {node.name} ELSE {})
                     /\ \A name \in DOMAIN map.at : next.at[name] = map.at[name]
                     /\ Named(node) => next.at[node.name] = map.position
<1> DEFINE next == located(map, node)
<1>1. map.at \in Maps /\ map.position \in Nat /\ map.duplicate \in BOOLEAN
  BY DEF Located
<1>2. CASE Named(node)
  <2> DEFINE name == node.name
             mid == named(map, name)
             extra == IF node.kind = "Word" THEN 4 ELSE 0
  <2>1. name \in STRING
    BY <1>2, NodeFacts DEF Named
  <2>2. next = IF node.kind = "Word" THEN [mid EXCEPT !.position = @ + 4] ELSE mid
    BY <1>2 DEF located, Named
  <2>3. WORD_SIZE * places(node) = extra /\ extra \in Nat
    BY <1>2 DEF places, Named, WORD_SIZE
  <2> HIDE DEF next, extra
  <2>4. CASE name \in DOMAIN map.at
    <3>1. mid = [map EXCEPT !.duplicate = TRUE]
      BY <2>4 DEF named
    <3>2. mid \in Located /\ mid.position = map.position /\ mid.duplicate
      BY <1>1, <3>1 DEF Located
    <3> HIDE DEF mid
    <3>3. next \in Located /\ next.position = map.position + extra /\ next.duplicate
      BY <1>1, <2>2, <3>2 DEF Located, extra
    <3> QED
      BY <2>3, <3>3 DEF next
  <2>5. CASE name \notin DOMAIN map.at
    <3> DEFINE at == put(map.at, name, map.position)
    <3>1. mid = [map EXCEPT !.at = at]
      BY <2>5 DEF named
    <3>2. /\ at \in Maps /\ DOMAIN at = DOMAIN map.at \union {name}
          /\ \A x \in DOMAIN map.at : at[x] = map.at[x]
          /\ at[name] = map.position
      BY <1>1, <2>1, <2>5, PutTyped DEF put
    <3> HIDE DEF at
    <3>3. /\ mid \in Located /\ mid.position = map.position /\ mid.at = at
          /\ mid.duplicate = map.duplicate
      BY <1>1, <3>1, <3>2 DEF Located
    <3> HIDE DEF mid
    <3>4. /\ next \in Located /\ next.position = map.position + extra /\ next.at = at
          /\ next.duplicate = map.duplicate
      BY <1>1, <2>2, <3>3 DEF Located, extra
    <3> QED
      BY <1>2, <2>3, <3>2, <3>4 DEF next
  <2> QED
    BY <2>4, <2>5
<1>3. CASE node.kind = "Instruction"
  <2>1. node.i.op[2] \in Forms
    <3>1. node.i \in Instruction
      BY <1>3, NodeFacts
    <3>2. node.i.op \in Ops
      BY <3>1 DEF Instruction
    <3> QED
      BY <3>2, Decoding
  <2>2. length(node.i.op) = WORD_SIZE * places(node) /\ length(node.i.op) \in Nat
    <3>1. length(node.i.op) = IF node.i.op[2] \in Wide THEN 8 ELSE 4
      BY <2>1, Lengths
    <3>2. places(node) = IF node.i.op[2] \in Wide THEN 2 ELSE 1
      BY <1>3 DEF places
    <3> QED
      BY <3>1, <3>2 DEF WORD_SIZE
  <2>3. next = [map EXCEPT !.position = @ + length(node.i.op)] /\ ~ Named(node)
    BY <1>3 DEF located, Named
  <2> HIDE DEF next
  <2>4. /\ next \in Located /\ next.position = map.position + length(node.i.op)
        /\ next.at = map.at /\ next.duplicate = map.duplicate
    BY <1>1, <2>2, <2>3 DEF Located
  <2> QED
    BY <2>2, <2>3, <2>4 DEF next
<1>4. CASE node.kind = "Base"
  <2>1. next = map /\ ~ Named(node) /\ places(node) = 0
    BY <1>4 DEF located, Named, places
  <2> QED
    BY <1>1, <2>1 DEF WORD_SIZE
<1> QED
  BY <1>2, <1>3, <1>4, NodeFacts DEF Named

Start == [at |-> NoMap, position |-> 0, duplicate |-> FALSE]

Locates(p, ns) ==
    /\ p \in [0 .. Len(ns) -> Located] /\ p[0] = Start
    /\ \A k \in 1 .. Len(ns) : p[k] = located(p[k - 1], ns[k])

LEMMA LocateTrace ==
    ASSUME NEW ns \in Seq(Node)
    PROVE  \E p : Locates(p, ns) /\ resolved(ns) = p[Len(ns)]
<1> DEFINE n == Len(ns)
           Folds(g) == g = [T \in SUBSET DOMAIN ns |->
                              IF T = {} THEN Start ELSE located(g[T \ {Max(T)}], ns[Max(T)])]
<1>1. resolved(ns) = (CHOOSE g : Folds(g))[DOMAIN ns]
  BY Zenon DEF resolved, FoldLeft, MapThenFoldSet, Start
<1>2. n \in Nat /\ DOMAIN ns = 1 .. n /\ \A k \in 1 .. n : ns[k] \in Node
  BY SeqFacts
<1>3. \A map \in Located : \A k \in 1 .. n : located(map, ns[k]) \in Located
  BY <1>2, LocatedTyped
<1>4. Start \in Located
  <2>1. NoMap \in [{} -> Nat]
    BY DEF NoMap
  <2>2. NoMap \in Maps
    BY <2>1 DEF Maps
  <2> QED
    BY <2>2 DEF Start, Located
<1> DEFINE F == [a \in Located \X (1 .. n) |-> located(a[1], ns[a[2]])]
<1> HIDE DEF n
<1>5. F \in [Located \X (1 .. n) -> Located]
  BY <1>3
<1>6. \A map \in Located, k \in 1 .. n : F[<<map, k>>] = located(map, ns[k])
  OBVIOUS
<1> HIDE DEF F
<1>7. PICK f \in [SUBSET (1 .. n) -> Located] : Folded(f, Start, n, F)
  BY <1>2, <1>4, <1>5, FoldExists
<1>8. ASSUME NEW T \in SUBSET (1 .. n), T # {}
      PROVE  F[<<f[T \ {Max(T)}], Max(T)>>] = located(f[T \ {Max(T)}], ns[Max(T)])
  <2>1. Max(T) \in 1 .. n /\ f[T \ {Max(T)}] \in Located
    BY <1>2, <1>8, MaxIsElement
  <2> QED
    BY <1>6, <2>1
<1>9. Folds(f)
  BY <1>2, <1>7, <1>8, Zenon DEF Folded
<1>10. PICK g : Folds(g) /\ resolved(ns) = g[1 .. n]
  BY <1>1, <1>2, <1>9
<1>11. Steps(g, Located, Start, n, F)
  <2>1. g[{}] = Start
    BY <1>10
  <2>2. ASSUME NEW T \in SUBSET (1 .. n), T # {}, g[T \ {Max(T)}] \in Located
        PROVE  g[T] = F[<<g[T \ {Max(T)}], Max(T)>>]
    <3>1. g[T] = located(g[T \ {Max(T)}], ns[Max(T)]) /\ Max(T) \in 1 .. n
      BY <1>2, <1>10, <2>2, MaxIsElement
    <3> QED
      BY <1>6, <2>2, <3>1
  <2> QED
    BY <2>1, <2>2, Zenon DEF Steps
<1>12. PICK p \in [0 .. n -> Located] : Runs(p, Start, n, F, g[1 .. n])
  BY <1>2, <1>4, <1>5, <1>11, FoldRun
<1>13. ASSUME NEW k \in 1 .. n PROVE p[k] = located(p[k - 1], ns[k])
  <2>1. p[k - 1] \in Located
    BY <1>2, <1>12
  <2>2. p[k] = F[<<p[k - 1], k>>]
    BY <1>12, Zenon DEF Runs
  <2> QED
    BY <1>6, <2>1, <2>2
<1>14. p[0] = Start /\ p[n] = resolved(ns)
  BY <1>10, <1>12, Zenon DEF Runs
<1> QED
  BY <1>12, <1>13, <1>14 DEF Locates, n

LEMMA LocateSteps ==
    ASSUME NEW ns \in Seq(Node), NEW p, Locates(p, ns), NEW k \in 1 .. Len(ns)
    PROVE  LET node == ns[k]
               map == p[k - 1]
               next == p[k]
           IN  /\ node \in Node /\ map \in Located /\ next \in Located
               /\ next.position = map.position + WORD_SIZE * places(node)
               /\ map.duplicate => next.duplicate
               /\ ~ next.duplicate =>
                     /\ DOMAIN next.at =
                           DOMAIN map.at \union (IF Named(node) THEN {node.name} ELSE {})
                     /\ \A name \in DOMAIN map.at : next.at[name] = map.at[name]
                     /\ Named(node) => next.at[node.name] = map.position
<1> DEFINE node == ns[k]
           map == p[k - 1]
           next == p[k]
<1>1. node \in Node /\ k - 1 \in 0 .. Len(ns) /\ k \in 0 .. Len(ns)
  BY SeqFacts
<1>2. map \in Located /\ next \in Located /\ next = located(map, node)
  BY <1>1 DEF Locates
<1> HIDE DEF node, map, next
<1>3. LET after1 == located(map, node)
      IN  /\ after1.position = map.position + WORD_SIZE * places(node)
          /\ map.duplicate => after1.duplicate
          /\ ~ after1.duplicate =>
                /\ DOMAIN after1.at =
                      DOMAIN map.at \union (IF Named(node) THEN {node.name} ELSE {})
                /\ \A name \in DOMAIN map.at : after1.at[name] = map.at[name]
                /\ Named(node) => after1.at[node.name] = map.position
  BY <1>1, <1>2, LocatedTyped
<1> QED
  BY <1>1, <1>2, <1>3, Zenon DEF node, map, next

\* When no name came twice, every label and every word of data has the place the resolver
\* had come to, and nothing else has an address.
LEMMA AddressesOf ==
    ASSUME NEW ns \in Seq(Node), NEW p, Locates(p, ns), ~ p[Len(ns)].duplicate
    PROVE  /\ \A k \in 1 .. Len(ns) :
                 Named(ns[k]) => /\ ns[k].name \in DOMAIN p[Len(ns)].at
                                 /\ p[Len(ns)].at[ns[k].name] = p[k - 1].position
           /\ \A name \in DOMAIN p[Len(ns)].at :
                 \E k \in 1 .. Len(ns) : Named(ns[k]) /\ ns[k].name = name
<1> DEFINE n == Len(ns)
           all == p[n].at
           kept(k) == /\ ~ p[k].duplicate
                      /\ \A name \in DOMAIN p[k].at :
                            name \in DOMAIN all /\ all[name] = p[k].at[name]
           P == { d \in 0 .. n : kept(n - d) }
           named1(k) == \A name \in DOMAIN p[k].at :
                          \E l \in 1 .. n : Named(ns[l]) /\ ns[l].name = name
           Q == { k \in 0 .. n : named1(k) }
<1>1. n \in Nat
  BY SeqFacts
<1>2. ~ p[n].duplicate
  OBVIOUS
<1> HIDE DEF n
<1>3. 0 \in P
  BY <1>1, <1>2
<1>4. ASSUME NEW d \in 0 .. n - 1, d \in P PROVE d + 1 \in P
  <2> DEFINE k == n - d
  <2>1. k \in 1 .. n /\ k - 1 = n - (d + 1) /\ d + 1 \in 0 .. n
    BY <1>1
  <2>2. kept(k)
    BY <1>4
  <2> HIDE DEF k, all
  <2>3. /\ p[k - 1].duplicate => p[k].duplicate
        /\ ~ p[k].duplicate =>
              \A name \in DOMAIN p[k - 1].at :
                 name \in DOMAIN p[k].at /\ p[k].at[name] = p[k - 1].at[name]
    BY <2>1, LocateSteps DEF n
  <2>4. kept(k - 1)
    BY <2>2, <2>3
  <2> QED
    BY <2>1, <2>4
<1>5. 0 .. n \subseteq P
  <2> HIDE DEF P
  <2> QED
    BY <1>1, <1>3, <1>4, RangeInduction
<1>6. \A k \in 0 .. n : kept(k)
  <2> SUFFICES ASSUME NEW k \in 0 .. n PROVE kept(k)
    OBVIOUS
  <2>1. n - k \in 0 .. n /\ n - (n - k) = k
    BY <1>1
  <2> HIDE DEF kept
  <2> QED
    BY <1>5, <2>1
<1>7. 0 \in Q
  <2>1. DOMAIN p[0].at = {}
    BY DEF Locates, Start, NoMap
  <2> QED
    BY <1>1, <2>1
<1>8. ASSUME NEW k \in 0 .. n - 1, k \in Q PROVE k + 1 \in Q
  <2> DEFINE l == k + 1
  <2>1. l \in 1 .. n /\ l \in 0 .. n /\ l - 1 = k
    BY <1>1
  <2> HIDE DEF l
  <2>2. ~ p[l].duplicate
    BY <1>6, <2>1
  <2>3. DOMAIN p[l].at = DOMAIN p[l - 1].at \union (IF Named(ns[l]) THEN {ns[l].name} ELSE {})
    BY <2>1, <2>2, LocateSteps DEF n
  <2>4. named1(k)
    BY <1>8
  <2>5. named1(l)
    BY <2>1, <2>3, <2>4
  <2> QED
    BY <2>1, <2>5 DEF l
<1>9. 0 .. n \subseteq Q
  <2> HIDE DEF Q
  <2> QED
    BY <1>1, <1>7, <1>8, RangeInduction
<1>10. named1(n)
  BY <1>1, <1>9
<1>11. ASSUME NEW k \in 1 .. n, Named(ns[k])
       PROVE  ns[k].name \in DOMAIN all /\ all[ns[k].name] = p[k - 1].position
  <2>1. kept(k)
    BY <1>1, <1>6
  <2>2. ns[k].name \in DOMAIN p[k].at /\ p[k].at[ns[k].name] = p[k - 1].position
    BY <1>11, <2>1, LocateSteps DEF n
  <2> QED
    BY <2>1, <2>2
<1> QED
  BY <1>10, <1>11 DEF n

\* The resolver and the emitter are at the same place after every node.
LEMMA SamePlaces ==
    ASSUME NEW ns, NEW at, Emittable(ns, at), NEW h, Emits(h, ns, at), NEW p, Locates(p, ns),
           NEW m \in 0 .. Len(ns)
    PROVE  p[m].position = WORD_SIZE * Len(h[m].words)
<1> DEFINE n == Len(ns)
           same(k) == p[k].position = WORD_SIZE * Len(h[k].words)
           P == { k \in 0 .. n : same(k) }
<1>1. ns \in Seq(Node) /\ n \in Nat
  BY DEF Emittable
<1> HIDE DEF n
<1>2. 0 \in P
  <2>1. p[0].position = 0 /\ h[0].words = <<>>
    BY DEF Locates, Emits, Start, Blank
  <2> QED
    BY <1>1, <2>1 DEF WORD_SIZE
<1>3. ASSUME NEW k \in 0 .. n - 1, k \in P PROVE k + 1 \in P
  <2> DEFINE l == k + 1
  <2>1. l \in 1 .. n /\ l \in 0 .. n /\ l - 1 = k
    BY <1>1
  <2> HIDE DEF l
  <2>2. p[l].position = p[l - 1].position + WORD_SIZE * places(ns[l])
    BY <1>1, <2>1, LocateSteps DEF n
  <2>3. /\ places(ns[l]) \in 0 .. 2 /\ h[l - 1] \in Out
        /\ Len(h[l].words) = Len(h[l - 1].words) + places(ns[l])
    BY <2>1, EmitSteps DEF n
  <2>4. Len(h[l - 1].words) \in Nat
    BY <2>3 DEF Out
  <2>5. same(l - 1)
    BY <1>3, <2>1
  <2>6. same(l)
    BY <2>2, <2>3, <2>4, <2>5 DEF WORD_SIZE
  <2> QED
    BY <2>1, <2>6 DEF l
<1> HIDE DEF same
<1>4. 0 .. n \subseteq P
  <2> HIDE DEF P
  <2> QED
    BY <1>1, <1>2, <1>3, RangeInduction
<1>5. same(m)
  BY <1>4 DEF n
<1> QED
  BY <1>5 DEF same

(***************************************************************************)
(* The image that is written.                                              *)
(***************************************************************************)
\* The two passes over the nodes, when there is an image.
Passes(h, p) ==
    /\ Emittable(nodes, addresses) /\ Emits(h, nodes, addresses)
    /\ Locates(p, nodes) /\ ~ p[Len(nodes)].duplicate
    /\ addresses = p[Len(nodes)].at /\ code = h[Len(nodes)].words

LEMMA DonePasses ==
    ASSUME ParserInv, ProgramInv, stage = "done"
    PROVE  \E h, p : Passes(h, p)
<1>1. nodes \in Seq(Node)
  BY DEF ParserInv
<1>2. PICK p : Locates(p, nodes) /\ resolved(nodes) = p[Len(nodes)]
  BY <1>1, LocateTrace
<1>3. Found /\ Decodable /\ code = emitted(nodes, addresses).words
  BY DEF ProgramInv
<1>4. addresses = p[Len(nodes)].at /\ ~ p[Len(nodes)].duplicate
  BY <1>2, <1>3, Zenon DEF Found
<1>5. addresses \in Maps
  <2>1. Len(nodes) \in 0 .. Len(nodes)
    BY <1>1
  <2>2. p[Len(nodes)] \in Located
    BY <1>2, <2>1 DEF Locates
  <2> QED
    BY <1>4, <2>2 DEF Located
<1>6. Emittable(nodes, addresses)
  <2>1. ASSUME NEW k \in DOMAIN nodes, nodes[k].kind = "Instruction"
        PROVE  Decodes(nodes[k].i, addresses)
    <3>1. nodes[k].i \in instructions(nodes)
      BY <2>1 DEF instructions
    <3>2. decodes(nodes[k].i)
      BY <1>3, <3>1 DEF Decodable
    <3> QED
      BY <3>2 DEF decodes, Decodes
  <2> QED
    BY <1>1, <1>5, <2>1 DEF Emittable
<1>7. PICK h : Emits(h, nodes, addresses) /\ emitted(nodes, addresses) = h[Len(nodes)]
  BY <1>6, EmitTrace
<1> QED
  BY <1>2, <1>3, <1>4, <1>6, <1>7, Zenon DEF Passes

LEMMA StartsAt ==
    ASSUME NEW h, NEW p, Passes(h, p), NEW k \in 1 .. Len(nodes) + 1
    PROVE  /\ before(k) = h[k - 1] /\ start(k) = WORD_SIZE * Len(h[k - 1].words)
           /\ p[k - 1].position = start(k)
<1>1. k - 1 \in 0 .. Len(nodes)
  <2>1. Len(nodes) \in Nat
    BY DEF Passes, Emittable
  <2> QED
    BY <2>1
<1>2. before(k) = h[k - 1]
  BY <1>1, EmitPrefix DEF before, Passes
<1>3. start(k) = WORD_SIZE * Len(h[k - 1].words)
  BY <1>2 DEF start
<1>4. p[k - 1].position = WORD_SIZE * Len(h[k - 1].words)
  BY <1>1, SamePlaces DEF Passes
<1> QED
  BY <1>2, <1>3, <1>4

LEMMA LabelsAreExact ==
    ASSUME NEW h, NEW p, Passes(h, p)
    PROVE  /\ \A k \in DOMAIN nodes :
                 Named(nodes[k]) => addresses[nodes[k].name] = start(k)
           /\ \A name \in DOMAIN addresses :
                 \E k \in DOMAIN nodes : Named(nodes[k]) /\ nodes[k].name = name
<1>1. nodes \in Seq(Node)
  BY DEF Passes, Emittable
<1>2. DOMAIN nodes = 1 .. Len(nodes) /\ Len(nodes) \in Nat
  BY <1>1, SeqFacts
<1>3. ASSUME NEW k \in DOMAIN nodes, Named(nodes[k])
      PROVE  addresses[nodes[k].name] = start(k)
  <2>1. k \in 1 .. Len(nodes) /\ k \in 1 .. Len(nodes) + 1
    BY <1>2
  <2>2. addresses[nodes[k].name] = p[k - 1].position
    BY <1>1, <1>3, <2>1, AddressesOf DEF Passes
  <2> QED
    BY <2>1, <2>2, StartsAt
<1>4. \A name \in DOMAIN addresses :
         \E k \in DOMAIN nodes : Named(nodes[k]) /\ nodes[k].name = name
  BY <1>1, <1>2, AddressesOf DEF Passes
<1> QED
  BY <1>3, <1>4

\* The address the resolver gives a label (the lengths of op.rs) is the place at which the
\* emitter writes what follows it, in every program the assembler accepts.
THEOREM LabelsExactHolds == Spec => []LabelsExact
<1>1. ParserInv /\ ProgramInv => LabelsExact
  <2> SUFFICES ASSUME ParserInv, ProgramInv, stage = "done",
                      NEW k \in DOMAIN nodes, nodes[k].kind \in {"Label", "Word"}
               PROVE  addresses[nodes[k].name] = start(k)
    BY DEF LabelsExact
  <2>1. PICK h, p : Passes(h, p)
    BY DonePasses
  <2> QED
    BY <2>1, LabelsAreExact DEF Named
<1>2. Init => ParserInv /\ ProgramInv
  BY InitParser, InitProgram
<1>3. ParserInv /\ ProgramInv /\ [Next]_vars => (ParserInv /\ ProgramInv)'
  BY StepParser, StepProgram
<1> QED
  BY <1>1, <1>2, <1>3, PTL DEF Spec

\* The stages are those of main, what is read and made is typed, and the image is made of
\* words of four bytes and of words of one value.
THEOREM AsmTypeCorrect == Spec => []TypeOK
<1>1. ParserInv /\ ProgramInv => TypeOK
  <2> SUFFICES ASSUME ParserInv, ProgramInv PROVE TypeOK
    OBVIOUS
  <2>1. /\ stage \in Stages
        /\ stage \notin {"parse", "refused"} => files = <<>> /\ tokens = <<>>
    BY DEF ParserInv
  <2>2. \A k \in DOMAIN nodes : nodes[k].kind \in {"Label", "Base", "Word", "Instruction"}
    BY SeqFacts, NodeFacts DEF ParserInv
  <2>3. \A i \in instructions(nodes) : i.op \in Ops
    BY InstructionsTyped DEF Instruction
  <2>4. code \in Seq(CodeWord)
    <3>1. CASE stage = "done"
      <4>1. PICK h, p : Passes(h, p)
        BY <3>1, DonePasses
      <4>2. Len(nodes) \in 0 .. Len(nodes)
        BY DEF ParserInv
      <4> QED
        BY <4>1, <4>2 DEF Passes, Emits, Out
    <3>2. CASE stage # "done"
      BY <3>2 DEF ProgramInv
    <3> QED
      BY <3>1, <3>2
  <2>5. \A w \in CodeWord : \/ Len(w) = 1 /\ w[1] \in Nat
                            \/ Len(w) = 4 /\ ToSet(w) \subseteq 0 .. 255
    <3> SUFFICES ASSUME NEW w \in CodeWord PROVE \/ Len(w) = 1 /\ w[1] \in Nat
                                                 \/ Len(w) = 4 /\ ToSet(w) \subseteq 0 .. 255
      OBVIOUS
    <3>1. CASE w \in [1 .. 1 -> Nat]
      BY <3>1, SeqMade
    <3>2. CASE w \in [1 .. 4 -> 0 .. 255]
      <4>1. Len(w) = 4
        BY <3>2, SeqMade
      <4> QED
        BY <3>2, <4>1 DEF ToSet
    <3> QED
      BY <3>1, <3>2 DEF CodeWord
  <2>6. \A k \in DOMAIN code : code[k] \in CodeWord
    BY <2>4, SeqFacts
  <2> QED
    BY <2>1, <2>2, <2>3, <2>5, <2>6, Zenon DEF TypeOK, Stages
<1>2. Init => ParserInv /\ ProgramInv
  BY InitParser, InitProgram
<1>3. ParserInv /\ ProgramInv /\ [Next]_vars => (ParserInv /\ ProgramInv)'
  BY StepParser, StepProgram
<1> QED
  BY <1>1, <1>2, <1>3, PTL DEF Spec

(***************************************************************************)
(* What the processor takes from the image.                                *)
(***************************************************************************)
\* The places of a form that are bytes of the first word.
byte_places(form) == {n \in DOMAIN form : form[n] \in {"r", "b"}}

LEMMA FormFacts ==
    /\ \A form \in Forms : has_immediate(form) <=> form \in Wide
    /\ byte_places(R) = 1 .. 1 /\ byte_places(RW) = 1 .. 1 /\ byte_places(B) = 1 .. 1
    /\ byte_places(RR) = 1 .. 2 /\ byte_places(RRW) = 1 .. 2 /\ byte_places(RRR) = 1 .. 3
<1>1. /\ ToSet(None) = {} /\ ToSet(R) = {"r"} /\ ToSet(RR) = {"r"} /\ ToSet(RRR) = {"r"}
      /\ ToSet(W) = {"w"} /\ ToSet(RW) = {"r", "w"} /\ ToSet(RRW) = {"r", "w"}
      /\ ToSet(B) = {"b"} /\ ToSet(S) = {"s"} /\ ToSet(A) = {"a"}
  <2>1. ToSet(None) = {} /\ ToSet(R) = {"r"} /\ ToSet(W) = {"w"} /\ ToSet(B) = {"b"}
        /\ ToSet(S) = {"s"} /\ ToSet(A) = {"a"}
    BY DEF ToSet, None, R, W, B, S, A
  <2>2. ToSet(RR) = {"r"} /\ ToSet(RW) = {"r", "w"}
    <3>1. DOMAIN RR = {1, 2} /\ DOMAIN RW = {1, 2}
      BY DEF RR, RW
    <3> QED
      BY <3>1 DEF ToSet, RR, RW
  <2>3. ToSet(RRR) = {"r"} /\ ToSet(RRW) = {"r", "w"}
    <3>1. DOMAIN RRR = {1, 2, 3} /\ DOMAIN RRW = {1, 2, 3}
      BY DEF RRR, RRW
    <3> QED
      BY <3>1 DEF ToSet, RRR, RRW
  <2> QED
    BY <2>1, <2>2, <2>3
<1>2. ASSUME NEW form \in Forms PROVE has_immediate(form) <=> form \in Wide
  <2>1. CASE form \in Wide
    <3>1. "w" \in ToSet(form) \/ "s" \in ToSet(form) \/ "a" \in ToSet(form)
      BY <1>1, <2>1 DEF Wide
    <3> QED
      BY <2>1, <3>1 DEF has_immediate
  <2>2. CASE form \notin Wide
    <3>1. form \in {None, R, RR, RRR, B}
      BY <2>2 DEF Forms, Wide
    <3>2. ToSet(form) \subseteq {"r", "b"}
      BY <1>1, <3>1
    <3> QED
      BY <2>2, <3>2 DEF has_immediate
  <2> QED
    BY <2>1, <2>2
<1>3. byte_places(R) = 1 .. 1 /\ byte_places(RW) = 1 .. 1 /\ byte_places(B) = 1 .. 1
  BY DEF byte_places, R, RW, B
<1>4. byte_places(RR) = 1 .. 2 /\ byte_places(RRW) = 1 .. 2
  BY DEF byte_places, RR, RRW
<1>5. byte_places(RRR) = 1 .. 3
  BY DEF byte_places, RRR
<1> QED
  BY <1>2, <1>3, <1>4, <1>5

\* Where the parser finds registers, or the byte of INT, the processor looks for bytes.
LEMMA BytePlaces ==
    ASSUME NEW i \in Instruction
    PROVE  /\ i.r # <<>> => byte_places(i.op[2]) = DOMAIN i.r
           /\ i.op[2] = B => i.kind = "IB" /\ byte_places(i.op[2]) = DOMAIN i.w
<1>1. /\ i.r \in Seq(STRING) /\ i.w \in Seq(Nat)
      /\ <<i.kind, i.op[2], Len(i.r), Len(i.w), Len(i.a)>> \in Shapes
  BY DEF Instruction
<1>2. DOMAIN i.r = 1 .. Len(i.r) /\ DOMAIN i.w = 1 .. Len(i.w)
  BY <1>1, SeqFacts
<1>3. i.r # <<>> => Len(i.r) # 0
  BY <1>1
<1>4. Len(i.r) # 0 => \/ i.op[2] \in {R, RW} /\ Len(i.r) = 1
                      \/ i.op[2] \in {RR, RRW} /\ Len(i.r) = 2
                      \/ i.op[2] = RRR /\ Len(i.r) = 3
  BY <1>1 DEF Shapes
<1>5. i.op[2] = B => i.kind = "IB" /\ Len(i.w) = 1
  BY <1>1 DEF Shapes, None, R, RR, RRR, W, RW, RRW, B, S, A
<1> QED
  BY <1>2, <1>3, <1>4, <1>5, FormFacts

LEMMA WrittenWords ==
    ASSUME NEW h, NEW p, Passes(h, p), NEW k \in 1 .. Len(nodes),
           nodes[k].kind = "Instruction"
    PROVE  LET ws == words(nodes[k].i, h[k - 1].base, addresses)
           IN  /\ Len(ws) = places(nodes[k])
               /\ \A j \in 1 .. Len(ws) : h[k].words[Len(h[k - 1].words) + j] = ws[j]
<1>1. Emittable(nodes, addresses) /\ Emits(h, nodes, addresses)
  BY DEF Passes
<1> QED
  BY <1>1, EmitWords

\* The words of an instruction, read back where they were written.
LEMMA ReadBack ==
    ASSUME NEW h, NEW p, Passes(h, p), NEW k \in 1 .. Len(nodes),
           nodes[k].kind = "Instruction"
    PROVE  LET i == nodes[k].i
               ws == words(i, h[k - 1].base, addresses)
               wide == i.op[2] \in Wide
           IN  /\ i \in Instruction /\ Decodes(i, addresses) /\ h[k - 1].base \in Nat
               /\ word_at(code, start(k)) = ws[1]
               /\ wide => word_at(code, start(k) + WORD_SIZE) = ws[2]
               /\ start(k + 1) = start(k) + (IF wide THEN 2 ELSE 1) * WORD_SIZE
<1> DEFINE i == nodes[k].i
           ws == words(i, h[k - 1].base, addresses)
           wide == i.op[2] \in Wide
           l == Len(h[k - 1].words)
<1>1. nodes \in Seq(Node) /\ k \in DOMAIN nodes /\ Len(nodes) \in Nat
  BY SeqFacts DEF Passes, Emittable
<1>2. /\ i \in Instruction /\ Decodes(i, addresses)
      /\ h[k - 1] \in Out /\ l \in Nat /\ h[k - 1].base \in Nat
  <2>1. i \in Instruction
    BY <1>1, SeqFacts, NodeFacts
  <2>2. Decodes(i, addresses)
    BY DEF Passes, Emittable
  <2>3. h[k - 1] \in Out
    BY <1>1 DEF Passes, Emits
  <2> QED
    BY <2>1, <2>2, <2>3 DEF Out
<1>3. start(k) = WORD_SIZE * l /\ start(k + 1) = WORD_SIZE * Len(h[k].words)
  <2>1. k \in 1 .. Len(nodes) + 1 /\ k + 1 \in 1 .. Len(nodes) + 1 /\ (k + 1) - 1 = k
    BY <1>1
  <2> QED
    BY <2>1, StartsAt
<1>4. /\ Len(h[k].words) = l + places(nodes[k]) /\ Len(ws) = places(nodes[k])
      /\ \A j \in 1 .. Len(ws) : h[k].words[l + j] = ws[j]
  <2>1. Emittable(nodes, addresses) /\ Emits(h, nodes, addresses)
    BY DEF Passes
  <2>2. Len(h[k].words) = l + places(nodes[k])
    BY <1>1, <2>1, EmitSteps
  <2>3. /\ Len(ws) = places(nodes[k])
        /\ \A j \in 1 .. Len(ws) : h[k].words[l + j] = ws[j]
    BY WrittenWords
  <2> QED
    BY <2>2, <2>3
<1>5. places(nodes[k]) = IF wide THEN 2 ELSE 1
  BY DEF places
<1>6. \A j \in 1 .. Len(h[k].words) : code[j] = h[k].words[j]
  <2>1. k \in 0 .. Len(nodes)
    BY <1>1
  <2> QED
    BY <2>1, EmitKeeps DEF Passes
<1> HIDE DEF l, ws, wide, i
<1>7. code[l + 1] = ws[1] /\ (wide => code[l + 2] = ws[2])
  <2>1. Len(ws) \in {1, 2} /\ (wide => Len(ws) = 2)
    BY <1>4, <1>5
  <2>2. h[k].words[l + 1] = ws[1] /\ (wide => h[k].words[l + 2] = ws[2])
    BY <1>4, <2>1
  <2>3. l + 1 \in 1 .. Len(h[k].words) /\ (wide => l + 2 \in 1 .. Len(h[k].words))
    BY <1>2, <1>4, <2>1
  <2> QED
    BY <1>6, <2>2, <2>3
<1>8. \A x \in Nat : (4 * x) \div 4 = x /\ (4 * x + 4) \div 4 = x + 1
  OBVIOUS
<1>9. word_at(code, start(k)) = code[l + 1]
  BY <1>2, <1>3, <1>8 DEF word_at, WORD_SIZE
<1>10. word_at(code, start(k) + WORD_SIZE) = code[l + 2]
  BY <1>2, <1>3, <1>8 DEF word_at, WORD_SIZE
<1>11. start(k + 1) = start(k) + (IF wide THEN 2 ELSE 1) * WORD_SIZE
  <2>1. Len(h[k].words) = l + (IF wide THEN 2 ELSE 1)
    BY <1>4, <1>5
  <2> QED
    <3> DEFINE more == IF wide THEN 2 ELSE 1
    <3>1. more \in Nat /\ Len(h[k].words) = l + more
      BY <2>1
    <3> HIDE DEF more
    <3>2. \A x, y \in Nat : 4 * (x + y) = 4 * x + y * 4
      OBVIOUS
    <3>3. start(k + 1) = start(k) + more * WORD_SIZE
      BY <1>2, <1>3, <3>1, <3>2 DEF WORD_SIZE
    <3> QED
      BY <3>3 DEF more
<1> QED
  BY <1>2, <1>7, <1>9, <1>10, <1>11, Zenon DEF l, ws, wide, i

\* The number of an instruction, as the sequence it is kept in.
LEMMA OneNumber ==
    ASSUME NEW s \in Seq(Nat), Len(s) = 1
    PROVE  <<s[1]>> = s /\ [n \in DOMAIN s |-> s[1]] = s
<1>1. s \in [1 .. 1 -> Nat]
  BY SeqFacts
<1>2. <<s[1]>> \in [1 .. 1 -> Nat] /\ <<s[1]>>[1] = s[1]
  BY <1>1
<1>3. DOMAIN s = {1}
  BY <1>1
<1>4. <<s[1]>> = s
  BY <1>1, <1>2, <1>3
<1>5. [n \in DOMAIN s |-> s[1]] = s
  BY <1>1, <1>3
<1> QED
  BY <1>4, <1>5

\* FetchesAll, of one instruction.
FetchedAt(k) ==
    LET i == nodes[k].i
        f == fetched(code, start(k))
        base == IF i.absolute THEN before(k).base ELSE 0
    IN  /\ f.op = i.op /\ f.pc = start(k + 1)
        /\ i.r # <<>> => f.bytes = [n \in DOMAIN i.r |-> EmitterRegisters[i.r[n]]]
        /\ i.op[2] = B => f.bytes = i.w
        /\ i.kind \in {"IRW", "IRRW", "IW"} => f.word = i.w
        /\ i.a # <<>> =>
              \E l \in DOMAIN nodes : /\ nodes[l].kind \in {"Label", "Word"}
                                      /\ nodes[l].name = i.a[1]
                                      /\ f.word[1] - base = start(l)

LEMMA FetchesOne ==
    ASSUME NEW h, NEW p, Passes(h, p), NEW k \in 1 .. Len(nodes),
           nodes[k].kind = "Instruction"
    PROVE  FetchedAt(k)
<1> DEFINE i == nodes[k].i
           f == fetched(code, start(k))
           out == h[k - 1]
           base == IF i.absolute THEN out.base ELSE 0
           ws == words(i, out.base, addresses)
           wide == i.op[2] \in Wide
           image == code
           place == start(k)
<1>1. before(k) = out
  <2>1. k \in 1 .. Len(nodes) + 1
    BY DEF Passes, Emittable
  <2> QED
    BY <2>1, StartsAt
<1>2. /\ i \in Instruction /\ Decodes(i, addresses) /\ out.base \in Nat
      /\ word_at(image, place) = ws[1]
      /\ wide => word_at(image, place + WORD_SIZE) = ws[2]
      /\ start(k + 1) = place + (IF wide THEN 2 ELSE 1) * WORD_SIZE
  BY ReadBack
<1>3. addresses \in Maps
  BY DEF Passes, Emittable
<1>4. \A name \in DOMAIN addresses :
         \E l \in DOMAIN nodes : /\ nodes[l].kind \in {"Label", "Word"}
                                 /\ nodes[l].name = name /\ addresses[name] = start(l)
  <2> SUFFICES ASSUME NEW name \in DOMAIN addresses
               PROVE  \E l \in DOMAIN nodes : /\ nodes[l].kind \in {"Label", "Word"}
                                              /\ nodes[l].name = name
                                              /\ addresses[name] = start(l)
    OBVIOUS
  <2>1. PICK l \in DOMAIN nodes : Named(nodes[l]) /\ nodes[l].name = name
    BY LabelsAreExact
  <2>2. addresses[nodes[l].name] = start(l)
    BY <2>1, LabelsAreExact
  <2> QED
    BY <2>1, <2>2 DEF Named
<1>5. f = LET word == word_at(image, place)
              o == ops_array[word[1]]
              imm == has_immediate(o[2])
          IN  [op |-> o, bytes |-> [n \in byte_places(o[2]) |-> word[n + 1]],
               word |-> IF imm THEN word_at(image, place + WORD_SIZE) ELSE <<>>,
               pc |-> place + (IF imm THEN 2 ELSE 1) * WORD_SIZE]
  BY Zenon DEF fetched, byte_places
<1>6. /\ i.op \in Ops /\ i.r \in Seq(STRING) /\ i.w \in Seq(Nat) /\ i.a \in Seq(STRING)
      /\ i.absolute \in BOOLEAN /\ i.kind \in Kinds
      /\ <<i.kind, i.op[2], Len(i.r), Len(i.w), Len(i.a)>> \in Shapes
  BY <1>2 DEF Instruction
<1> HIDE DEF i, out, image, place, f
<1>7. /\ ws[1][1] = bytecode[i.op]
      /\ \A n \in DOMAIN operands(i) : n <= 3 => ws[1][n + 1] = operands(i)[n]
      /\ i.kind \in {"IRW", "IRRW", "IW"} => ws[2] = <<i.w[1]>>
      /\ i.kind \in {"IA", "IRA"} => ws[2] = <<base + addresses[i.a[1]]>>
  BY <1>2, <1>3, WordsOf
<1>8. ops_array[ws[1][1]] = i.op /\ (has_immediate(i.op[2]) <=> wide)
  BY <1>6, <1>7, Decoding, FormFacts
<1> HIDE DEF ws, wide, base
<1>9. /\ f.op = i.op
      /\ f.bytes = [n \in byte_places(i.op[2]) |-> ws[1][n + 1]]
      /\ wide => f.word = ws[2]
      /\ f.pc = place + (IF wide THEN 2 ELSE 1) * WORD_SIZE
  BY <1>2, <1>5, <1>8
<1>10. f.pc = start(k + 1)
  BY <1>2, <1>9
<1>11. i.r # <<>> => f.bytes = [n \in DOMAIN i.r |-> EmitterRegisters[i.r[n]]]
  <2> SUFFICES ASSUME i.r # <<>>
               PROVE  f.bytes = [n \in DOMAIN i.r |-> EmitterRegisters[i.r[n]]]
    OBVIOUS
  <2>1. byte_places(i.op[2]) = DOMAIN i.r /\ DOMAIN i.r = 1 .. Len(i.r)
    BY <1>2, <1>6, BytePlaces, SeqFacts
  <2>2. i.kind # "IB" /\ Len(i.r) \in 0 .. 3
    <3>1. i.kind # "IB"
      BY <1>2, KindOperands
    <3> QED
      BY <1>6, <3>1 DEF Shapes
  <2>3. operands(i) = [n \in DOMAIN i.r |-> EmitterRegisters[i.r[n]]]
    BY <2>2 DEF operands
  <2>4. \A n \in DOMAIN i.r : ws[1][n + 1] = EmitterRegisters[i.r[n]]
    <3> SUFFICES ASSUME NEW n \in DOMAIN i.r PROVE ws[1][n + 1] = EmitterRegisters[i.r[n]]
      OBVIOUS
    <3>1. n <= 3 /\ n \in DOMAIN operands(i) /\ operands(i)[n] = EmitterRegisters[i.r[n]]
      BY <2>1, <2>2, <2>3
    <3> QED
      BY <1>7, <3>1
  <2> QED
    BY <1>9, <2>1, <2>4
<1>12. i.op[2] = B => f.bytes = i.w
  <2> SUFFICES ASSUME i.op[2] = B PROVE f.bytes = i.w
    OBVIOUS
  <2>1. i.kind = "IB" /\ byte_places(i.op[2]) = DOMAIN i.w
    BY <1>2, BytePlaces
  <2>2. Len(i.w) = 1 /\ DOMAIN i.w = {1}
    BY <1>2, <1>6, <2>1, KindOperands, LenOne
  <2>3. operands(i) = i.w
    BY <2>1 DEF operands
  <2>4. ws[1][2] = i.w[1]
    <3>1. 1 \in DOMAIN operands(i) /\ 1 <= 3 /\ 1 + 1 = 2
      BY <2>2, <2>3
    <3> QED
      BY <1>7, <2>3, <3>1
  <2>5. f.bytes = [n \in DOMAIN i.w |-> i.w[1]]
    <3>1. \A n \in DOMAIN i.w : ws[1][n + 1] = i.w[1]
      BY <2>2, <2>4
    <3> QED
      BY <1>9, <2>1, <3>1
  <2> QED
    BY <1>6, <2>2, <2>5, OneNumber
<1>13. i.kind \in {"IRW", "IRRW", "IW"} => f.word = i.w
  <2> SUFFICES ASSUME i.kind \in {"IRW", "IRRW", "IW"} PROVE f.word = i.w
    OBVIOUS
  <2>1. Len(i.w) = 1
    BY <1>2, KindOperands
  <2>2. wide
    BY <1>6 DEF Shapes, wide, Wide
  <2> QED
    BY <1>6, <1>7, <1>9, <2>1, <2>2, OneNumber
<1>14. i.a # <<>> =>
          \E l \in DOMAIN nodes : /\ nodes[l].kind \in {"Label", "Word"}
                                  /\ nodes[l].name = i.a[1] /\ f.word[1] - base = start(l)
  <2> SUFFICES ASSUME i.a # <<>>
               PROVE  \E l \in DOMAIN nodes : /\ nodes[l].kind \in {"Label", "Word"}
                                              /\ nodes[l].name = i.a[1]
                                              /\ f.word[1] - base = start(l)
    OBVIOUS
  <2>1. i.kind \in {"IA", "IRA"} /\ Len(i.a) = 1
    BY <1>2, KindOperands
  <2>2. wide
    BY <1>6, <2>1 DEF Shapes, wide, Wide
  <2>3. f.word[1] = base + addresses[i.a[1]]
    BY <1>7, <1>9, <2>1, <2>2
  <2>4. i.a[1] \in DOMAIN addresses /\ addresses[i.a[1]] \in Nat
    <3>1. 1 \in DOMAIN i.a
      BY <1>6, <2>1, LenOne
    <3> QED
      BY <1>2, <1>3, <3>1 DEF Decodes, ToSet, Maps
  <2>5. base \in Nat
    BY <1>2, <1>6 DEF base
  <2>6. f.word[1] - base = addresses[i.a[1]]
    BY <2>3, <2>4, <2>5
  <2>7. PICK l \in DOMAIN nodes : /\ nodes[l].kind \in {"Label", "Word"}
                                  /\ nodes[l].name = i.a[1]
                                  /\ addresses[i.a[1]] = start(l)
    BY <1>4, <2>4
  <2> QED
    BY <2>6, <2>7
<1> QED
  BY <1>1, <1>9, <1>10, <1>11, <1>12, <1>13, <1>14 DEF FetchedAt, i, f, base, place, image

\* The processor decodes every instruction of every image the assembler writes to the
\* instruction it was assembled from (emitter.rs against ops_array.h and ops.c).
THEOREM FetchesAllHolds == Spec => []FetchesAll
<1>1. ParserInv /\ ProgramInv => FetchesAll
  <2> SUFFICES ASSUME ParserInv, ProgramInv, stage = "done" PROVE FetchesAll
    BY DEF FetchesAll
  <2>1. PICK h, p : Passes(h, p)
    BY DonePasses
  <2>2. DOMAIN nodes = 1 .. Len(nodes)
    BY SeqFacts DEF ParserInv
  <2>3. \A k \in {n \in DOMAIN nodes : nodes[n].kind = "Instruction"} : FetchedAt(k)
    BY <2>1, <2>2, FetchesOne
  <2> QED
    BY <2>3, Zenon DEF FetchesAll, FetchedAt
<1>2. Init => ParserInv /\ ProgramInv
  BY InitParser, InitProgram
<1>3. ParserInv /\ ProgramInv /\ [Next]_vars => (ParserInv /\ ProgramInv)'
  BY StepParser, StepProgram
<1> QED
  BY <1>1, <1>2, <1>3, PTL DEF Spec

(***************************************************************************)
(* The lines the parser takes.                                             *)
(***************************************************************************)
\* The first n tokens are a line.
IsLine(ts, n) == n \in 1 .. Len(ts) /\ \A k \in 1 .. n : ts[k] = <<"Eol">> <=> k = n

\* An alternative looks for the end of the line last, and nowhere else.
EndsLine(as) ==
    LET n == Len(as.pattern)
    IN  /\ n \in Nat \ {0} /\ DOMAIN as.pattern = 1 .. n /\ as.pattern[n] = {"Eol"}
        /\ \A k \in 1 .. n : k # n => "Eol" \notin as.pattern[k]

\* An alternative that is one of several begins with an operand, takes a variable at one
\* place at most, which a comma or the end follows, and takes no byte.
OneOfMany(as) ==
    LET n == Len(as.pattern)
    IN  /\ EndsLine(as) /\ as.kind # "IB"
        /\ as.pattern[1] \intersect {"Eol", "Comma"} = {}
        /\ \A k \in 1 .. n : "Variable" \in as.pattern[k] =>
              /\ k < n /\ as.pattern[k + 1] \subseteq {"Eol", "Comma"}
              /\ k = 1 \/ as.pattern[1] = {"Identifier"}
              /\ \A j \in 1 .. n : "Variable" \in as.pattern[j] => j = k

Several == {op_rr, op_rw, op_raa, op_ras, op_aar, op_ro, op_wr, op_rrr, op_r, op_w, op_aa, op_as}

LEMMA SeveralShapes == \A as \in Several : OneOfMany(as)
<1> USE DEF OneOfMany, EndsLine, Register, Word, Comma, Eol
<1>1. OneOfMany(op_rr) /\ OneOfMany(op_rw)
  BY DEF op_rr, parse_rr, op_rw, parse_rw
<1>2. OneOfMany(op_raa) /\ OneOfMany(op_ras) /\ OneOfMany(op_aar)
  BY DEF op_raa, parse_raa, op_ras, parse_ras, op_aar, parse_aar
<1>3. OneOfMany(op_ro)
  BY DEF op_ro, parse_ro
<1>4. OneOfMany(op_wr) /\ OneOfMany(op_rrr)
  BY DEF op_wr, parse_wr, op_rrr, parse_rrr
<1>5. OneOfMany(op_r) /\ OneOfMany(op_w) /\ OneOfMany(op_aa) /\ OneOfMany(op_as)
  BY DEF op_r, parse_r, op_w, parse_w, op_aa, parse_aa, op_as, parse_as
<1> HIDE DEF OneOfMany
<1> QED
  BY <1>1, <1>2, <1>3, <1>4, <1>5 DEF Several

LEMMA OfferedEnd == \A choice \in Offered : EndsLine(choice[2])
<1>1. EndsLine(op_void) /\ EndsLine(op_b)
  BY DEF EndsLine, op_void, op_b, parse_w, Word, Eol
<1>2. \A as \in Several : EndsLine(as)
  BY SeveralShapes DEF OneOfMany
<1> HIDE DEF EndsLine
<1> QED
  BY <1>1, <1>2 DEF Offered, Several

LEMMA FewOrSeveral ==
    ASSUME NEW name \in STRING
    PROVE  LET alts == alternatives(name)
           IN  Len(alts) <= 1 \/ \A k \in 1 .. Len(alts) : alts[k][2] \in Several
<1>1. CASE name \in Bare \union {"DEC", "INC", "INT", "MI", "UMI", "XBM"}
  BY <1>1 DEF alternatives, Bare, Binary
<1>2. CASE name \in Binary \union {"J", "JEQ", "JNE"}
  BY <1>2 DEF alternatives, Bare, Binary, Several
<1>3. CASE name \in {"CALL", "LOAD", "MOV"}
  BY <1>3 DEF alternatives, Bare, Binary, Several
<1>4. CASE name \in {"STOR", "POP", "PUSH"}
  BY <1>4 DEF alternatives, Bare, Binary, Several
<1>5. CASE name \notin Mnemonics
  <2>1. alternatives(name) = <<>>
    BY <1>5 DEF alternatives, Mnemonics, Bare, Binary
  <2> QED
    BY <2>1
<1> QED
  BY <1>1, <1>2, <1>3, <1>4, <1>5 DEF Mnemonics

LEMMA EolToken == \A t \in Token : t[1] = "Eol" <=> t = <<"Eol">>
BY DEF Token

\* The tokens an alternative expects are a line.
LEMMA PeekedLine ==
    ASSUME NEW as, EndsLine(as), NEW ts \in Seq(Token), peeked(as.pattern, ts)
    PROVE  LET n == Len(as.pattern)
           IN  /\ IsLine(ts, n) /\ first(n, ts) = SubSeq(ts, 1, n) /\ n <= Len(ts)
               /\ \A k \in 1 .. n : ts[k] \in Token /\ ts[k][1] \in as.pattern[k]
<1> DEFINE n == Len(as.pattern)
<1>1. /\ n \in Nat \ {0} /\ DOMAIN as.pattern = 1 .. n /\ as.pattern[n] = {"Eol"}
      /\ \A k \in 1 .. n : k # n => "Eol" \notin as.pattern[k]
  BY DEF EndsLine
<1>2. n <= Len(ts) /\ Len(ts) \in Nat /\ \A k \in DOMAIN as.pattern : ts[k][1] \in as.pattern[k]
  <2>1. Len(ts) >= n /\ \A k \in DOMAIN as.pattern : ts[k][1] \in as.pattern[k]
    BY Zenon DEF peeked
  <2>2. Len(ts) \in Nat
    OBVIOUS
  <2> HIDE DEF n
  <2> QED
    BY <1>1, <2>1, <2>2
<1> HIDE DEF n
<1>3. \A k \in 1 .. n : ts[k] \in Token /\ ts[k][1] \in as.pattern[k]
  <2> SUFFICES ASSUME NEW k \in 1 .. n PROVE ts[k] \in Token /\ ts[k][1] \in as.pattern[k]
    OBVIOUS
  <2>1. k \in DOMAIN ts
    BY <1>1, <1>2
  <2>2. ts[k] \in Token
    BY <2>1, SeqFacts
  <2> QED
    BY <1>1, <1>2, <2>2
<1>4. \A k \in 1 .. n : ts[k] = <<"Eol">> <=> k = n
  <2> SUFFICES ASSUME NEW k \in 1 .. n PROVE ts[k] = <<"Eol">> <=> k = n
    OBVIOUS
  <2>1. ts[k][1] = "Eol" <=> k = n
    BY <1>1, <1>3
  <2> QED
    BY <1>3, <2>1, EolToken
<1>5. first(n, ts) = SubSeq(ts, 1, n)
  BY <1>1, <1>2 DEF first
<1>6. IsLine(ts, n)
  BY <1>1, <1>2, <1>4 DEF IsLine
<1> QED
  BY <1>2, <1>3, <1>5, <1>6 DEF n

\* What one of several alternatives does of three: nothing, or read up to a variable it
\* does not know, or add an instruction and read a line.
Stuck(ts) == peek(ts) \in {"Eol", "Comma"}

ReadOn(result, next) ==
    /\ ~ Stuck(result.rest) /\ next.found = result.found
    /\ \E v \in 1 .. Len(result.rest) :
          /\ next.rest = after(v, result.rest) /\ Stuck(after(v, result.rest))
          /\ result.rest[1][1] \in {"Identifier", "Variable"}
          /\ unknown(SubSeq(result.rest, 1, v)) = {v}

FoundLine(result, next) ==
    /\ ~ Stuck(result.rest) /\ Len(next.found) = Len(result.found) + 1
    /\ \E n \in 1 .. Len(result.rest) :
          IsLine(result.rest, n) /\ next.rest = after(n, result.rest)

LEMMA TriedCases ==
    ASSUME NEW result \in Result, NEW name, NEW form, NEW as, OneOfMany(as)
    PROVE  LET next == tried(result, name, form, as)
           IN  next = result \/ ReadOn(result, next) \/ FoundLine(result, next)
<1> USE DEF ReadOn, FoundLine
<1> DEFINE rest == result.rest
           next == tried(result, name, form, as)
           n == Len(as.pattern)
           ts == first(n, rest)
           i == built(<<name, form>>, as, ts)
<1>0. rest \in Seq(Token) /\ result.found \in Seq(Instruction) /\ Len(rest) \in Nat
  BY DEF Result
<1>1. CASE ~ peeked(as.pattern, rest)
  <2>1. next = result
    BY <1>1, Zenon DEF tried
  <2> QED
    BY <2>1
<1>2. CASE peeked(as.pattern, rest)
  <2>1. /\ IsLine(rest, n) /\ ts = SubSeq(rest, 1, n) /\ n <= Len(rest)
        /\ \A k \in 1 .. n : rest[k] \in Token /\ rest[k][1] \in as.pattern[k]
    BY <1>0, <1>2, PeekedLine DEF OneOfMany
  <2> HIDE DEF rest, n, ts, i, next
  <2>2. n \in 1 .. Len(rest) /\ n \in Nat
    BY <1>0, <2>1 DEF IsLine
  <2>3. ~ Stuck(rest)
    <3>1. rest # <<>> /\ 1 \in 1 .. n
      BY <1>0, <2>2
    <3>2. peek(rest) = rest[1][1]
      BY <1>0, <3>1 DEF peek
    <3>3. rest[1][1] \in as.pattern[1]
      BY <2>1, <3>1
    <3> QED
      BY <3>2, <3>3 DEF Stuck, OneOfMany
  <2>4. CASE unknown(ts) = {}
    <3>1. in_range(i)
      <4>1. i.kind = as.kind
        BY DEF built, i
      <4> QED
        BY <4>1 DEF in_range, OneOfMany
    <3>2. next = [found |-> Append(result.found, i), rest |-> after(n, rest)]
      BY <1>2, <2>4, <3>1, Zenon DEF tried, next, i, ts, n, rest
    <3>3. Len(next.found) = Len(result.found) + 1 /\ next.rest = after(n, rest)
      BY <1>0, <3>2
    <3>4. \E m \in 1 .. Len(rest) : IsLine(rest, m) /\ next.rest = after(m, rest)
      BY <2>1, <2>2, <3>3
    <3> QED
      BY <2>3, <3>3, <3>4, Zenon DEF next, rest
  <2>5. CASE unknown(ts) # {}
    <3> DEFINE v == Max(unknown(ts))
    <3>1. Len(ts) = n /\ DOMAIN ts = 1 .. n /\ \A k \in 1 .. n : ts[k] = rest[k]
      BY <1>0, <2>1, <2>2
    <3>2. unknown(ts) \in SUBSET (1 .. n) /\ v \in unknown(ts)
      <4>1. unknown(ts) \in SUBSET (1 .. n)
        BY <3>1 DEF unknown
      <4> QED
        BY <2>2, <2>5, <4>1, MaxIsElement
    <3>3. \A k \in unknown(ts) : "Variable" \in as.pattern[k] /\ rest[k][1] = "Variable"
      <4>1. ASSUME NEW k \in unknown(ts) PROVE k \in 1 .. n /\ ts[k] = rest[k] /\ ts[k][1] = "Variable"
        BY <3>1, <3>2 DEF unknown
      <4> QED
        BY <2>1, <4>1
    <3> HIDE DEF v
    <3>4. /\ v < n /\ as.pattern[v + 1] \subseteq {"Eol", "Comma"}
          /\ v = 1 \/ as.pattern[1] = {"Identifier"}
          /\ \A j \in 1 .. n : "Variable" \in as.pattern[j] => j = v
      BY <3>2, <3>3 DEF OneOfMany, n
    <3>5. v \in 1 .. n /\ v + 1 \in 1 .. n /\ v \in 1 .. Len(rest) /\ 1 \in 1 .. n
      BY <2>2, <3>2, <3>4
    <3>6. unknown(ts) = {v}
      BY <3>2, <3>3, <3>4
    <3>7. next = [result EXCEPT !.rest = after(v, @)]
      BY <1>2, <2>5, Zenon DEF tried, v, next, ts, n, rest
    <3>8. next.found = result.found /\ next.rest = after(v, rest)
      BY <3>7 DEF Result, rest
    <3>9. Stuck(after(v, rest))
      <4>1. after(v, rest) # <<>> /\ Head(after(v, rest)) = rest[v + 1]
        <5> DEFINE us == SubSeq(rest, v + 1, Len(rest))
        <5>1. v \in 0 .. Len(rest) /\ Len(rest) \in 0 .. Len(rest) /\ v <= Len(rest)
              /\ 1 \in 1 .. Len(rest) - v
          BY <1>0, <2>2, <3>5
        <5>2. us \in Seq(Token) /\ Len(us) = Len(rest) - v /\ us[1] = rest[v + 1]
          BY <1>0, <5>1, SubSeqFacts
        <5>3. after(v, rest) = us
          BY DEF after
        <5> HIDE DEF us
        <5> QED
          BY <5>1, <5>2, <5>3
      <4>2. rest[v + 1][1] \in {"Eol", "Comma"}
        BY <2>1, <3>4, <3>5
      <4> QED
        BY <4>1, <4>2 DEF Stuck, peek
    <3>10. rest[1][1] \in {"Identifier", "Variable"}
      BY <2>1, <3>2, <3>3, <3>4, <3>5
    <3>11. unknown(SubSeq(rest, 1, v)) = {v}
      <4> DEFINE us == SubSeq(rest, 1, v)
      <4>1. DOMAIN us = 1 .. v /\ \A k \in 1 .. v : us[k] = ts[k] /\ k \in 1 .. n
        BY <1>0, <2>2, <3>1, <3>5
      <4> HIDE DEF us
      <4>2. unknown(us) = unknown(ts) \intersect (1 .. v)
        BY <3>1, <4>1 DEF unknown
      <4> QED
        BY <3>5, <3>6, <4>2 DEF us
    <3>12. \E w \in 1 .. Len(rest) :
              /\ next.rest = after(w, rest) /\ Stuck(after(w, rest))
              /\ rest[1][1] \in {"Identifier", "Variable"}
              /\ unknown(SubSeq(rest, 1, w)) = {w}
      BY <3>5, <3>8, <3>9, <3>10, <3>11
    <3> QED
      BY <2>3, <3>8, <3>12, Zenon DEF next, rest
  <2> QED
    BY <2>4, <2>5
<1> QED
  BY <1>1, <1>2

\* An alternative adds no instruction but where it reads a line.
LEMMA TriedLine ==
    ASSUME NEW result \in Result, NEW name, NEW form, NEW as, EndsLine(as),
           Len(tried(result, name, form, as).found) # Len(result.found)
    PROVE  \E n \in 1 .. Len(result.rest) :
              /\ IsLine(result.rest, n)
              /\ tried(result, name, form, as).rest = after(n, result.rest)
<1> DEFINE rest == result.rest
           next == tried(result, name, form, as)
           n == Len(as.pattern)
           ts == first(n, rest)
           i == built(<<name, form>>, as, ts)
<1>0. rest \in Seq(Token) /\ result.found \in Seq(Instruction) /\ Len(rest) \in Nat
  BY DEF Result
<1>1. peeked(as.pattern, rest)
  <2>1. CASE ~ peeked(as.pattern, rest)
    <3>1. next = result
      BY <2>1, Zenon DEF tried
    <3> QED
      BY <3>1
  <2> QED
    BY <2>1
<1>2. unknown(ts) = {}
  <2>1. CASE unknown(ts) # {}
    <3>1. next = [result EXCEPT !.rest = after(Max(unknown(ts)), @)]
      BY <1>1, <2>1, Zenon DEF tried
    <3>2. next.found = result.found
      BY <3>1 DEF Result
    <3> QED
      BY <3>2
  <2> QED
    BY <2>1
<1>3. next.rest = after(n, rest)
  <2>1. next = [found |-> IF in_range(i) THEN Append(result.found, i) ELSE result.found,
                rest |-> after(n, rest)]
    BY <1>1, <1>2, Zenon DEF tried
  <2> HIDE DEF next, i, n, rest
  <2> QED
    BY <2>1
<1>4. IsLine(rest, n)
  BY <1>0, <1>1, PeekedLine
<1>5. n \in 1 .. Len(rest)
  BY <1>4 DEF IsLine
<1> QED
  BY <1>3, <1>4, <1>5

LEMMA SeqEqual ==
    ASSUME NEW T, NEW s \in Seq(T), NEW t \in Seq(T), Len(s) = Len(t),
           \A k \in 1 .. Len(s) : s[k] = t[k]
    PROVE  s = t
OBVIOUS

LEMMA AfterFacts ==
    ASSUME NEW ts \in Seq(Token), NEW n \in 0 .. Len(ts)
    PROVE  LET us == after(n, ts)
           IN  /\ us \in Seq(Token) /\ Len(us) = Len(ts) - n
               /\ \A k \in 1 .. Len(us) : us[k] = ts[n + k]
               /\ \A v \in 0 .. Len(us) : /\ after(v, us) = after(n + v, ts)
                                          /\ SubSeq(us, 1, v) = SubSeq(ts, n + 1, n + v)
<1> DEFINE us == SubSeq(ts, n + 1, Len(ts))
<1>1. n \in Nat /\ Len(ts) \in Nat /\ n <= Len(ts) /\ Len(ts) \in 0 .. Len(ts)
  OBVIOUS
<1>2. us \in Seq(Token) /\ Len(us) = Len(ts) - n /\ \A k \in 1 .. Len(ts) - n : us[k] = ts[n + k]
  BY <1>1, SubSeqFacts
<1>3. after(n, ts) = us
  BY DEF after
<1> HIDE DEF us
<1>4. ASSUME NEW v \in 0 .. Len(us)
      PROVE  /\ after(v, us) = after(n + v, ts) /\ SubSeq(us, 1, v) = SubSeq(ts, n + 1, n + v)
  <2>1. v \in Nat /\ n + v \in 0 .. Len(ts) /\ v + 1 <= Len(us) + 1
    BY <1>1, <1>2
  <2>2. SubSeq(us, v + 1, Len(us)) = SubSeq(ts, n + v + 1, Len(ts))
    <3> DEFINE x == SubSeq(us, v + 1, Len(us))
               y == SubSeq(ts, n + v + 1, Len(ts))
    <3>1. /\ x \in Seq(Token) /\ Len(x) = Len(us) - v
          /\ \A k \in 1 .. Len(us) - v : x[k] = us[v + k]
      BY <1>2, AfterTokens
    <3>2. /\ y \in Seq(Token) /\ Len(y) = Len(ts) - (n + v)
          /\ \A k \in 1 .. Len(ts) - (n + v) : y[k] = ts[(n + v) + k]
      BY <1>1, <2>1, SubSeqFacts
    <3> HIDE DEF x, y
    <3>3. ASSUME NEW k \in 1 .. Len(x) PROVE x[k] = y[k]
      <4>1. /\ k \in 1 .. Len(us) - v /\ v + k \in 1 .. Len(ts) - n
            /\ k \in 1 .. Len(ts) - (n + v) /\ n + (v + k) = (n + v) + k
        BY <1>1, <1>2, <2>1, <3>1
      <4> QED
        BY <1>2, <3>1, <3>2, <4>1
    <3>5. Len(x) = Len(y)
      BY <1>1, <1>2, <2>1, <3>1, <3>2
    <3>4. x = y
      BY <3>1, <3>2, <3>3, <3>5, SeqEqual
    <3> QED
      BY <3>4 DEF x, y
  <2>3. SubSeq(us, 1, v) = SubSeq(ts, n + 1, n + v)
    <3> DEFINE x == SubSeq(us, 1, v)
               y == SubSeq(ts, n + 1, n + v)
    <3>1. x \in Seq(Token) /\ Len(x) = v /\ \A k \in 1 .. v : x[k] = us[k]
      BY <1>2, <2>1
    <3>2. /\ y \in Seq(Token) /\ Len(y) = v
          /\ \A k \in 1 .. v : y[k] = ts[n + k]
      BY <1>1, <2>1
    <3> HIDE DEF x, y
    <3>3. ASSUME NEW k \in 1 .. v PROVE x[k] = y[k]
      <4>1. k \in 1 .. Len(ts) - n
        BY <1>1, <1>2, <2>1
      <4> QED
        BY <1>2, <3>1, <3>2, <4>1
    <3>4. x = y
      BY <2>1, <3>1, <3>2, <3>3
    <3> QED
      BY <3>4 DEF x, y
  <2> QED
    BY <2>2, <2>3 DEF after
<1> QED
  BY <1>2, <1>3, <1>4

\* What a statement takes: a line, and at most what stands below it up to a variable that
\* is not known.
Taken(ts, rest, n, m) ==
    /\ n \in 1 .. Len(ts) /\ m \in n .. Len(ts) /\ IsLine(ts, n) /\ rest = after(m, ts)
    /\ n < m => /\ ts[n + 1][1] \in {"Identifier", "Variable"}
                /\ unknown(SubSeq(ts, n + 1, m)) = {m - n}

\* How far parse_op has come with the alternatives.
Phase(ts, result) ==
    \/ result.found = <<>> /\ (result.rest = ts \/ Stuck(result.rest))
    \/ /\ Len(result.found) = 1
       /\ \E n, m : Taken(ts, result.rest, n, m) /\ (n = m \/ Stuck(result.rest))
    \/ Len(result.found) > 1

LEMMA PhaseStep ==
    ASSUME NEW ts \in Seq(Token), NEW result \in Result, Phase(ts, result),
           NEW name, NEW form, NEW as, OneOfMany(as), tried(result, name, form, as) \in Result
    PROVE  Phase(ts, tried(result, name, form, as))
<1> DEFINE next == tried(result, name, form, as)
<1>0. /\ result.rest \in Seq(Token) /\ result.found \in Seq(Instruction)
      /\ next.rest \in Seq(Token) /\ next.found \in Seq(Instruction)
      /\ Len(result.found) \in Nat /\ Len(next.found) \in Nat /\ Len(ts) \in Nat
  <2>1. \A r \in Result : r.rest \in Seq(Token) /\ r.found \in Seq(Instruction)
    BY DEF Result
  <2>2. result \in Result /\ next \in Result
    OBVIOUS
  <2>3. \A s \in Seq(Instruction) : Len(s) \in Nat
    OBVIOUS
  <2> HIDE DEF next
  <2> QED
    BY <2>1, <2>2, <2>3
<1> SUFFICES Phase(ts, next)
  OBVIOUS
<1>4. next = result \/ ReadOn(result, next) \/ FoundLine(result, next)
  BY TriedCases
<1> HIDE DEF next
<1>1. CASE next = result
  BY <1>1
<1>2. CASE ReadOn(result, next)
  <2>0. ~ Stuck(result.rest) /\ next.found = result.found
    BY <1>2 DEF ReadOn
  <2> PICK v \in 1 .. Len(result.rest) :
                 /\ next.rest = after(v, result.rest) /\ Stuck(after(v, result.rest))
                 /\ result.rest[1][1] \in {"Identifier", "Variable"}
                 /\ unknown(SubSeq(result.rest, 1, v)) = {v}
    BY <1>2 DEF ReadOn
  <2>1. Stuck(next.rest)
    OBVIOUS
  <2>2. CASE result.found = <<>>
    BY <2>0, <2>1, <2>2 DEF Phase
  <2>3. CASE Len(result.found) > 1
    BY <2>0, <2>3 DEF Phase
  <2>4. CASE Len(result.found) = 1
    <3>1. PICK n, m : Taken(ts, result.rest, n, m) /\ n = m
      <4>1. result.found # <<>> /\ ~ (Len(result.found) > 1)
        <5>1. result.found = <<>> => Len(result.found) = 0
          OBVIOUS
        <5> QED
          BY <2>4, <5>1
      <4> QED
        BY <2>0, <4>1, Zenon DEF Phase
    <3>2. n \in 1 .. Len(ts) /\ IsLine(ts, n) /\ result.rest = after(n, ts) /\ n \in 0 .. Len(ts)
      BY <3>1 DEF Taken
    <3>3. v \in 0 .. Len(result.rest) /\ Len(result.rest) = Len(ts) - n
          /\ result.rest[1] = ts[n + 1]
      <4>1. Len(result.rest) = Len(ts) - n
            /\ \A k \in 1 .. Len(result.rest) : result.rest[k] = ts[n + k]
        BY <3>2, AfterFacts
      <4>2. 1 \in 1 .. Len(result.rest) /\ v \in 0 .. Len(result.rest)
        BY <1>0
      <4> QED
        BY <4>1, <4>2
    <3>4. /\ next.rest = after(n + v, ts)
          /\ SubSeq(result.rest, 1, v) = SubSeq(ts, n + 1, n + v)
      <4>1. \A w \in 0 .. Len(after(n, ts)) :
               /\ after(w, after(n, ts)) = after(n + w, ts)
               /\ SubSeq(after(n, ts), 1, w) = SubSeq(ts, n + 1, n + w)
        BY <3>2, AfterFacts, Zenon
      <4> QED
        BY <3>2, <3>3, <4>1, Zenon
    <3>5. n + v \in n .. Len(ts) /\ (n + v) - n = v
      BY <1>0, <3>2, <3>3
    <3>6. Taken(ts, next.rest, n, n + v)
      BY <3>2, <3>3, <3>4, <3>5 DEF Taken
    <3> QED
      BY <2>0, <2>1, <2>4, <3>6 DEF Phase
  <2>5. result.found = <<>> \/ Len(result.found) = 1 \/ Len(result.found) > 1
    <3> DEFINE l == Len(result.found)
    <3>1. l # 0 \/ result.found = <<>>
      BY <1>0
    <3>2. l \in Nat
      BY <1>0
    <3> HIDE DEF l
    <3>3. l = 0 \/ l = 1 \/ l > 1
      BY <3>2
    <3> QED
      BY <3>1, <3>3 DEF l
  <2> QED
    BY <2>2, <2>3, <2>4, <2>5
<1>3. CASE FoundLine(result, next)
  <2>0. Len(next.found) = Len(result.found) + 1
    BY <1>3 DEF FoundLine
  <2> PICK n \in 1 .. Len(result.rest) :
                 IsLine(result.rest, n) /\ next.rest = after(n, result.rest)
    BY <1>3 DEF FoundLine
  <2>1. CASE result.found = <<>>
    <3>0. ~ Stuck(result.rest) /\ Len(result.found) = 0
      BY <1>3, <2>1 DEF FoundLine
    <3>1. result.rest = ts
      BY <3>0, <2>1 DEF Phase
    <3>2. Taken(ts, next.rest, n, n)
      BY <1>0, <3>1 DEF Taken
    <3>3. Len(next.found) = 1
      BY <2>0, <2>1
    <3> QED
      BY <3>2, <3>3 DEF Phase
  <2>2. CASE result.found # <<>>
    <3>1. Len(next.found) > 1
      BY <1>0, <2>0, <2>2
    <3> QED
      BY <3>1 DEF Phase
  <2> QED
    BY <2>1, <2>2
<1> QED
  BY <1>1, <1>2, <1>3, <1>4

\* An instruction the parser accepts takes one line, and what a later alternative has lost.
LEMMA OpLine ==
    ASSUME symbols \in Maps, NEW name \in STRING, NEW ts \in Seq(Token),
           Len(parse_op(name, ts).found) = 1
    PROVE  \E n, m : Taken(ts, parse_op(name, ts).rest, n, m)
<1> DEFINE alts == alternatives(name)
           N == Len(alts)
           result == parse_op(name, ts)
<1>1. PICK h : ParseRun(h, name, ts)
  BY ParseOpTrace
<1>2. /\ h \in [0 .. N -> Result] /\ h[0] = [found |-> <<>>, rest |-> ts] /\ result = h[N]
      /\ \A k \in 1 .. N : h[k] = tried(h[k - 1], name, alts[k][1], alts[k][2])
  BY <1>1, Zenon DEF ParseRun
<1>3. N \in Nat /\ \A k \in 1 .. N : alts[k] \in Offered
  BY AlternativesTyped, SeqFacts
<1>4. N <= 1 \/ \A k \in 1 .. N : alts[k][2] \in Several
  BY FewOrSeveral
<1> HIDE DEF alts, N, result
<1>5. h[0].found = <<>> /\ h[0].rest = ts
  BY <1>2
<1>6. Len(result.found) = 1 /\ result.found # <<>> /\ Len(h[0].found) = 0
  <2>1. Len(result.found) = 1
    BY DEF result
  <2>2. Len(<<>>) = 0
    OBVIOUS
  <2> QED
    BY <1>5, <2>1, <2>2
<1>7. CASE N <= 1
  <2>0. N # 0
    BY <1>2, <1>5, <1>6
  <2>1. N = 1
    BY <1>3, <1>7, <2>0
  <2>2. h[1] = tried(h[0], name, alts[1][1], alts[1][2]) /\ alts[1] \in Offered
    <3>1. 1 \in 1 .. N /\ 1 - 1 = 0
      BY <2>1
    <3> QED
      BY <1>2, <1>3, <3>1
  <2>3. h[0] \in Result /\ EndsLine(alts[1][2])
    BY <1>2, <2>1, <2>2, OfferedEnd
  <2>4. Len(h[1].found) # Len(h[0].found)
    BY <1>2, <1>6, <2>1
  <2>5. PICK n \in 1 .. Len(ts) : IsLine(ts, n) /\ h[1].rest = after(n, ts)
    BY <1>5, <2>2, <2>3, <2>4, TriedLine
  <2>6. Taken(ts, result.rest, n, n)
    BY <1>2, <2>1, <2>5 DEF Taken
  <2> QED
    BY <2>6 DEF result
<1>8. CASE \A k \in 1 .. N : alts[k][2] \in Several
  <2> DEFINE P == { k \in 0 .. N : Phase(ts, h[k]) }
  <2>1. 0 \in P
    BY <1>3, <1>5 DEF Phase
  <2>2. ASSUME NEW k \in 0 .. N - 1, k \in P PROVE k + 1 \in P
    <3> DEFINE l == k + 1
    <3>1. l \in 1 .. N /\ l - 1 = k /\ l \in 0 .. N /\ k \in 0 .. N
      BY <1>3
    <3> HIDE DEF l
    <3>2. h[l] = tried(h[k], name, alts[l][1], alts[l][2]) /\ h[l] \in Result /\ h[k] \in Result
      BY <1>2, <3>1
    <3>3. OneOfMany(alts[l][2])
      BY <1>8, <3>1, SeveralShapes
    <3>4. Phase(ts, h[k])
      BY <2>2
    <3>5. Phase(ts, h[l])
      BY <3>2, <3>3, <3>4, PhaseStep
    <3> QED
      BY <3>1, <3>5 DEF l
  <2>3. 0 .. N \subseteq P
    <3> HIDE DEF P
    <3> QED
      BY <1>3, <2>1, <2>2, RangeInduction
  <2>4. Phase(ts, result)
    BY <1>2, <1>3, <2>3
  <2>5. \E n, m : Taken(ts, result.rest, n, m)
    <3>1. ~ (Len(result.found) > 1)
      BY <1>6
    <3> QED
      BY <1>6, <2>4, <3>1 DEF Phase
  <2> QED
    BY <2>5 DEF result
<1> QED
  BY <1>4, <1>7, <1>8

\* The token of the mnemonic before what the alternatives take.
LEMMA TakenAfter ==
    ASSUME NEW ts \in Seq(Token), ts # <<>>, ts[1][1] # "Eol",
           NEW rest, NEW n, NEW m, Taken(Tail(ts), rest, n, m)
    PROVE  Taken(ts, rest, n + 1, m + 1)
<1> DEFINE us == Tail(ts)
<1>0. Len(ts) \in Nat \ {0} /\ 1 \in 0 .. Len(ts) /\ 1 \in DOMAIN ts
  OBVIOUS
<1>1. us = after(1, ts)
  <2>1. SubSeq(ts, 2, Len(ts)) = Tail(ts)
    <3> DEFINE x == SubSeq(ts, 2, Len(ts))
               y == Tail(ts)
    <3>2. y \in Seq(Token) /\ Len(y) = Len(ts) - 1 /\ \A k \in 1 .. Len(ts) - 1 : y[k] = ts[k + 1]
      BY <1>0
    <3>3. x \in Seq(Token) /\ Len(x) = Len(ts) - 1 /\ \A k \in 1 .. Len(ts) - 1 : x[k] = ts[1 + k]
      <4>1. SubSeq(ts, 1 + 1, Len(ts)) = x
        OBVIOUS
      <4> HIDE DEF x
      <4> QED
        BY <1>0, <4>1, AfterTokens
    <3> HIDE DEF x, y
    <3>4. \A k \in 1 .. Len(x) : x[k] = y[k]
      BY <3>2, <3>3
    <3>5. x = y
      BY <3>2, <3>3, <3>4, SeqEqual
    <3> QED
      BY <3>5 DEF x, y
  <2> QED
    BY <2>1 DEF after
<1> HIDE DEF us
<1>2. /\ n \in 1 .. Len(us) /\ m \in n .. Len(us) /\ IsLine(us, n) /\ rest = after(m, us)
      /\ n < m => /\ us[n + 1][1] \in {"Identifier", "Variable"}
                  /\ unknown(SubSeq(us, n + 1, m)) = {m - n}
  BY DEF Taken, us
<1>3. /\ us \in Seq(Token) /\ Len(us) = Len(ts) - 1
      /\ \A k \in 1 .. Len(us) : us[k] = ts[1 + k]
  BY <1>0, <1>1, AfterFacts
<1>4. /\ n \in Nat /\ m \in Nat /\ n >= 1 /\ n <= m /\ m <= Len(us)
      /\ m \in 0 .. Len(us) /\ n \in 0 .. Len(us) /\ Len(us) \in Nat
  BY <1>2, <1>3
<1>5. n + 1 \in 1 .. Len(ts) /\ m + 1 \in (n + 1) .. Len(ts) /\ (m + 1) - (n + 1) = m - n
  BY <1>0, <1>3, <1>4
<1>6. rest = after(m + 1, ts)
  BY <1>0, <1>1, <1>2, <1>4, AfterFacts
<1>7. IsLine(ts, n + 1)
  <2>1. ASSUME NEW k \in 1 .. n + 1 PROVE ts[k] = <<"Eol">> <=> k = n + 1
    <3>1. CASE k = 1
      <4>1. ts[1] \in Token
        BY <1>0
      <4> QED
        BY <1>4, <3>1, <4>1, EolToken
    <3>2. CASE k # 1
      <4>1. k - 1 \in 1 .. n /\ k - 1 \in 1 .. Len(us) /\ 1 + (k - 1) = k
        BY <1>4, <3>2
      <4>2. us[k - 1] = <<"Eol">> <=> k - 1 = n
        BY <1>2, <4>1 DEF IsLine
      <4>3. us[k - 1] = ts[k]
        BY <1>3, <4>1
      <4> QED
        BY <1>4, <4>2, <4>3
    <3> QED
      BY <3>1, <3>2
  <2> QED
    BY <1>5, <2>1 DEF IsLine
<1>8. n < m => /\ ts[n + 2][1] \in {"Identifier", "Variable"}
               /\ unknown(SubSeq(ts, n + 2, m + 1)) = {m - n}
  <2> SUFFICES ASSUME n < m
               PROVE  /\ ts[n + 2][1] \in {"Identifier", "Variable"}
                      /\ unknown(SubSeq(ts, n + 2, m + 1)) = {m - n}
    OBVIOUS
  <2>1. n + 1 \in 1 .. Len(us) /\ 1 + (n + 1) = n + 2
    BY <1>4
  <2>2. us[n + 1] = ts[n + 2]
    BY <1>3, <2>1
  <2> DEFINE x == SubSeq(us, n + 1, m)
             y == SubSeq(ts, n + 2, m + 1)
  <2>3. x \in Seq(Token) /\ Len(x) = m - n /\ \A k \in 1 .. m - n : x[k] = us[n + k]
    BY <1>3, <1>4, SubSeqFacts
  <2>4. y \in Seq(Token) /\ Len(y) = m - n /\ \A k \in 1 .. m - n : y[k] = ts[(n + 1) + k]
    <3>1. /\ n + 1 \in 0 .. Len(ts) /\ m + 1 \in 0 .. Len(ts) /\ n + 1 <= m + 1
          /\ (n + 1) + 1 = n + 2 /\ (m + 1) - (n + 1) = m - n
      BY <1>0, <1>3, <1>4
    <3> DEFINE a == n + 1
               b == m + 1
               z == SubSeq(ts, a + 1, b)
    <3>2. z = y /\ a \in 0 .. Len(ts) /\ b \in 0 .. Len(ts) /\ a <= b /\ b - a = m - n
      BY <3>1
    <3> HIDE DEF y, a, b
    <3>3. z \in Seq(Token) /\ Len(z) = b - a /\ \A k \in 1 .. b - a : z[k] = ts[a + k]
      BY <3>2, SubSeqFacts
    <3> HIDE DEF z
    <3> QED
      BY <3>2, <3>3 DEF a
  <2> HIDE DEF x, y
  <2>5. ASSUME NEW k \in 1 .. m - n PROVE x[k] = y[k]
    <3>1. n + k \in 1 .. Len(us) /\ 1 + (n + k) = (n + 1) + k
      BY <1>4
    <3> QED
      BY <1>3, <2>3, <2>4, <3>1
  <2>6. x = y
    BY <2>3, <2>4, <2>5, SeqEqual
  <2>7. unknown(x) = {m - n}
    BY <1>2 DEF x
  <2> QED
    BY <1>2, <2>2, <2>6, <2>7 DEF y
<1>9. n + 1 < m + 1 <=> n < m
  BY <1>4
<1>10. (n + 1) + 1 = n + 2
  BY <1>4
<1> QED
  BY <1>5, <1>6, <1>7, <1>8, <1>9, <1>10 DEF Taken

\* What OneLineEach says of a step.
LineTaken ==
    \E n \in 1..(Len(tokens) - Len(tokens')) :
        LET line == first(n, tokens)
            more == SubSeq(tokens, n + 1, Len(tokens) - Len(tokens'))
        IN  /\ \A k \in DOMAIN line : line[k] = <<"Eol">> <=> k = n
            /\ more # <<>> => /\ Head(more)[1] \in {"Identifier", "Variable"}
                              /\ unknown(more) = {Len(more)}

LEMMA TakenLine ==
    ASSUME tokens \in Seq(Token), NEW n, NEW m, NEW rest, tokens' = rest,
           Taken(tokens, rest, n, m)
    PROVE  LineTaken
<1> DEFINE c == Len(tokens) - Len(tokens')
           line == first(n, tokens)
           more == SubSeq(tokens, n + 1, m)
<1>1. /\ n \in 1 .. Len(tokens) /\ m \in n .. Len(tokens) /\ IsLine(tokens, n)
      /\ rest = after(m, tokens)
      /\ n < m => /\ tokens[n + 1][1] \in {"Identifier", "Variable"}
                  /\ unknown(SubSeq(tokens, n + 1, m)) = {m - n}
  BY DEF Taken
<1>2. /\ Len(tokens) \in Nat /\ n \in Nat /\ m \in Nat /\ n <= m /\ m <= Len(tokens)
      /\ n \in 0 .. Len(tokens) /\ m \in 0 .. Len(tokens) /\ n >= 1
  BY <1>1
<1>3. c = m
  <2>1. Len(rest) = Len(tokens) - m
    BY <1>1, <1>2, AfterFacts
  <2> QED
    BY <1>2, <2>1
<1>4. n \in 1 .. c
  BY <1>2, <1>3
<1>5. \A k \in DOMAIN line : line[k] = <<"Eol">> <=> k = n
  <2>1. line = SubSeq(tokens, 1, n)
    BY <1>2 DEF first
  <2>2. DOMAIN line = 1 .. n /\ \A k \in 1 .. n : line[k] = tokens[k]
    BY <1>2, <2>1
  <2> HIDE DEF line
  <2> QED
    BY <1>1, <2>2 DEF IsLine
<1>6. more \in Seq(Token) /\ Len(more) = m - n /\ \A k \in 1 .. m - n : more[k] = tokens[n + k]
  BY <1>2, SubSeqFacts
<1>7. more # <<>> => /\ Head(more)[1] \in {"Identifier", "Variable"}
                     /\ unknown(more) = {Len(more)}
  <2> SUFFICES ASSUME more # <<>> PROVE /\ Head(more)[1] \in {"Identifier", "Variable"}
                                        /\ unknown(more) = {Len(more)}
    OBVIOUS
  <2>1. unknown(more) = {m - n} <=> unknown(SubSeq(tokens, n + 1, m)) = {m - n}
    OBVIOUS
  <2> HIDE DEF more
  <2>2. n < m /\ 1 \in 1 .. m - n /\ Head(more) = more[1]
    BY <1>2, <1>6
  <2> QED
    BY <1>1, <1>6, <2>1, <2>2
<1> QED
  BY <1>3, <1>4, <1>5, <1>7 DEF LineTaken

LEMMA NodesChange ==
    ASSUME NEW node, NEW rest, Parsed(node, rest), nodes \in Seq(Node), nodes' # nodes
    PROVE  node # <<>> /\ tokens' = rest
<1>1. nodes \o <<>> = nodes
  OBVIOUS
<1> QED
  BY <1>1 DEF Parsed, SyntaxError

LEMMA LabelLine == ParserInv /\ ParseLabel /\ nodes' # nodes => LineTaken
<1> SUFFICES ASSUME ParserInv, ParseLabel, nodes' # nodes PROVE LineTaken
  OBVIOUS
<1> DEFINE node == IF peek(Tail(tokens)) = "Eol"
                   THEN << [kind |-> "Label", name |-> tokens[1][2]] >> ELSE <<>>
<1>1. Parsed(node, after(2, tokens)) /\ peek(tokens) = "Label"
  BY Zenon DEF ParseLabel
<1>2. node # <<>> /\ tokens' = after(2, tokens)
  BY <1>1, NodesChange DEF ParserInv
<1>3. peek(Tail(tokens)) = "Eol"
  BY <1>2
<1>4. tokens \in Seq(Token) /\ tokens # <<>> /\ tokens[1][1] = "Label" /\ tokens[1] \in Token
      /\ Tail(tokens) \in Seq(Token)
  BY <1>1, Peeks DEF ParserInv
<1>5. Tail(tokens) # <<>> /\ Tail(tokens)[1] \in Token /\ Tail(tokens)[1][1] = "Eol"
  BY <1>3, <1>4, Peeks
<1>6. Len(tokens) \in Nat /\ Len(tokens) >= 2 /\ tokens[2] = Tail(tokens)[1]
  BY <1>4, <1>5
<1>7. IsLine(tokens, 2)
  BY <1>4, <1>5, <1>6, EolToken DEF IsLine
<1>8. Taken(tokens, after(2, tokens), 2, 2)
  BY <1>6, <1>7 DEF Taken
<1> QED
  BY <1>2, <1>4, <1>8, TakenLine

\* A directive's tokens after its name are a line.
LEMMA TailLine ==
    ASSUME tokens \in Seq(Token), tokens # <<>>, tokens[1][1] # "Eol",
           NEW as, EndsLine(as), peeked(as.pattern, Tail(tokens)), NEW rest,
           tokens' = rest, rest = after(Len(as.pattern) + 1, tokens)
    PROVE  LineTaken
<1> DEFINE n == Len(as.pattern)
           us == Tail(tokens)
<1>1. us \in Seq(Token)
  OBVIOUS
<1>2. IsLine(us, n) /\ n \in 1 .. Len(us)
  BY <1>1, PeekedLine DEF IsLine
<1>3. Taken(us, after(n, us), n, n)
  <2> HIDE DEF us, n
  <2>1. n \in n .. Len(us) /\ ~ (n < n)
    BY <1>1, <1>2
  <2> QED
    BY <1>2, <2>1 DEF Taken
<1>4. Taken(tokens, after(n, us), n + 1, n + 1)
  BY <1>3, TakenAfter
<1>5. after(n, us) = rest
  BY <1>4 DEF Taken
<1> QED
  BY <1>4, <1>5, TakenLine

LEMMA DirectiveLine == ParserInv /\ parse_directive /\ nodes' # nodes => LineTaken
<1> SUFFICES ASSUME ParserInv, parse_directive, nodes' # nodes PROVE LineTaken
  OBVIOUS
<1> DEFINE base == /\ tokens[1][2] = "base" /\ peeked(<<Word, Eol>>, Tail(tokens))
                   /\ unknown(first(2, tokens)) = {}
           word == /\ tokens[1][2] = "word"
                   /\ peeked(<<Register, {"Integer"}, Eol>>, Tail(tokens))
           node == IF base THEN << [kind |-> "Base", value |-> number(tokens[2])] >>
                   ELSE IF word THEN << [kind |-> "Word", name |-> tokens[2][2],
                                         value |-> tokens[3][2]] >>
                   ELSE <<>>
           rest == after(IF base THEN 3 ELSE 4, tokens)
<1>1. Parsed(node, rest) /\ peek(tokens) = "Directive"
  BY Zenon DEF parse_directive
<1>2. node # <<>> /\ tokens' = rest
  <2> HIDE DEF node, rest
  <2> QED
    BY <1>1, NodesChange DEF ParserInv
<1>3. base \/ word
  <2> HIDE DEF base, word
  <2> QED
    BY <1>2
<1>4. tokens \in Seq(Token) /\ tokens # <<>> /\ tokens[1][1] # "Eol"
  BY <1>1, Peeks DEF ParserInv
<1>5. CASE base
  <2> DEFINE as == [pattern |-> <<Word, Eol>>]
  <2>1. EndsLine(as) /\ Len(as.pattern) = 2
    BY DEF EndsLine, Word, Eol
  <2>2. peeked(as.pattern, Tail(tokens)) /\ rest = after(3, tokens)
    BY <1>5
  <2> HIDE DEF as, rest, base
  <2>3. rest = after(Len(as.pattern) + 1, tokens)
    BY <2>1, <2>2
  <2> QED
    BY <1>2, <1>4, <2>1, <2>2, <2>3, TailLine
<1>6. CASE ~ base /\ word
  <2> DEFINE as == [pattern |-> <<Register, {"Integer"}, Eol>>]
  <2>1. EndsLine(as) /\ Len(as.pattern) = 3
    BY DEF EndsLine, Register, Eol
  <2>2. peeked(as.pattern, Tail(tokens))
    BY <1>6
  <2>3. rest = after(4, tokens)
    <3> HIDE DEF base
    <3> QED
      BY <1>6
  <2> HIDE DEF as, rest, base
  <2>4. rest = after(Len(as.pattern) + 1, tokens)
    BY <2>1, <2>3
  <2> QED
    BY <1>2, <1>4, <2>1, <2>2, <2>4, TailLine
<1> HIDE DEF base, word
<1> QED
  BY <1>3, <1>5, <1>6

LEMMA InstructionLine == ParserInv /\ parse_instruction /\ nodes' # nodes => LineTaken
<1> SUFFICES ASSUME ParserInv, parse_instruction, nodes' # nodes PROVE LineTaken
  OBVIOUS
<1> DEFINE result == parse_op(tokens[1][2], Tail(tokens))
           node == IF Len(result.found) = 1
                   THEN << [kind |-> "Instruction", i |-> result.found[1]] >> ELSE <<>>
           rest == result.rest
<1>1. Parsed(node, rest) /\ peek(tokens) = "Op"
  BY Zenon DEF parse_instruction
<1>2. node # <<>> /\ tokens' = rest
  <2> HIDE DEF node, rest
  <2> QED
    BY <1>1, NodesChange DEF ParserInv
<1>3. Len(result.found) = 1
  <2> HIDE DEF result
  <2> QED
    BY <1>2
<1>4. tokens \in Seq(Token) /\ tokens # <<>> /\ tokens[1][1] = "Op" /\ tokens[1] \in Token
      /\ Tail(tokens) \in Seq(Token)
  BY <1>1, Peeks DEF ParserInv
<1>5. tokens[1][2] \in STRING
  BY <1>4, TokenKinds
<1>6. PICK n, m : Taken(Tail(tokens), rest, n, m)
  BY <1>3, <1>4, <1>5, OpLine DEF ParserInv
<1> HIDE DEF result, rest
<1>7. Taken(tokens, rest, n + 1, m + 1)
  BY <1>4, <1>6, TakenAfter
<1> QED
  BY <1>2, <1>4, <1>7, TakenLine

\* A statement takes one line whatever the tokens are, but for what a later alternative of
\* its mnemonic has read up to an unknown variable (parser.rs, parse_op).
THEOREM OneLineEachHolds == Spec => OneLineEach
<1>1. ParserInv /\ [Next]_vars => [nodes' # nodes => LineTaken]_vars
  <2> SUFFICES ASSUME ParserInv, Next, nodes' # nodes PROVE LineTaken
    BY DEF vars
  <2>1. CASE SkipEol \/ parse_variable \/ Unexpected \/ EndFile \/ Resolve \/ Check \/ Emit
    BY <2>1 DEF SkipEol, parse_variable, Unexpected, EndFile, Resolve, Check, Emit, SyntaxError
  <2> QED
    BY <2>1, LabelLine, DirectiveLine, InstructionLine DEF Next
<1>2. OneLineEach <=> [][nodes' # nodes => LineTaken]_vars
  BY DEF OneLineEach, LineTaken
<1> QED
  BY <1>1, <1>2, InitParser, StepParser, PTL DEF Spec
=============================================================================
