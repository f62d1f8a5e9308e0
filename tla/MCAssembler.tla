---------------------------- MODULE MCAssembler ----------------------------
(***************************************************************************)
(* Programs of two files: two statements in the first, one in the second,  *)
(* which may lack its end of line.                                         *)
(***************************************************************************)
EXTENDS Assembler

NL == << <<"Eol">> >>
C == <<"Comma">>
O(name) == <<"Op", name>>
Id(name) == <<"Identifier", name>>
Num(n) == <<"Integer", n>>
v == <<"Variable", "v">>
Abs(name) == <<"Absolute", name>>
Seg(name) == <<"Segment", name>>
r0 == Id("r0")
r1 == Id("r1")
offset(t) == <<O("LOAD"), r0, C, <<"LBracket">>, r1, <<"Plus">>, t, <<"RBracket">> >>

\* One line for each pattern and each error of the parser, the resolver and the
\* checker, and those the emitter meets.
Lines == {
    <<>>, <<O("NOP")>>, <<O("XBM"), Num(1)>>, <<O("INT"), Num(4)>>,
    <<O("INT"), Num(256)>>, <<O("NOP"), r0>>,
    <<O("PUSH"), r0>>, <<O("PUSH"), r0, C, r1, C, r0>>, <<O("PUSH"), v>>,
    <<O("MOV"), r0, C, r1>>, <<O("MOV"), r0, C, v>>, <<O("MOV"), r0, C, Abs("l")>>,
    <<O("MOV"), r0, C, Seg("l")>>, <<O("MOV"), Id("x"), C, Num(4)>>,
    <<O("MOV"), Id("pc"), C, r0>>,
    offset(Num(4)), offset(v),
    <<O("STOR"), Num(4), C, r0>>, <<O("STOR"), Abs("m"), C, r0>>,
    <<O("J"), Seg("l")>>, <<O("J"), Abs("l")>>, <<O("CALL"), r1>>,
    << <<"Label", "l">> >>, << <<"Label", "m">> >>, << <<"Label", "l">>, O("NOP")>>,
    << <<"Directive", "base">>, Num(8)>>, << <<"Directive", "base">>, v>>,
    << <<"Directive", "word">>, Id("l"), Num(4)>>,
    <<v, <<"Equal">>, Num(4)>>, <<v, <<"Equal">>, r0>>,
    << <<"Section", "x">> >>, <<r0>>, <<r0, C, v>>, << <<"Error">> >> }

MCInputs ==
    {<<a \o NL \o b \o NL, c \o e>> : a \in Lines, b \in Lines, c \in Lines,
                                      e \in {NL, <<>>}}
MCGeneral == <<"r0", "r1">>
=============================================================================
