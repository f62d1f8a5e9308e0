------------------------------ MODULE Debugger ------------------------------
(***************************************************************************)
(* The debugger's prompt (debugger.c) and the lexer of its commands        *)
(* (debugger_lexer.c), on the processor of module Cpu.                     *)
(*                                                                         *)
(* A line is the sequence of its characters, without the newline that ends *)
(* it; letters are lower case and a number fits in an int.  Buffers are    *)
(* reduced to their sizes.  What uninitialised memory holds is left open   *)
(* where the code reads it: in the string of a token that has none, and in *)
(* the line when the input has ended.                                      *)
(***************************************************************************)
EXTENDS Cpu

CONSTANTS
    Typed,      \* lines that are typed at the prompt
    LINE_CHUNK, \* bytes getline allocates first
    Texts       \* lines on which the lexer is compared with its tokens' grammar

NoText == <<"no line">>

ASSUME DebuggerAssumption ==
    LINE_CHUNK \in Nat \ {0} /\ Typed \subseteq Seq(STRING) \ {NoText}
    /\ Texts \subseteq Seq(STRING)

VARIABLES
    previous,   \* previous_line: the text, previous_len, the bytes allocated
    prompt,     \* "ready"; "endless" in a loop it never leaves; "crashed"
    typed       \* history: the last line typed that was not empty

debuggerVars == <<previous, prompt, typed>>

DebuggerInit ==
    /\ previous = [text |-> NoText, len |-> 0, size |-> 0]
    /\ prompt = "ready" /\ typed = NoText

----------------------------------------------------------------------------
(***************************************************************************)
(* The lexer.                                                              *)
(***************************************************************************)
HexDigits == <<"0", "1", "2", "3", "4", "5", "6", "7", "8", "9",
               "a", "b", "c", "d", "e", "f">>
DigitValue == [c \in ToSet(HexDigits) |-> (CHOOSE k \in 1 .. 16 : HexDigits[k] = c) - 1]

is_hexdigit(c) == c \in DOMAIN DigitValue
is_digit(c) == is_hexdigit(c) /\ DigitValue[c] < 10
is_alpha(c) ==
    c \in {"a", "b", "c", "d", "e", "f", "g", "h", "i", "j", "k", "l", "m", "n",
           "o", "p", "q", "r", "s", "t", "u", "v", "w", "x", "y", "z", "_"}
is_alphanum(c) == is_alpha(c) \/ is_digit(c)
is_whitespace(c) == c = " "
not_whitespace(c) == ~is_whitespace(c)

\* The first position from i on that is past the text or fails Test.
past(text, i, Test(_)) ==
    Min({j \in i .. Len(text) + 1 : j = Len(text) + 1 \/ ~Test(text[j])})

\* read_decnumber, read_hexnumber
number(radix, digits) ==
    FoldLeft(LAMBDA v, c : radix * v + DigitValue[c], 0, digits)

token(type, start, end) == [type |-> type, start |-> start, end |-> end, value |-> 0]

\* The mutant of read_number: the prefix is looked for after any digit.
slip_read_number(text, s) ==
    LET hex == s < Len(text) /\ text[s + 1] = "x"
        digits == IF hex THEN s + 2 ELSE s
        end == IF hex THEN past(text, digits, is_hexdigit)
                      ELSE past(text, digits, is_digit)
    IN  [token("NUMBER", s, end) EXCEPT
           !.value = number(IF hex THEN 16 ELSE 10, SubSeq(text, digits, end - 1))]

read_number(text, s) ==
    LET hex == text[s] = "0" /\ s < Len(text) /\ text[s + 1] = "x"
        digits == IF hex THEN s + 2 ELSE s
        end == IF hex THEN past(text, digits, is_hexdigit)
                      ELSE past(text, digits, is_digit)
    IN  [token("NUMBER", s, end) EXCEPT
           !.value = number(IF hex THEN 16 ELSE 10, SubSeq(text, digits, end - 1))]

\* The token that starts at s.
token_at(text, s) ==
    CASE s > Len(text) -> token("EOF", s, s)
      [] s <= Len(text) /\ is_alpha(text[s]) ->
             token("IDENTIFIER", s, past(text, s, is_alphanum))
      [] s <= Len(text) /\ is_digit(text[s]) -> read_number(text, s)
      [] s <= Len(text) /\ text[s] = ":" -> token("COLON", s, s + 1)
      [] s <= Len(text) /\ text[s] = "," -> token("COMMA", s, s + 1)
      [] OTHER -> token("UNKNOWN", s, past(text, s, not_whitespace))

\* The token at or after position current: the next one is looked for at its end.
lexer_next(text, current) == token_at(text, past(text, current, is_whitespace))

lexeme(text, t) == SubSeq(text, t.start, t.end - 1)

tokens(text) ==
    LET from[i \in 1 .. Len(text) + 1] ==
          LET t == lexer_next(text, i)
          IN  IF t.type = "EOF" THEN <<>> ELSE <<t>> \o from[t.end]
    IN  from[1]

----------------------------------------------------------------------------
(***************************************************************************)
(* The commands.                                                           *)
(***************************************************************************)
cpu_debugger_decode_command(w) ==
    CASE w \in {<<"h">>, <<"h", "e", "l", "p">>} -> "help"
      [] w \in {<<"c">>, <<"c", "o", "n", "t", "i", "n", "u", "e">>} -> "continue"
      [] w \in {<<"s">>, <<"s", "t", "e", "p">>} -> "step"
      [] w \in {<<"q">>, <<"q", "u", "i", "t">>} -> "quit"
      [] w \in {<<"r">>, <<"r", "e", "g">>} -> "register"
      [] w \in {<<"m">>, <<"m", "e", "m">>} -> "memory"
      [] OTHER -> "unknown"

\* What a line may make the trap handler do.  The string of a word is appended to
\* what its memory held, so that the word may come out as one it does not know.  A
\* line that starts with something else is answered with a message that shows the
\* token's string, which a number and the end of the line do not have.
command(text) ==
    LET t == lexer_next(text, 1)
    IN  CASE t.type = "IDENTIFIER" ->
                 {cpu_debugger_decode_command(lexeme(text, t)), "unknown"}
          [] t.type \in {"NUMBER", "EOF"} -> {"no string"}
          [] OTHER -> {"expected"}

\* cpu_debugger_print_memory: the words it prints, or nothing if its arguments are
\* not a number, or two with a comma (a count) or a colon (an end) between them.
\* (The second is read through the pointer to the token before it, which was freed:
\* the allocator gives every token the place of the one just freed.)
dumped(text) ==
    LET first == lexer_next(text, lexer_next(text, 1).end)
        mark == lexer_next(text, first.end)
        second == lexer_next(text, mark.end)
        from == first.value % Modulus
    IN  CASE first.type # "NUMBER" -> {}
          [] first.type = "NUMBER" /\ mark.type = "EOF" ->
                 {[from |-> from, count |-> WORD_SIZE]}
          [] first.type = "NUMBER" /\ second.type = "NUMBER" /\ mark.type = "COMMA" ->
                 {[from |-> from, count |-> second.value % Modulus]}
          [] first.type = "NUMBER" /\ second.type = "NUMBER" /\ mark.type = "COLON" ->
                 {[from |-> from, count |-> (second.value - from) % Modulus]}
          [] OTHER -> {}

\* The loop of bus_dump never ends if no address it reaches, a whole number of words
\* from the first, is at or past the last byte asked for.
endless(d) ==
    LET last == (d.from + d.count - 1) % Modulus
    IN  /\ d.from < last
        /\ \A a \in last .. Modulus - 1 : a % WORD_SIZE # d.from % WORD_SIZE

(***************************************************************************)
(* The lines.                                                              *)
(***************************************************************************)
\* strlen of a line and its newline, with the byte that ends it.
bytes(text) == Len(text) + 2

\* What getline allocates for a line: a chunk, or twice that, or what it needs.
allocated(text) ==
    IF bytes(text) <= LINE_CHUNK THEN LINE_CHUNK
    ELSE IF bytes(text) <= 2 * LINE_CHUNK THEN 2 * LINE_CHUNK ELSE bytes(text)

\* The mutant of remembered: the length kept is the line's, not the buffer's.
slip_remembered(text) ==
    [text |-> text, len |-> bytes(text) - 1,
     size |-> IF previous.len < allocated(text) THEN allocated(text) ELSE previous.size]

\* previous_line, after a line that was not empty.
remembered(text) ==
    [text |-> text, len |-> allocated(text),
     size |-> IF previous.len < allocated(text) THEN allocated(text) ELSE previous.size]

\* cpu_debugger_read_line: an empty line stands for the previous one.
cpu_debugger_read_line(line) ==
    /\ thread = "trap" /\ prompt = "ready"
    /\ line = <<>> => previous.text # NoText
    /\ IF line = <<>> THEN UNCHANGED <<previous, typed>>
                      ELSE previous' = remembered(line) /\ typed' = line

text_of(line) == IF line = <<>> THEN previous.text ELSE line

\* A line the trap handler answers before it prompts again.
Answers(line) ==
    /\ cpu_debugger_read_line(line)
    /\ \E c \in command(text_of(line)) \ Commands :
         prompt' \in IF c = "no string" THEN {"ready", "crashed"}
                    ELSE IF c = "memory" /\ \E d \in dumped(text_of(line)) : endless(d)
                    THEN {"endless"} ELSE {"ready"}
    /\ UNCHANGED vars

\* A line with which it returns to the CPU: Cpu's Debug(c) is the rest of the step.
Resumes(line, c) ==
    /\ cpu_debugger_read_line(line)
    /\ c \in command(text_of(line))
    /\ UNCHANGED prompt

\* The end of the input is no line: what is in the buffer is taken for one, again
\* and again.
InputEnds ==
    /\ thread = "trap" /\ prompt = "ready"
    /\ prompt' \in {"endless", "crashed"}
    /\ UNCHANGED <<vars, previous, typed>>

----------------------------------------------------------------------------
(***************************************************************************)
(* Properties.                                                             *)
(***************************************************************************)
\* The empty line repeats the last line typed, all of it: the copy that is kept fits
\* in the memory allocated for it, and in the buffer it is copied back to, however
\* lines that need a larger buffer and lines that do not follow each other.
RepeatIsWhole ==
    /\ previous.text = typed
    /\ typed # NoText =>
         bytes(previous.text) <= previous.size /\ bytes(previous.text) <= previous.len

\* The lexemes of each type of token.
InLanguage(type, w) ==
    LET Holds(Test(_), from) == \A k \in from .. Len(w) : Test(w[k])
    IN  CASE type = "IDENTIFIER" -> is_alpha(w[1]) /\ Holds(is_alphanum, 2)
          [] type = "NUMBER" -> \/ Holds(is_digit, 1)
                                \/ Len(w) > 1 /\ w[1] = "0" /\ w[2] = "x"
                                   /\ Holds(is_hexdigit, 3)
          [] type = "COMMA" -> w = <<",">>
          [] type = "COLON" -> w = <<":">>
          [] type = "UNKNOWN" -> /\ Holds(not_whitespace, 1)
                                 /\ ~is_alphanum(w[1]) /\ w[1] \notin {",", ":"}

\* The value of a number's lexeme: each digit times the power of its place.
Positional(w) ==
    LET hex == Len(w) > 1 /\ w[2] = "x"
        radix == IF hex THEN 16 ELSE 10
        power[k \in 0 .. Len(w)] == IF k = 0 THEN 1 ELSE radix * power[k - 1]
    IN  MapThenSumSet(LAMBDA k : DigitValue[w[k]] * power[Len(w) - k],
                      (IF hex THEN 3 ELSE 1) .. Len(w))

\* A token is a word of its type that the character after it would not continue, and
\* a number has the value of its digits.
ExactToken(text, t) ==
    LET w == lexeme(text, t)
    IN  /\ InLanguage(t.type, w)
        /\ t.end <= Len(text) => ~InLanguage(t.type, Append(w, text[t.end]))
        /\ t.type = "NUMBER" => t.value = Positional(w)

\* Every character that is not blank is in exactly one token.
Covers(text, ts) ==
    \A i \in DOMAIN text :
      Cardinality({k \in DOMAIN ts : i \in ts[k].start .. ts[k].end - 1})
        = IF is_whitespace(text[i]) THEN 0 ELSE 1

\* The lexer cuts a line into its tokens, for every line of Texts.
LexesExactly ==
    thread = "idle" /\ m.reg[CS] = STACK_SIZE =>
    \A text \in Texts :
      LET ts == tokens(text)
      IN  Covers(text, ts) /\ \A k \in DOMAIN ts : ExactToken(text, ts[k])
=============================================================================
