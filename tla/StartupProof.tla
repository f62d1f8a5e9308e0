---------------------------- MODULE StartupProof ----------------------------
(***************************************************************************)
(* Proofs about a run of the program: what the debugger's prompt keeps of  *)
(* a line, what main makes of the command line, and that the processor,    *)
(* with the ROM and the debugger around it, keeps what module CpuProof     *)
(* shows of it.                                                            *)
(***************************************************************************)
EXTENDS Startup, CpuProof, DebuggerProof

(***************************************************************************)
(* The prompt.                                                             *)
(***************************************************************************)
Line == Seq(STRING) \ {NoText}

\* What is kept is the last line; it fits in what is kept of its buffer, and that is not
\* more than is allocated for the copy.
Kept(p) ==
    /\ p.len \in Nat /\ p.size \in Nat /\ p.len <= p.size
    /\ p.text # NoText => p.text \in Line /\ bytes(p.text) <= p.len

PromptInv == previous.text = typed /\ Kept(previous)

LEMMA AllocatedFits ==
    ASSUME NEW line \in Line
    PROVE  allocated(line) \in Nat /\ bytes(line) \in Nat /\ bytes(line) <= allocated(line)
<1>1. Len(line) \in Nat /\ LINE_CHUNK \in Nat
  BY DebuggerAssumption DEF Line
<1> QED
  BY <1>1 DEF allocated, bytes

LEMMA InitPrompt == DebuggerInit => PromptInv
BY DEF DebuggerInit, PromptInv, Kept

\* Only a line that is read, and is not empty, changes what is kept.
LEMMA StepPrompt ==
    ASSUME PromptInv,
           \/ \E line \in Typed : cpu_debugger_read_line(line)
           \/ UNCHANGED <<previous, typed>>
    PROVE  PromptInv'
<1>1. ASSUME NEW line \in Typed, line # <<>>, cpu_debugger_read_line(line)
      PROVE  PromptInv'
  <2>1. previous' = remembered(line) /\ typed' = line
    BY <1>1 DEF cpu_debugger_read_line
  <2>2. line \in Line
    BY DebuggerAssumption DEF Line
  <2>3. allocated(line) \in Nat /\ bytes(line) <= allocated(line)
    BY <2>2, AllocatedFits
  <2>4. previous.len \in Nat /\ previous.size \in Nat /\ previous.len <= previous.size
    BY DEF PromptInv, Kept
  <2> DEFINE size == IF previous.len < allocated(line) THEN allocated(line) ELSE previous.size
  <2>5. size \in Nat /\ allocated(line) <= size
    BY <2>3, <2>4
  <2>6. previous' = [text |-> line, len |-> allocated(line), size |-> size]
    BY <2>1 DEF remembered
  <2> HIDE DEF size
  <2> QED
    BY <2>1, <2>2, <2>3, <2>5, <2>6 DEF PromptInv, Kept
<1>2. CASE UNCHANGED <<previous, typed>>
  BY <1>2 DEF PromptInv, Kept
<1> QED
  BY <1>1, <1>2 DEF cpu_debugger_read_line

LEMMA PromptStep == [StartupNext]_startupVars =>
    \/ \E line \in Typed : cpu_debugger_read_line(line)
    \/ UNCHANGED <<previous, typed>>
BY DEF StartupNext, startupVars, debuggerVars, Helps, Fails, Starts, Running, main_ends,
       Resumes, Answers, InputEnds

\* The empty line repeats the last line typed, all of it: however long the lines are and
\* in whatever order they come, the copy fits where it is kept and where it is copied
\* back to (debugger.c).
THEOREM RepeatIsWholeHolds == StartupSpec => []RepeatIsWhole
<1>1. StartupInit => PromptInv
  BY InitPrompt DEF StartupInit
<1>2. PromptInv /\ [StartupNext]_startupVars => PromptInv'
  BY StepPrompt, PromptStep
<1>3. PromptInv => RepeatIsWhole
  <2> SUFFICES ASSUME PromptInv, typed # NoText
               PROVE  bytes(typed) <= previous.size /\ bytes(typed) <= previous.len
    BY DEF PromptInv, RepeatIsWhole
  <2>1. typed \in Line /\ previous.text = typed
    BY DEF PromptInv, Kept
  <2>2. bytes(typed) \in Nat
    BY <2>1, AllocatedFits
  <2> QED
    BY <2>1, <2>2 DEF PromptInv, Kept
<1> QED
  BY <1>1, <1>2, <1>3, PTL DEF StartupSpec

(***************************************************************************)
(* The debugger's commands: the lexer cuts every line into its tokens, as  *)
(* module DebuggerProof shows.                                             *)
(***************************************************************************)
THEOREM LexesExactlyHolds == StartupSpec => []LexesExactly
<1>1. LexesExactly
  <2>1. \A text \in Texts : text \in Seq(STRING)
    BY DebuggerAssumption
  <2>2. \A text \in Seq(STRING) :
          /\ Covers(text, tokens(text))
          /\ \A k \in DOMAIN tokens(text) : ExactToken(text, tokens(text)[k])
    BY LexerIsExact
  <2> QED
    BY <2>1, <2>2, Zenon DEF LexesExactly
<1> QED
  BY <1>1, PTL

(***************************************************************************)
(* The command line.                                                       *)
(***************************************************************************)
Values == [0 .. RegCount - 1 -> Nat]

\* The states of the scan of --register-values: a value is read for a register there is.
Scans ==
    {s \in [mode : {"register", "value"}, reg : Nat, values : Values, ok : BOOLEAN] :
        s.mode = "value" => s.reg \in 0 .. RegCount - 1}

LEMMA ScanStep ==
    ASSUME NEW s \in Scans, NEW c, NEW last \in BOOLEAN
    PROVE  scan(s, c, last) \in Scans
<1> USE DEF Scans, scanning, refused
<1>1. RegCount \in Nat /\ s.reg \in Nat /\ s.values \in Values
  BY CpuAssumption
<1>2. [s EXCEPT !.ok = FALSE] \in Scans
  OBVIOUS
<1>3. s.reg < RegCount =>
        [mode |-> "value", reg |-> s.reg, values |-> s.values, ok |-> TRUE] \in Scans
  BY <1>1
<1>4. \A r \in Nat :
        [mode |-> "register", reg |-> r, values |-> s.values, ok |-> TRUE] \in Scans
  BY <1>1
<1>5. is_digit(c) => 10 * s.reg + DigitValue[c] \in Nat
  BY <1>1, Digits DEF is_digit
<1>6. ASSUME s.mode = "value", is_digit(c)
      PROVE  LET v == [s.values EXCEPT ![s.reg] = 10 * @ + DigitValue[c]]
             IN  [mode |-> "value", reg |-> s.reg, values |-> v, ok |-> TRUE] \in Scans
  <2>1. s.reg \in 0 .. RegCount - 1 /\ s.values[s.reg] \in Nat /\ DigitValue[c] \in Nat
    BY <1>6, Digits DEF is_digit, Values
  <2>2. 10 * s.values[s.reg] + DigitValue[c] \in Nat
    BY <2>1
  <2> DEFINE v == [s.values EXCEPT ![s.reg] = 10 * @ + DigitValue[c]]
  <2>3. v \in Values
    BY <1>1, <2>1, <2>2 DEF Values
  <2> HIDE DEF v
  <2> QED
    BY <1>1, <2>1, <2>3 DEF v
<1>7. 0 \in Nat
  OBVIOUS
<1>8. s.reg >= RegCount \/ s.reg < RegCount
  BY <1>1
<1> HIDE DEF Scans
<1> QED
  BY <1>2, <1>3, <1>4, <1>5, <1>6, <1>7, <1>8 DEF scan

ScanRun(h, text) ==
    LET n == Len(text)
    IN  /\ h \in [0 .. n -> Scans] /\ h[0] = scanning("register", 0, NoValues)
        /\ \A k \in 1 .. n : h[k] = scan(h[k - 1], text[k], k = n)
        /\ parse_register_values(text)
             = IF h[n].ok /\ h[n].mode = "value" THEN h[n].values ELSE NoValues

\* The states that parse_register_values goes through, character by character.
LEMMA ScanTrace ==
    ASSUME NEW text \in Seq(STRING)
    PROVE  \E h : ScanRun(h, text)
<1> DEFINE n == Len(text)
           place == [i \in DOMAIN text |-> i]
           start == scanning("register", 0, NoValues)
           Step(s, k) == scan(s, text[k], k = Len(text))
           Folds(g) == g = [T \in SUBSET DOMAIN place |->
                              IF T = {} THEN start
                              ELSE Step(g[T \ {Max(T)}], place[Max(T)])]
           result == (CHOOSE g : Folds(g))[DOMAIN place]
<1>1. n \in Nat /\ DOMAIN text = 1 .. n
  OBVIOUS
<1>2. NoValues \in Values /\ start \in Scans
  BY CpuAssumption DEF NoValues, Values, Scans, scanning
<1>3. parse_register_values(text)
        = IF result.ok /\ result.mode = "value" THEN result.values ELSE NoValues
  BY Zenon DEF parse_register_values, FoldLeftDomain, FoldLeft, MapThenFoldSet
<1>4. ASSUME NEW k \in 1 .. n PROVE place[k] = k
  BY <1>1
<1>5. DOMAIN place = 1 .. n
  BY <1>1
<1> HIDE DEF place, start
<1>s. \A s \in Scans, k \in 1 .. n : Step(s, k) \in Scans
  <2>1. \A k : (k = Len(text)) \in BOOLEAN
    OBVIOUS
  <2> QED
    BY <2>1, ScanStep, Zenon
<1>d. \A s, k : Step(s, k) = scan(s, text[k], k = n)
  OBVIOUS
<1> HIDE DEF Step
<1> DEFINE F == [a \in Scans \X (1 .. n) |-> Step(a[1], a[2])]
<1>f. F \in [Scans \X (1 .. n) -> Scans] /\ \A s \in Scans, k \in 1 .. n : F[<<s, k>>] = Step(s, k)
  BY <1>s
<1> HIDE DEF F
<1>6. \E g : Folds(g)
  <2>1. PICK g \in [SUBSET (1 .. n) -> Scans] : Folded(g, start, n, F)
    BY <1>1, <1>2, <1>f, FoldExists
  <2>2. ASSUME NEW T \in SUBSET (1 .. n), T # {}
        PROVE  F[g[T \ {Max(T)}], Max(T)]
                 = Step(g[T \ {Max(T)}], place[Max(T)])
    <3>1. Max(T) \in 1 .. n /\ g[T \ {Max(T)}] \in Scans
      BY <1>1, <2>2, MaxIsElement
    <3> QED
      BY <1>4, <1>f, <3>1
  <2>3. Folds(g)
    BY <1>5, <2>1, <2>2 DEF Folded
  <2> QED
    BY <2>3
<1> DEFINE g == CHOOSE f : Folds(f)
<1>7. Folds(g) /\ result = g[1 .. n]
  BY <1>5, <1>6, Zenon
<1> HIDE DEF g, result, n
<1>8. Steps(g, Scans, start, n, F)
  <2>1. g[{}] = start
    BY <1>5, <1>7
  <2>2. ASSUME NEW T \in SUBSET (1 .. n), T # {}, g[T \ {Max(T)}] \in Scans
        PROVE  g[T] = F[<<g[T \ {Max(T)}], Max(T)>>]
    <3>1. Max(T) \in 1 .. n
      BY <1>1, <2>2, MaxIsElement
    <3>2. g[T] = Step(g[T \ {Max(T)}], place[Max(T)])
      BY <1>5, <1>7, <2>2
    <3> QED
      BY <1>4, <1>f, <2>2, <3>1, <3>2
  <2> HIDE DEF Folds
  <2> QED
    BY <2>1, <2>2, Zenon DEF Steps
<1> HIDE DEF Folds
<1>9. PICK h \in [0 .. n -> Scans] : Runs(h, start, n, F, g[1 .. n])
  BY <1>1, <1>2, <1>f, <1>8, FoldRun
<1>10. ASSUME NEW k \in 1 .. n PROVE h[k] = scan(h[k - 1], text[k], k = n)
  <2>1. h[k - 1] \in Scans
    BY <1>1
  <2>2. h[k] = Step(h[k - 1], k)
    BY <1>9, <1>f, <2>1 DEF Runs
  <2> QED
    BY <1>d, <2>2, Zenon
<1>11. /\ h[0] = scanning("register", 0, NoValues)
       /\ parse_register_values(text)
            = IF h[n].ok /\ h[n].mode = "value" THEN h[n].values ELSE NoValues
  BY <1>3, <1>7, <1>9 DEF Runs, start
<1>12. h \in [0 .. n -> Scans]
  OBVIOUS
<1>13. ScanRun(h, text)
  BY <1>10, <1>11, <1>12, Zenon DEF ScanRun, n
<1> QED
  BY <1>13

\* The scan ends with a value for every register.
LEMMA ParsedValues ==
    ASSUME NEW text \in Seq(STRING)
    PROVE  parse_register_values(text) \in Values
<1>1. PICK h : ScanRun(h, text)
  BY ScanTrace
<1> DEFINE n == Len(text)
<1>2. n \in 0 .. n
  OBVIOUS
<1>3. /\ h \in [0 .. n -> Scans]
      /\ parse_register_values(text)
            = IF h[n].ok /\ h[n].mode = "value" THEN h[n].values ELSE NoValues
  BY <1>1, Zenon DEF ScanRun
<1> HIDE DEF n
<1>4. h[n].values \in Values
  BY <1>2, <1>3 DEF Scans
<1>5. NoValues \in Values
  BY CpuAssumption DEF NoValues, Values
<1> QED
  BY <1>3, <1>4, <1>5

(***************************************************************************)
(* A list of registers and values.                                         *)
(***************************************************************************)
IsComma(c) == c = ","
IsColon(c) == c = ":"

\* The item that the first k characters leave open starts at c.
Opens(text, c, k) ==
    /\ c \in 1 .. k + 1
    /\ c = 1 \/ IsComma(text[c - 1])
    /\ \A i \in c .. k : ~IsComma(text[i])

\* Item p has one colon, at j, and digits around it.
Pair(text, p, j) ==
    /\ j \in p[1] .. p[2] /\ IsColon(text[j])
    /\ \A i \in p[1] .. p[2] : i # j => is_digit(text[i])

\* The items that a comma among the first k characters closes.
Closed(text, k) == {p \in Items(text) : p[2] < k}

LEMMA Separators ==
    ASSUME NEW c
    PROVE  /\ is_digit(c) => ~IsComma(c) /\ ~IsColon(c)
           /\ IsComma(c) => ~IsColon(c)
<1>1. is_digit(c) => c \notin {",", ":"}
  BY Characters
<1>2. is_digit(c) => c # "," /\ c # ":"
  BY <1>1, Zenon
<1>3. c = "," => c # ":"
  BY Zenon
<1> QED
  BY <1>2, <1>3, Zenon DEF IsComma, IsColon

LEMMA ItemIs ==
    ASSUME NEW text, NEW p
    PROVE  p \in Items(text) <=>
             /\ p \in (1 .. Len(text) + 1) \X (0 .. Len(text))
             /\ p[1] <= p[2] + 1
             /\ p[1] = 1 \/ IsComma(text[p[1] - 1])
             /\ p[2] = Len(text) \/ IsComma(text[p[2] + 1])
             /\ \A i \in p[1] .. p[2] : ~IsComma(text[i])
BY Zenon DEF Items, IsComma

LEMMA ItemType ==
    ASSUME NEW text \in Seq(STRING), NEW p \in Items(text)
    PROVE  /\ Len(text) \in Nat /\ p = <<p[1], p[2]>>
           /\ p[1] \in 1 .. Len(text) + 1 /\ p[2] \in 0 .. Len(text) /\ p[1] <= p[2] + 1
           /\ p[1] = 1 \/ IsComma(text[p[1] - 1])
           /\ p[2] = Len(text) \/ IsComma(text[p[2] + 1])
           /\ \A i \in p[1] .. p[2] : ~IsComma(text[i])
BY ItemIs

LEMMA ItemEnds ==
    ASSUME NEW text \in Seq(STRING), NEW k \in 0 .. Len(text), NEW c, Opens(text, c, k),
           k = Len(text) \/ IsComma(text[k + 1])
    PROVE  /\ <<c, k>> \in Items(text)
           /\ \A p \in Items(text) : p[2] = k => p = <<c, k>>
<1>1. /\ c \in 1 .. k + 1 /\ (c = 1 \/ IsComma(text[c - 1]))
      /\ \A i \in c .. k : ~IsComma(text[i])
  BY Zenon DEF Opens
<1>2. <<c, k>> \in Items(text)
  <2> DEFINE p == <<c, k>>
  <2>1. p[1] = c /\ p[2] = k
    OBVIOUS
  <2>2. p \in (1 .. Len(text) + 1) \X (0 .. Len(text)) /\ c <= k + 1
    BY <1>1
  <2> HIDE DEF p
  <2>3. p \in Items(text)
    BY <1>1, <2>1, <2>2, ItemIs
  <2> QED
    BY <2>3 DEF p
<1>3. ASSUME NEW p \in Items(text), p[2] = k PROVE p = <<c, k>>
  <2>1. /\ p = <<p[1], p[2]>> /\ p[1] \in 1 .. k + 1 /\ (p[1] = 1 \/ IsComma(text[p[1] - 1]))
        /\ \A i \in p[1] .. k : ~IsComma(text[i])
    BY <1>3, ItemType
  <2>2. ~(p[1] < c)
    <3> SUFFICES ASSUME p[1] < c PROVE FALSE
      OBVIOUS
    <3>1. c - 1 \in p[1] .. k /\ c # 1
      BY <1>1, <2>1
    <3> QED
      BY <1>1, <2>1, <3>1
  <2>3. ~(c < p[1])
    <3> SUFFICES ASSUME c < p[1] PROVE FALSE
      OBVIOUS
    <3>1. p[1] - 1 \in c .. k /\ p[1] # 1
      BY <1>1, <2>1
    <3> QED
      BY <1>1, <2>1, <3>1
  <2>4. p[1] = c
    BY <1>1, <2>1, <2>2, <2>3
  <2> QED
    BY <1>3, <2>1, <2>4
<1> QED
  BY <1>2, <1>3

\* A character that is no comma is in an item, which starts where the open one does.
LEMMA ItemAround ==
    ASSUME NEW text \in Seq(STRING), NEW k \in 1 .. Len(text), NEW c, Opens(text, c, k)
    PROVE  \E p \in Items(text) : p[1] = c /\ p[2] \in k .. Len(text)
<1> DEFINE n == Len(text)
           S == {i \in k .. n : i = n \/ IsComma(text[i + 1])}
<1>1. S \in SUBSET Nat /\ n \in S /\ n \in Nat
  OBVIOUS
<1>2. PICK e \in S : \A j \in S : e <= j
  BY <1>1, LeastElement
<1>3. e \in k .. n /\ (e = n \/ IsComma(text[e + 1]))
  OBVIOUS
<1>4. /\ c \in 1 .. k + 1 /\ (c = 1 \/ IsComma(text[c - 1]))
      /\ \A i \in c .. k : ~IsComma(text[i])
  BY Zenon DEF Opens
<1>5. ASSUME NEW i \in c .. e PROVE ~IsComma(text[i])
  <2>1. CASE i <= k
    BY <1>3, <1>4, <2>1
  <2>2. CASE i > k
    <3>1. i - 1 \in k .. n /\ i - 1 < e /\ (i - 1) + 1 = i
      BY <1>3, <1>4, <2>2
    <3>2. i - 1 \notin S
      <4>1. ~(e <= i - 1) /\ \A j \in S : e <= j
        BY <1>2, <1>3, <3>1
      <4> HIDE DEF S
      <4> QED
        BY <4>1
    <3> QED
      BY <3>1, <3>2
  <2> QED
    BY <1>3, <1>4, <2>1, <2>2
<1>6. c \in 1 .. e + 1 /\ e \in 0 .. Len(text)
  BY <1>3, <1>4
<1>7. Opens(text, c, e)
  BY <1>4, <1>5, <1>6, Zenon DEF Opens
<1>8. <<c, e>> \in Items(text)
  BY <1>3, <1>6, <1>7, ItemEnds
<1> QED
  BY <1>3, <1>8

\* The one colon of an item is where it is looked for.
LEMMA TheColon ==
    ASSUME NEW text \in Seq(STRING), NEW p \in Items(text), NEW j,
           j \in p[1] .. p[2], IsColon(text[j]), Cardinality(Colons(text, p)) = 1
    PROVE  /\ Colon(text, p) = j
           /\ \A i \in p[1] .. p[2] : IsColon(text[i]) => i = j
<1> DEFINE S == Colons(text, p)
<1>1. p[1] \in Int /\ p[2] \in Int
  BY ItemType
<1>2. S = {i \in p[1] .. p[2] : IsColon(text[i])}
  BY Zenon DEF Colons, IsColon
<1>3. Colon(text, p) = CHOOSE i \in S : TRUE
  BY DEF Colon
<1>c. Cardinality(S) = 1
  OBVIOUS
<1> HIDE DEF S
<1>4. IsFiniteSet(S)
  <2>1. IsFiniteSet(p[1] .. p[2])
    BY <1>1, FS_Interval
  <2> QED
    BY <1>2, <2>1, FS_Subset
<1>5. PICK x : S = {x}
  BY <1>c, <1>4, FS_Singleton
<1>6. j \in S
  BY <1>2
<1>7. S = {j}
  BY <1>5, <1>6
<1> QED
  BY <1>2, <1>3, <1>7

LEMMA PairIs ==
    ASSUME NEW text \in Seq(STRING), NEW p \in Items(text), NEW j, Pair(text, p, j)
    PROVE  /\ Colon(text, p) = j /\ Cardinality(Colons(text, p)) = 1
           /\ \A i \in p[1] .. p[2] : IsColon(text[i]) \/ is_digit(text[i])
           /\ RegisterOf(text, p) = number(10, SubSeq(text, p[1], j - 1))
           /\ ValueOf(text, p) = number(10, SubSeq(text, j + 1, p[2]))
<1>1. /\ j \in p[1] .. p[2] /\ IsColon(text[j])
      /\ \A i \in p[1] .. p[2] : i # j => is_digit(text[i])
  BY Zenon DEF Pair
<1>2. \A i \in p[1] .. p[2] : IsColon(text[i]) => i = j
  BY <1>1, Separators
<1>3. Colons(text, p) = {i \in p[1] .. p[2] : IsColon(text[i])}
  BY Zenon DEF Colons, IsColon
<1>4. Colons(text, p) = {j}
  BY <1>1, <1>2, <1>3
<1>5. Colon(text, p) = j /\ Cardinality(Colons(text, p)) = 1
  BY <1>4, FS_Singleton DEF Colon
<1> QED
  BY <1>1, <1>5, Zenon DEF RegisterOf, ValueOf

\* A comma closes the open item.
LEMMA ClosedNext ==
    ASSUME NEW text \in Seq(STRING), NEW k \in 0 .. Len(text) - 1, NEW c, Opens(text, c, k)
    PROVE  /\ IsComma(text[k + 1]) =>
                /\ <<c, k>> \in Items(text) \ Closed(text, k)
                /\ Closed(text, k + 1) = Closed(text, k) \union {<<c, k>>}
                /\ Opens(text, k + 2, k + 1)
           /\ ~IsComma(text[k + 1]) =>
                /\ Closed(text, k + 1) = Closed(text, k)
                /\ Opens(text, c, k + 1)
<1>1. /\ Len(text) \in Nat /\ k \in 0 .. Len(text) /\ k # Len(text)
      /\ \A p \in Items(text) : p[2] \in Nat
  BY ItemType
<1>2. \A p \in Items(text) : p[2] < k + 1 <=> p[2] < k \/ p[2] = k
  BY <1>1
<1>3. ASSUME IsComma(text[k + 1])
      PROVE  /\ <<c, k>> \in Items(text) \ Closed(text, k)
             /\ Closed(text, k + 1) = Closed(text, k) \union {<<c, k>>}
             /\ Opens(text, k + 2, k + 1)
  <2>1. <<c, k>> \in Items(text) /\ \A p \in Items(text) : p[2] = k => p = <<c, k>>
    BY <1>1, <1>3, ItemEnds
  <2>2. <<c, k>>[2] = k
    OBVIOUS
  <2>3. <<c, k>> \notin Closed(text, k)
    BY <2>2 DEF Closed
  <2>4. Closed(text, k + 1) = Closed(text, k) \union {<<c, k>>}
    BY <1>2, <2>1, <2>2 DEF Closed
  <2>5. k + 2 \in 1 .. (k + 1) + 1 /\ (k + 2) - 1 = k + 1 /\ k + 2 .. k + 1 = {}
    OBVIOUS
  <2>6. Opens(text, k + 2, k + 1)
    BY <1>3, <2>5 DEF Opens
  <2> QED
    BY <2>1, <2>3, <2>4, <2>6
<1>4. ASSUME ~IsComma(text[k + 1])
      PROVE  Closed(text, k + 1) = Closed(text, k) /\ Opens(text, c, k + 1)
  <2>1. \A p \in Items(text) : p[2] # k
    BY <1>1, <1>4, ItemType
  <2>2. Closed(text, k + 1) = Closed(text, k)
    BY <1>2, <2>1 DEF Closed
  <2>3. /\ c \in 1 .. k + 1 /\ (c = 1 \/ IsComma(text[c - 1]))
        /\ \A i \in c .. k : ~IsComma(text[i])
    BY Zenon DEF Opens
  <2>4. \A i \in c .. k + 1 : i \in c .. k \/ i = k + 1
    BY <2>3
  <2>5. c \in 1 .. (k + 1) + 1
    BY <2>3
  <2>6. Opens(text, c, k + 1)
    BY <1>4, <2>3, <2>4, <2>5 DEF Opens
  <2> QED
    BY <2>2, <2>6
<1> QED
  BY <1>3, <1>4

\* A character more of a number.
LEMMA DigitMore ==
    ASSUME NEW text \in Seq(STRING), NEW k \in 0 .. Len(text) - 1, NEW b \in 1 .. k + 1,
           \A i \in b .. k + 1 : is_digit(text[i])
    PROVE  number(10, SubSeq(text, b, k + 1))
             = 10 * number(10, SubSeq(text, b, k)) + DigitValue[text[k + 1]]
<1> DEFINE d == SubSeq(text, b, k)
           e == SubSeq(text, b, k + 1)
<1>1. Len(text) \in Nat /\ b \in 1 .. Len(text) + 1 /\ k \in b - 1 .. Len(text) /\ k + 1 \in b - 1 .. Len(text)
  OBVIOUS
<1>2. d \in Seq(STRING) /\ Len(d) = k - b + 1 /\ \A i \in 1 .. k - b + 1 : d[i] = text[b + i - 1]
  BY <1>1, SubSeqProperties
<1>3. e \in Seq(STRING) /\ Len(e) = k - b + 2 /\ \A i \in 1 .. k - b + 2 : e[i] = text[b + i - 1]
  <2>1. (k + 1) - b + 1 = k - b + 2
    OBVIOUS
  <2> QED
    BY <1>1, <2>1, SubSeqProperties
<1> HIDE DEF d, e
<1>4. \A c : is_digit(c) => c \in Hexadecimals
  BY Characters, Digits
<1>5. d \in Digitals /\ e \in Digitals
  <2>1. \A i \in 1 .. k - b + 2 : b + i - 1 \in b .. k + 1
    OBVIOUS
  <2>2. \A i \in 1 .. Len(e) : e[i] \in Hexadecimals
    BY <1>3, <1>4, <2>1
  <2>3. \A i \in 1 .. k - b + 1 : b + i - 1 \in b .. k + 1
    OBVIOUS
  <2>4. \A i \in 1 .. Len(d) : d[i] \in Hexadecimals
    BY <1>2, <1>4, <2>3
  <2> QED
    BY <1>2, <1>3, <2>2, <2>4, AllDigits
<1>6. Len(e) = Len(d) + 1 /\ \A i \in 1 .. Len(d) : e[i] = d[i]
  BY <1>2, <1>3
<1>7. e[Len(e)] = text[k + 1]
  <2>1. k - b + 2 \in 1 .. k - b + 2 /\ b + (k - b + 2) - 1 = k + 1
    OBVIOUS
  <2> QED
    BY <1>3, <2>1
<1>8. number(10, e) = 10 * number(10, d) + DigitValue[e[Len(e)]]
  <2>1. 10 \in Nat
    OBVIOUS
  <2> QED
    BY <1>5, <1>6, <2>1, NumberStep
<1> QED
  BY <1>7, <1>8 DEF d, e

LEMMA NoDigits ==
    ASSUME NEW text \in Seq(STRING), NEW k \in 0 .. Len(text)
    PROVE  number(10, SubSeq(text, k + 1, k)) = 0
<1> DEFINE d == SubSeq(text, k + 1, k)
<1>1. k + 1 \in 1 .. Len(text) + 1 /\ k \in (k + 1) - 1 .. Len(text) /\ k - (k + 1) + 1 = 0
  OBVIOUS
<1>2. d \in Seq(STRING) /\ Len(d) = 0
  BY <1>1, SubSeqProperties
<1> HIDE DEF d
<1>3. d \in Digitals
  <2>1. \A i \in 1 .. Len(d) : d[i] \in Hexadecimals
    BY <1>2
  <2> QED
    BY <1>2, <2>1, AllDigits
<1>4. 10 \in Nat
  OBVIOUS
<1> QED
  BY <1>2, <1>3, <1>4, NumberNat DEF d

LEMMA ListedIs ==
    ASSUME NEW text
    PROVE  /\ \A p : ListedItem(text, p) <=>
                /\ Cardinality(Colons(text, p)) = 1
                /\ \A i \in p[1] .. p[2] : IsColon(text[i]) \/ is_digit(text[i])
                /\ RegisterOf(text, p) < RegCount
           /\ Listed(text) => /\ is_digit(text[Len(text)])
                              /\ \A p \in Items(text) : ListedItem(text, p)
<1>1. \A p : ListedItem(text, p) <=>
                /\ Cardinality(Colons(text, p)) = 1
                /\ \A i \in p[1] .. p[2] : IsColon(text[i]) \/ is_digit(text[i])
                /\ RegisterOf(text, p) < RegCount
  BY Zenon DEF ListedItem, IsColon
<1>2. Last(text) = text[Len(text)]
  BY DEF Last
<1> QED
  BY <1>1, <1>2, Zenon DEF Listed

(***************************************************************************)
(* What makes a text no list.                                              *)
(***************************************************************************)
LEMMA BadCharacter ==
    ASSUME NEW text \in Seq(STRING), NEW k \in 0 .. Len(text) - 1, NEW c, Opens(text, c, k),
           ~IsComma(text[k + 1]), ~IsColon(text[k + 1]), ~is_digit(text[k + 1])
    PROVE  ~Listed(text)
<1>1. Opens(text, c, k + 1)
  BY ClosedNext
<1>n. k + 1 \in 1 .. Len(text)
  OBVIOUS
<1>2. PICK p \in Items(text) : p[1] = c /\ p[2] \in k + 1 .. Len(text)
  BY <1>1, <1>n, ItemAround
<1>3. c \in 1 .. k + 1
  BY Zenon DEF Opens
<1>4. k + 1 \in p[1] .. p[2]
  BY <1>2, <1>3
<1> QED
  BY <1>4, ListedIs

LEMMA NoColon ==
    ASSUME NEW text \in Seq(STRING), NEW k \in 0 .. Len(text), NEW c, Opens(text, c, k),
           k = Len(text) \/ IsComma(text[k + 1]), \A i \in c .. k : is_digit(text[i])
    PROVE  ~Listed(text)
<1> DEFINE p == <<c, k>>
<1>1. p \in Items(text) /\ p[1] = c /\ p[2] = k
  BY ItemEnds
<1> HIDE DEF p
<1>2. \A i \in p[1] .. p[2] : ~IsColon(text[i])
  BY <1>1, Separators
<1>3. Colons(text, p) = {i \in p[1] .. p[2] : IsColon(text[i])}
  BY Zenon DEF Colons, IsColon
<1>4. Colons(text, p) = {}
  BY <1>2, <1>3
<1>5. Cardinality(Colons(text, p)) = 0
  BY <1>4, FS_EmptySet
<1> QED
  BY <1>1, <1>5, ListedIs

LEMMA TwoColons ==
    ASSUME NEW text \in Seq(STRING), NEW k \in 0 .. Len(text) - 1, NEW c, Opens(text, c, k),
           NEW j \in c .. k, IsColon(text[j]), IsColon(text[k + 1])
    PROVE  ~Listed(text)
<1>1. Opens(text, c, k + 1)
  BY Separators, ClosedNext
<1>n. k + 1 \in 1 .. Len(text)
  OBVIOUS
<1>2. PICK p \in Items(text) : p[1] = c /\ p[2] \in k + 1 .. Len(text)
  BY <1>1, <1>n, ItemAround
<1>3. c \in 1 .. k + 1
  BY Zenon DEF Opens
<1>4. k + 1 \in p[1] .. p[2] /\ j \in p[1] .. p[2] /\ j # k + 1
  BY <1>2, <1>3
<1>5. Cardinality(Colons(text, p)) # 1
  BY <1>4, TheColon
<1> QED
  BY <1>5, ListedIs

LEMMA NoRegister ==
    ASSUME NEW text \in Seq(STRING), NEW k \in 0 .. Len(text) - 1, NEW c, Opens(text, c, k),
           IsColon(text[k + 1]), ~(number(10, SubSeq(text, c, k)) < RegCount)
    PROVE  ~Listed(text)
<1>1. Opens(text, c, k + 1)
  BY Separators, ClosedNext
<1>n. k + 1 \in 1 .. Len(text)
  OBVIOUS
<1>2. PICK p \in Items(text) : p[1] = c /\ p[2] \in k + 1 .. Len(text)
  BY <1>1, <1>n, ItemAround
<1>3. c \in 1 .. k + 1
  BY Zenon DEF Opens
<1>m. (k + 1) - 1 = k
  OBVIOUS
<1>4. k + 1 \in p[1] .. p[2]
  BY <1>2, <1>3
<1>5. Cardinality(Colons(text, p)) = 1 => Colon(text, p) = k + 1
  BY <1>4, TheColon
<1>6. Cardinality(Colons(text, p)) = 1 =>
        RegisterOf(text, p) = number(10, SubSeq(text, c, k))
  BY <1>2, <1>m, <1>5, Zenon DEF RegisterOf
<1> QED
  BY <1>6, ListedIs

(***************************************************************************)
(* What the scan has read.                                                 *)
(***************************************************************************)
\* The values of the registers but those in open are what the items of D ask for.
Meant(text, D, values, open) ==
    \A r \in (0 .. RegCount - 1) \ open :
      /\ (\A p \in D : RegisterOf(text, p) # r) => values[r] = 0
      /\ \A p \in D : (\A q \in D : RegisterOf(text, q) = r <=> q = p)
                        => values[r] = ValueOf(text, p)

\* The open item, from c on, has so far but the digits of a register.
InRegister(text, k, c, s) ==
    /\ s.mode = "register"
    /\ \A i \in c .. k : is_digit(text[i])
    /\ s.reg = number(10, SubSeq(text, c, k))
    /\ Meant(text, Closed(text, k), s.values, {})

\* It has its colon at j, and the register's value the digits after it, unless an
\* item before it named the register.
InValue(text, k, c, j, s) ==
    /\ s.mode = "value" /\ Pair(text, <<c, k>>, j)
    /\ s.reg = number(10, SubSeq(text, c, j - 1)) /\ s.reg < RegCount
    /\ Meant(text, Closed(text, k), s.values, {s.reg})
    /\ (\A p \in Closed(text, k) : RegisterOf(text, p) # s.reg) =>
          s.values[s.reg] = number(10, SubSeq(text, j + 1, k))

\* The state after k characters.
SoFar(text, k, s) ==
    /\ \A p \in Closed(text, k) : ListedItem(text, p)
    /\ \E c : /\ Opens(text, c, k)
              /\ InRegister(text, k, c, s) \/ \E j : InValue(text, k, c, j, s)

Scanned(text, k, s) == IF s.ok THEN SoFar(text, k, s) ELSE ~Listed(text)

\* What a character makes of the state of the scan.
Outcome(s, c, last, t) ==
    /\ s.mode = "register" /\ IsColon(c) =>
         t = IF s.reg >= RegCount \/ last THEN refused(s)
             ELSE scanning("value", s.reg, s.values)
    /\ s.mode = "register" /\ is_digit(c) =>
         t = scanning("register", 10 * s.reg + DigitValue[c], s.values)
    /\ s.mode = "value" /\ IsComma(c) =>
         t = IF last THEN refused(s) ELSE scanning("register", 0, s.values)
    /\ s.mode = "value" /\ is_digit(c) =>
         t = scanning("value", s.reg, [s.values EXCEPT ![s.reg] = 10 * @ + DigitValue[c]])
    /\ ~(\/ s.mode = "register" /\ (IsColon(c) \/ is_digit(c))
         \/ s.mode = "value" /\ (IsComma(c) \/ is_digit(c))) =>
         t = refused(s)

LEMMA ScanCases ==
    ASSUME NEW s, NEW c, NEW last, s.ok
    PROVE  Outcome(s, c, last, scan(s, c, last))
<1>1. /\ is_digit(c) => ~IsComma(c) /\ ~IsColon(c)
      /\ IsComma(c) => ~IsColon(c)
  BY Separators
<1>2. /\ s.mode = "register" => ~(s.mode = "value")
      /\ ~ ~s.ok
  OBVIOUS
<1>3. ASSUME s.mode = "register", IsColon(c)
      PROVE  scan(s, c, last) = IF s.reg >= RegCount \/ last THEN refused(s)
                                ELSE scanning("value", s.reg, s.values)
  <2>1. ~is_digit(c) /\ ~(s.mode = "value")
    BY <1>1, <1>2, <1>3
  <2> QED
    BY <1>2, <1>3, <2>1, Zenon DEF scan, IsColon, IsComma
<1>4. ASSUME s.mode = "register", is_digit(c)
      PROVE  scan(s, c, last)
               = scanning("register", 10 * s.reg + DigitValue[c], s.values)
  <2>1. ~IsColon(c) /\ ~(s.mode = "value")
    BY <1>1, <1>2, <1>4
  <2> QED
    BY <1>2, <1>4, <2>1, Zenon DEF scan, IsColon, IsComma
<1>5. ASSUME s.mode = "value", IsComma(c)
      PROVE  scan(s, c, last) = IF last THEN refused(s)
                                ELSE scanning("register", 0, s.values)
  <2>1. ~is_digit(c) /\ ~(s.mode = "register")
    BY <1>1, <1>2, <1>5
  <2> QED
    BY <1>2, <1>5, <2>1, Zenon DEF scan, IsColon, IsComma
<1>6. ASSUME s.mode = "value", is_digit(c)
      PROVE  scan(s, c, last)
               = scanning("value", s.reg, [s.values EXCEPT ![s.reg] = 10 * @ + DigitValue[c]])
  <2>1. ~IsComma(c) /\ ~(s.mode = "register")
    BY <1>1, <1>2, <1>6
  <2> QED
    BY <1>2, <1>6, <2>1, Zenon DEF scan, IsColon, IsComma
<1>7. ASSUME ~(s.mode = "register" /\ (IsColon(c) \/ is_digit(c))),
             ~(s.mode = "value" /\ (IsComma(c) \/ is_digit(c)))
      PROVE  scan(s, c, last) = refused(s)
  <2>1. /\ ~(s.ok /\ s.mode = "register" /\ IsColon(c))
        /\ ~(s.ok /\ s.mode = "register" /\ is_digit(c))
        /\ ~(s.ok /\ s.mode = "value" /\ IsComma(c))
        /\ ~(s.ok /\ s.mode = "value" /\ is_digit(c))
    BY <1>7
  <2> QED
    BY <1>2, <2>1, Zenon DEF scan, IsColon, IsComma
<1> QED
  BY <1>3, <1>4, <1>5, <1>6, <1>7, Zenon DEF Outcome

LEMMA RegisterDigit ==
    ASSUME NEW text \in Seq(STRING), NEW k \in 0 .. Len(text) - 1, NEW s \in Scans,
           NEW c, Opens(text, c, k), \A p \in Closed(text, k) : ListedItem(text, p),
           InRegister(text, k, c, s), is_digit(text[k + 1])
    PROVE  SoFar(text, k + 1,
                 scanning("register", 10 * s.reg + DigitValue[text[k + 1]], s.values))
<1> DEFINE t == scanning("register", 10 * s.reg + DigitValue[text[k + 1]], s.values)
<1>1. /\ t.mode = "register" /\ t.values = s.values
      /\ t.reg = 10 * s.reg + DigitValue[text[k + 1]]
  BY DEF scanning
<1> HIDE DEF t
<1>2. c \in 1 .. k + 1
  BY Zenon DEF Opens
<1>3. Closed(text, k + 1) = Closed(text, k) /\ Opens(text, c, k + 1)
  BY Separators, ClosedNext
<1>4. /\ \A i \in c .. k : is_digit(text[i])
      /\ s.reg = number(10, SubSeq(text, c, k))
      /\ Meant(text, Closed(text, k), s.values, {})
  BY DEF InRegister
<1>5. \A i \in c .. k + 1 : is_digit(text[i])
  <2>1. \A i \in c .. k + 1 : i \in c .. k \/ i = k + 1
    BY <1>2
  <2> QED
    BY <1>4, <2>1
<1>6. t.reg = number(10, SubSeq(text, c, k + 1))
  BY <1>1, <1>2, <1>4, <1>5, DigitMore
<1>7. InRegister(text, k + 1, c, t)
  BY <1>1, <1>3, <1>4, <1>5, <1>6 DEF InRegister
<1> QED
  BY <1>3, <1>7 DEF SoFar, t

LEMMA RegisterColon ==
    ASSUME NEW text \in Seq(STRING), NEW k \in 0 .. Len(text) - 1, NEW s \in Scans,
           NEW c, Opens(text, c, k), \A p \in Closed(text, k) : ListedItem(text, p),
           InRegister(text, k, c, s), IsColon(text[k + 1]), s.reg < RegCount
    PROVE  SoFar(text, k + 1, scanning("value", s.reg, s.values))
<1> DEFINE t == scanning("value", s.reg, s.values)
<1>1. t.mode = "value" /\ t.values = s.values /\ t.reg = s.reg
  BY DEF scanning
<1> HIDE DEF t
<1>2. c \in 1 .. k + 1
  BY Zenon DEF Opens
<1>3. Closed(text, k + 1) = Closed(text, k) /\ Opens(text, c, k + 1)
  BY Separators, ClosedNext
<1>4. /\ \A i \in c .. k : is_digit(text[i])
      /\ s.reg = number(10, SubSeq(text, c, k))
      /\ Meant(text, Closed(text, k), s.values, {})
  BY DEF InRegister
<1>5. Pair(text, <<c, k + 1>>, k + 1)
  <2>1. k + 1 \in c .. k + 1 /\ \A i \in c .. k + 1 : i # k + 1 => i \in c .. k
    BY <1>2
  <2>2. <<c, k + 1>>[1] = c /\ <<c, k + 1>>[2] = k + 1
    OBVIOUS
  <2> QED
    BY <1>4, <2>1, <2>2 DEF Pair
<1>6. (k + 1) - 1 = k /\ (k + 1) + 1 = k + 1 + 1 /\ k + 1 \in 0 .. Len(text)
  OBVIOUS
<1>7. s.reg \in 0 .. RegCount - 1
  BY CpuAssumption DEF Scans
<1>8. Meant(text, Closed(text, k), s.values, {s.reg})
  BY <1>4 DEF Meant
<1>9. (\A p \in Closed(text, k) : RegisterOf(text, p) # s.reg) => s.values[s.reg] = 0
  BY <1>4, <1>7 DEF Meant
<1>10. number(10, SubSeq(text, k + 1 + 1, k + 1)) = 0
  BY <1>6, NoDigits
<1>11. InValue(text, k + 1, c, k + 1, t)
  BY <1>1, <1>3, <1>4, <1>5, <1>6, <1>8, <1>9, <1>10 DEF InValue
<1> QED
  BY <1>3, <1>11 DEF SoFar, t

LEMMA ValueDigit ==
    ASSUME NEW text \in Seq(STRING), NEW k \in 0 .. Len(text) - 1, NEW s \in Scans,
           NEW c, Opens(text, c, k), \A p \in Closed(text, k) : ListedItem(text, p),
           NEW j, InValue(text, k, c, j, s), is_digit(text[k + 1])
    PROVE  SoFar(text, k + 1,
                 scanning("value", s.reg,
                          [s.values EXCEPT ![s.reg] = 10 * @ + DigitValue[text[k + 1]]]))
<1> DEFINE v == [s.values EXCEPT ![s.reg] = 10 * @ + DigitValue[text[k + 1]]]
           t == scanning("value", s.reg, v)
<1>1. t.mode = "value" /\ t.values = v /\ t.reg = s.reg
  BY DEF scanning
<1> HIDE DEF t
<1>2. c \in 1 .. k + 1
  BY Zenon DEF Opens
<1>3. Closed(text, k + 1) = Closed(text, k) /\ Opens(text, c, k + 1)
  BY Separators, ClosedNext
<1>4. /\ s.mode = "value" /\ Pair(text, <<c, k>>, j)
      /\ s.reg = number(10, SubSeq(text, c, j - 1)) /\ s.reg < RegCount
      /\ Meant(text, Closed(text, k), s.values, {s.reg})
      /\ (\A p \in Closed(text, k) : RegisterOf(text, p) # s.reg) =>
            s.values[s.reg] = number(10, SubSeq(text, j + 1, k))
  BY DEF InValue
<1>5. s.reg \in 0 .. RegCount - 1 /\ s.values \in [0 .. RegCount - 1 -> Nat]
  BY <1>4, CpuAssumption DEF Scans, Values
<1>6. /\ v[s.reg] = 10 * s.values[s.reg] + DigitValue[text[k + 1]]
      /\ \A r \in (0 .. RegCount - 1) \ {s.reg} : v[r] = s.values[r]
  BY <1>5
<1> HIDE DEF v
<1>7. <<c, k>>[1] = c /\ <<c, k>>[2] = k /\ <<c, k + 1>>[1] = c /\ <<c, k + 1>>[2] = k + 1
  OBVIOUS
<1>8. /\ j \in c .. k /\ IsColon(text[j])
      /\ \A i \in c .. k : i # j => is_digit(text[i])
  BY <1>4, <1>7 DEF Pair
<1>9. Pair(text, <<c, k + 1>>, j)
  <2>1. j \in c .. k + 1 /\ \A i \in c .. k + 1 : i \in c .. k \/ i = k + 1
    BY <1>2, <1>8
  <2> QED
    BY <1>7, <1>8, <2>1 DEF Pair
<1>10. Meant(text, Closed(text, k), v, {s.reg})
  BY <1>4, <1>6 DEF Meant
<1>11. number(10, SubSeq(text, j + 1, k + 1))
         = 10 * number(10, SubSeq(text, j + 1, k)) + DigitValue[text[k + 1]]
  <2>1. j + 1 \in 1 .. k + 1
    BY <1>2, <1>8
  <2>2. \A i \in j + 1 .. k + 1 : i = k + 1 \/ (i \in c .. k /\ i # j)
    BY <1>2, <1>8
  <2>3. \A i \in j + 1 .. k + 1 : is_digit(text[i])
    BY <1>8, <2>2
  <2> QED
    BY <2>1, <2>3, DigitMore
<1>12. InValue(text, k + 1, c, j, t)
  BY <1>1, <1>3, <1>4, <1>6, <1>9, <1>10, <1>11 DEF InValue
<1> QED
  BY <1>3, <1>12 DEF SoFar, t, v

LEMMA ValueComma ==
    ASSUME NEW text \in Seq(STRING), NEW k \in 0 .. Len(text) - 1, NEW s \in Scans,
           NEW c, Opens(text, c, k), \A p \in Closed(text, k) : ListedItem(text, p),
           NEW j, InValue(text, k, c, j, s), IsComma(text[k + 1])
    PROVE  SoFar(text, k + 1, scanning("register", 0, s.values))
<1> DEFINE t == scanning("register", 0, s.values)
           q == <<c, k>>
           D == Closed(text, k)
<1>1. t.mode = "register" /\ t.values = s.values /\ t.reg = 0
  BY DEF scanning
<1> HIDE DEF t
<1>2. /\ q \in Items(text) \ D
      /\ Closed(text, k + 1) = D \union {q}
      /\ Opens(text, k + 2, k + 1)
  BY ClosedNext
<1>3. /\ s.mode = "value" /\ Pair(text, q, j)
      /\ s.reg = number(10, SubSeq(text, c, j - 1)) /\ s.reg < RegCount
      /\ Meant(text, D, s.values, {s.reg})
      /\ (\A p \in D : RegisterOf(text, p) # s.reg) =>
            s.values[s.reg] = number(10, SubSeq(text, j + 1, k))
  BY DEF InValue
<1>4. q[1] = c /\ q[2] = k
  OBVIOUS
<1> HIDE DEF q, D
<1>5. /\ Cardinality(Colons(text, q)) = 1
      /\ \A i \in q[1] .. q[2] : IsColon(text[i]) \/ is_digit(text[i])
      /\ RegisterOf(text, q) = s.reg
      /\ ValueOf(text, q) = number(10, SubSeq(text, j + 1, k))
  BY <1>2, <1>3, <1>4, PairIs
<1>6. ListedItem(text, q)
  BY <1>3, <1>5, ListedIs
<1>7. \A p \in Closed(text, k + 1) : ListedItem(text, p)
  BY <1>2, <1>6 DEF D
<1>8. Meant(text, D \union {q}, s.values, {})
  <2> DEFINE E == D \union {q}
             Of(p) == RegisterOf(text, p)
  <2>1. q \in E /\ q \notin D /\ Of(q) = s.reg
    BY <1>2, <1>5
  <2>2. ASSUME NEW r \in 0 .. RegCount - 1, \A p \in E : Of(p) # r PROVE s.values[r] = 0
    <3>1. r # s.reg /\ \A p \in D : Of(p) # r
      BY <2>1, <2>2
    <3> HIDE DEF E, Of
    <3> QED
      BY <1>3, <3>1 DEF Meant, Of
  <2>3. ASSUME NEW r \in 0 .. RegCount - 1, NEW p \in E, \A o \in E : Of(o) = r <=> o = p
        PROVE  s.values[r] = ValueOf(text, p)
    <3>1. CASE p = q
      <4>1. r = s.reg /\ \A o \in D : Of(o) # s.reg
        BY <2>1, <2>3, <3>1
      <4> QED
        BY <1>3, <1>5, <3>1, <4>1
    <3>2. CASE p # q
      <4>1. r # s.reg /\ p \in D /\ \A o \in D : Of(o) = r <=> o = p
        BY <2>1, <2>3, <3>2
      <4> HIDE DEF E, Of
      <4> QED
        BY <1>3, <4>1 DEF Meant, Of
    <3> QED
      BY <3>1, <3>2
  <2> QED
    BY <2>2, <2>3 DEF Meant
<1>9. number(10, SubSeq(text, k + 2, k + 1)) = 0
  <2>1. k + 1 \in 0 .. Len(text) /\ (k + 1) + 1 = k + 2
    OBVIOUS
  <2>2. number(10, SubSeq(text, (k + 1) + 1, k + 1)) = 0
    BY <2>1, NoDigits
  <2> QED
    BY <2>1, <2>2
<1>10. k + 2 .. k + 1 = {}
  OBVIOUS
<1>11. InRegister(text, k + 1, k + 2, t)
  BY <1>1, <1>2, <1>8, <1>9, <1>10 DEF InRegister
<1> QED
  BY <1>2, <1>7, <1>11 DEF SoFar, t

LEMMA ScannedNext ==
    ASSUME NEW text \in Seq(STRING), NEW k \in 0 .. Len(text) - 1, NEW s \in Scans,
           Scanned(text, k, s)
    PROVE  Scanned(text, k + 1, scan(s, text[k + 1], k + 1 = Len(text)))
<1> DEFINE a == text[k + 1]
           last == (k + 1 = Len(text))
           t == scan(s, a, last)
<1>1. ASSUME ~s.ok PROVE Scanned(text, k + 1, t)
  <2>1. t = s
    BY <1>1, Zenon DEF scan
  <2> HIDE DEF t
  <2> QED
    BY <1>1, <2>1 DEF Scanned
<1>2. ASSUME s.ok PROVE Scanned(text, k + 1, t)
  <2>1. s.mode \in {"register", "value"} /\ s.reg \in Nat /\ RegCount \in Nat
    BY CpuAssumption DEF Scans
  <2>2. /\ \A p \in Closed(text, k) : ListedItem(text, p)
        /\ \E c : /\ Opens(text, c, k)
                  /\ InRegister(text, k, c, s) \/ \E j : InValue(text, k, c, j, s)
    BY <1>2 DEF Scanned, SoFar
  <2>3. PICK c : /\ Opens(text, c, k)
                 /\ InRegister(text, k, c, s) \/ \E j : InValue(text, k, c, j, s)
    BY <2>2
  <2>4. refused(s).ok = FALSE
    BY DEF refused, Scans
  <2>5. \A mode, reg, values : scanning(mode, reg, values).ok = TRUE
    BY DEF scanning
  <2>6. \A l : IsComma(l) \/ IsColon(l) => ~is_digit(l)
    BY Separators
  <2>7. last => text[Len(text)] = a
    OBVIOUS
  <2>8. ASSUME t = refused(s), ~Listed(text) PROVE Scanned(text, k + 1, t)
    BY <2>4, <2>8 DEF Scanned
  <2>9. ASSUME NEW mode, NEW reg, NEW values, t = scanning(mode, reg, values),
               SoFar(text, k + 1, scanning(mode, reg, values))
        PROVE  Scanned(text, k + 1, t)
    BY <2>5, <2>9 DEF Scanned
  <2>c. Outcome(s, a, last, t)
    BY <1>2, ScanCases, Zenon
  <2> HIDE DEF t
  <2>10. CASE InRegister(text, k, c, s)
    <3>1. s.mode = "register" /\ s.mode # "value"
      BY <2>10 DEF InRegister
    <3>2. CASE is_digit(a)
      <4>1. t = scanning("register", 10 * s.reg + DigitValue[a], s.values)
        BY <2>c, <3>1, <3>2, Zenon DEF Outcome
      <4> QED
        BY <2>2, <2>3, <2>9, <2>10, <3>2, <4>1, RegisterDigit
    <3>3. CASE IsColon(a) /\ s.reg < RegCount /\ ~last
      <4>1. ~(s.reg >= RegCount \/ last)
        BY <2>1, <3>3
      <4>2. t = scanning("value", s.reg, s.values)
        BY <2>c, <3>1, <3>3, <4>1, Zenon DEF Outcome
      <4> QED
        BY <2>2, <2>3, <2>9, <2>10, <3>3, <4>2, RegisterColon
    <3>4. CASE IsColon(a) /\ ~(s.reg < RegCount /\ ~last)
      <4>1. s.reg >= RegCount \/ last
        BY <2>1, <3>4
      <4>2. t = refused(s)
        BY <2>c, <3>1, <3>4, <4>1, Zenon DEF Outcome
      <4>3. CASE last
        BY <2>7, <2>8, <2>6, <3>4, <4>2, <4>3, ListedIs
      <4>4. CASE ~(s.reg < RegCount)
        <5>1. ~(number(10, SubSeq(text, c, k)) < RegCount)
          BY <2>10, <4>4 DEF InRegister
        <5> QED
          BY <2>3, <2>8, <3>4, <4>2, <5>1, NoRegister
      <4> QED
        BY <3>4, <4>3, <4>4
    <3>5. CASE ~is_digit(a) /\ ~IsColon(a)
      <4>1. t = refused(s)
        BY <2>c, <3>1, <3>5, Zenon DEF Outcome
      <4>2. CASE IsComma(a)
        <5>1. k \in 0 .. Len(text) /\ \A i \in c .. k : is_digit(text[i])
          BY <2>10 DEF InRegister
        <5>2. ~Listed(text)
          BY <2>3, <4>2, <5>1, NoColon
        <5> QED
          BY <2>8, <4>1, <5>2
      <4>3. CASE ~IsComma(a)
        BY <2>3, <2>8, <3>5, <4>1, <4>3, BadCharacter
      <4> QED
        BY <4>2, <4>3
    <3> QED
      BY <3>2, <3>3, <3>4, <3>5
  <2>11. CASE \E j : InValue(text, k, c, j, s)
    <3>0. PICK j : InValue(text, k, c, j, s)
      BY <2>11
    <3>1. s.mode = "value" /\ s.mode # "register"
      BY <3>0 DEF InValue
    <3>2. CASE is_digit(a)
      <4>1. t = scanning("value", s.reg, [s.values EXCEPT ![s.reg] = 10 * @ + DigitValue[a]])
        BY <2>c, <3>1, <3>2, Zenon DEF Outcome
      <4>2. SoFar(text, k + 1, scanning("value", s.reg,
                    [s.values EXCEPT ![s.reg] = 10 * @ + DigitValue[a]]))
        BY <2>2, <2>3, <3>0, <3>2, ValueDigit
      <4> QED
        BY <2>9, <4>1, <4>2
    <3>3. CASE IsComma(a) /\ ~last
      <4>1. t = scanning("register", 0, s.values)
        BY <2>c, <3>1, <3>3, Zenon DEF Outcome
      <4> QED
        BY <2>2, <2>3, <2>9, <3>0, <3>3, <4>1, ValueComma
    <3>4. CASE IsComma(a) /\ last
      <4>1. t = refused(s)
        BY <2>c, <3>1, <3>4, Zenon DEF Outcome
      <4> QED
        BY <2>7, <2>8, <2>6, <3>4, <4>1, ListedIs
    <3>5. CASE ~is_digit(a) /\ ~IsComma(a)
      <4>1. t = refused(s)
        BY <2>c, <3>1, <3>5, Zenon DEF Outcome
      <4>2. CASE IsColon(a)
        <5>1. Pair(text, <<c, k>>, j)
          BY <3>0 DEF InValue
        <5>2. j \in c .. k /\ IsColon(text[j])
          BY <5>1 DEF Pair
        <5> QED
          BY <2>3, <2>8, <4>1, <4>2, <5>2, TwoColons
      <4>3. CASE ~IsColon(a)
        BY <2>3, <2>8, <3>5, <4>1, <4>3, BadCharacter
      <4> QED
        BY <4>2, <4>3
    <3> QED
      BY <3>2, <3>3, <3>4, <3>5
  <2> QED
    BY <2>3, <2>10, <2>11
<1> QED
  BY <1>1, <1>2

LEMMA ScannedFirst ==
    ASSUME NEW text \in Seq(STRING)
    PROVE  Scanned(text, 0, scanning("register", 0, NoValues))
<1> DEFINE s == scanning("register", 0, NoValues)
<1>1. s.ok = TRUE /\ s.mode = "register" /\ s.reg = 0 /\ s.values = NoValues
  BY DEF scanning
<1>2. \A r \in 0 .. RegCount - 1 : NoValues[r] = 0
  BY DEF NoValues
<1> HIDE DEF s
<1>3. Closed(text, 0) = {}
  <2>1. \A p \in Items(text) : ~(p[2] < 0)
    BY ItemType
  <2> QED
    BY <2>1 DEF Closed
<1>4. Opens(text, 1, 0)
  <2>1. 1 \in 1 .. 0 + 1 /\ 1 .. 0 = {}
    OBVIOUS
  <2> QED
    BY <2>1 DEF Opens
<1>5. number(10, SubSeq(text, 1, 0)) = 0
  <2>1. 0 \in 0 .. Len(text) /\ 0 + 1 = 1
    OBVIOUS
  <2>2. number(10, SubSeq(text, 0 + 1, 0)) = 0
    BY <2>1, NoDigits
  <2> QED
    BY <2>1, <2>2
<1>6. Meant(text, {}, NoValues, {})
  BY <1>2 DEF Meant
<1>7. 1 .. 0 = {}
  OBVIOUS
<1>8. InRegister(text, 0, 1, s)
  BY <1>1, <1>3, <1>5, <1>6, <1>7 DEF InRegister
<1>9. Scanned(text, 0, s)
  BY <1>1, <1>3, <1>4, <1>8 DEF Scanned, SoFar
<1> QED
  BY <1>9 DEF s

LEMMA ScannedLast ==
    ASSUME NEW text \in Seq(STRING), NEW h, ScanRun(h, text)
    PROVE  Scanned(text, Len(text), h[Len(text)])
<1> DEFINE n == Len(text)
           P == {k \in 0 .. n : Scanned(text, k, h[k])}
<1>1. /\ h \in [0 .. n -> Scans] /\ h[0] = scanning("register", 0, NoValues)
      /\ \A k \in 1 .. n : h[k] = scan(h[k - 1], text[k], k = n)
  BY Zenon DEF ScanRun
<1>2. n \in Nat
  OBVIOUS
<1>3. 0 \in P
  BY <1>1, <1>2, ScannedFirst
<1>4. ASSUME NEW k \in 0 .. n - 1, k \in P PROVE k + 1 \in P
  <2>1. k + 1 \in 1 .. n /\ (k + 1) - 1 = k /\ k + 1 \in 0 .. n /\ k \in 0 .. n
    BY <1>2
  <2>2. h[k + 1] = scan(h[k], text[k + 1], k + 1 = n) /\ h[k] \in Scans
    BY <1>1, <2>1
  <2>3. Scanned(text, k + 1, scan(h[k], text[k + 1], k + 1 = n))
    BY <1>4, <2>2, ScannedNext
  <2> HIDE DEF n
  <2> QED
    BY <2>1, <2>2, <2>3
<1> HIDE DEF P
<1>5. 0 .. n \subseteq P
  <2> HIDE DEF n
  <2> QED
    BY <1>2, <1>3, <1>4, RangeInduction
<1>6. n \in P
  BY <1>2, <1>5
<1> QED
  BY <1>6 DEF P

(***************************************************************************)
(* Every text sets what it lists (opts_parse, parse_register_values).      *)
(***************************************************************************)
THEOREM ParsesEveryText ==
    ASSUME NEW text \in Seq(STRING)
    PROVE  SetsAsListed(text, parse_register_values(text))
<1> DEFINE n == Len(text)
           values == parse_register_values(text)
<1>1. PICK h : ScanRun(h, text)
  BY ScanTrace
<1> DEFINE s == h[n]
<1>2. Scanned(text, n, s)
  BY <1>1, ScannedLast
<1>3. /\ h \in [0 .. n -> Scans] /\ h[0] = scanning("register", 0, NoValues)
      /\ \A k \in 1 .. n : h[k] = scan(h[k - 1], text[k], k = n)
      /\ values = IF s.ok /\ s.mode = "value" THEN s.values ELSE NoValues
  BY <1>1, Zenon DEF ScanRun
<1>4. n \in Nat /\ n \in 0 .. n
  OBVIOUS
<1>5. s \in Scans
  BY <1>3, <1>4
<1> HIDE DEF s, values
<1>6. CASE ~s.ok
  <2>1. ~Listed(text) /\ values = NoValues
    BY <1>2, <1>3, <1>6 DEF Scanned
  <2> QED
    BY <2>1 DEF SetsAsListed, values
<1>7. CASE s.ok
  <2>1. /\ \A p \in Closed(text, n) : ListedItem(text, p)
        /\ \E c : /\ Opens(text, c, n)
                  /\ InRegister(text, n, c, s) \/ \E j : InValue(text, n, c, j, s)
    BY <1>2, <1>7 DEF Scanned, SoFar
  <2>2. PICK c : /\ Opens(text, c, n)
                 /\ InRegister(text, n, c, s) \/ \E j : InValue(text, n, c, j, s)
    BY <2>1
  <2>3. CASE InRegister(text, n, c, s)
    <3>1. s.mode # "value" /\ \A i \in c .. n : is_digit(text[i])
      BY <2>3 DEF InRegister
    <3>2. ~Listed(text)
      BY <1>4, <2>2, <3>1, NoColon
    <3> QED
      BY <1>3, <3>1, <3>2 DEF SetsAsListed, values
  <2>4. CASE \E j : InValue(text, n, c, j, s)
    <3>1. PICK j : InValue(text, n, c, j, s)
      BY <2>4
    <3> DEFINE q == <<c, n>>
               D == Closed(text, n)
    <3>2. /\ s.mode = "value" /\ Pair(text, q, j)
          /\ s.reg = number(10, SubSeq(text, c, j - 1)) /\ s.reg < RegCount
          /\ Meant(text, D, s.values, {s.reg})
          /\ (\A p \in D : RegisterOf(text, p) # s.reg) =>
                s.values[s.reg] = number(10, SubSeq(text, j + 1, n))
      BY <3>1 DEF InValue
    <3>3. q \in Items(text) /\ \A p \in Items(text) : p[2] = n => p = q
      BY <1>4, <2>2, ItemEnds
    <3>4. q[1] = c /\ q[2] = n
      OBVIOUS
    <3>5. Items(text) = D \union {q} /\ q \notin D
      <4>1. \A p \in Items(text) : p[2] \in 0 .. n
        BY ItemType
      <4>2. \A p \in Items(text) : p[2] < n \/ p[2] = n
        BY <1>4, <4>1
      <4>3. ~(n < n)
        BY <1>4
      <4> HIDE DEF q
      <4> QED
        BY <3>3, <3>4, <4>2, <4>3 DEF Closed
    <3> HIDE DEF q, D
    <3>6. /\ Cardinality(Colons(text, q)) = 1
          /\ \A i \in q[1] .. q[2] : IsColon(text[i]) \/ is_digit(text[i])
          /\ RegisterOf(text, q) = s.reg
          /\ ValueOf(text, q) = number(10, SubSeq(text, j + 1, n))
      BY <3>2, <3>3, <3>4, PairIs
    <3>7. ListedItem(text, q)
      BY <3>2, <3>6, ListedIs
    <3>8. \A p \in Items(text) : ListedItem(text, p)
      BY <2>1, <3>5, <3>7 DEF D
    <3>9. n # 0 /\ text # <<>>
      <4>1. n # 0
        BY <1>3, <3>2 DEF scanning, s
      <4> QED
        BY <4>1
    <3>10. is_digit(Last(text))
      <4>1. n \in 1 .. n /\ n - 1 \in 0 .. n
        BY <1>4, <3>9
      <4> DEFINE r == h[n - 1]
      <4>2. r \in Scans /\ s = scan(r, text[n], n = n)
        BY <1>3, <4>1 DEF s
      <4> HIDE DEF r
      <4>3. r.ok
        <5>1. ~r.ok => s = r
          BY <4>2, Zenon DEF scan
        <5> QED
          BY <1>7, <5>1
      <4>c. Outcome(r, text[n], n = n, s)
        BY <4>2, <4>3, ScanCases, Zenon
      <4>4. refused(r).ok = FALSE
        BY <4>2 DEF refused, Scans
      <4>5. r.mode = "register" \/ r.mode = "value"
        BY <4>2 DEF Scans
      <4>6. s # refused(r)
        BY <1>7, <4>4
      <4>m. r.mode = "register" => r.mode # "value"
        OBVIOUS
      <4>7. r.mode = "register" => s.mode # "value"
        <5>1. ASSUME r.mode = "register", is_digit(text[n]) PROVE s.mode # "value"
          <6>1. s = scanning("register", 10 * r.reg + DigitValue[text[n]], r.values)
            BY <4>c, <4>m, <5>1, Zenon DEF Outcome
          <6> QED
            BY <6>1 DEF scanning
        <5>2. ASSUME r.mode = "register", ~is_digit(text[n]) PROVE FALSE
          <6>1. s = refused(r)
            BY <4>c, <4>m, <5>2, Zenon DEF Outcome
          <6> QED
            BY <4>6, <6>1
        <5> QED
          BY <5>1, <5>2
      <4>8. ASSUME r.mode = "value", ~is_digit(text[n]) PROVE FALSE
        <5>1. s = refused(r)
          BY <4>c, <4>m, <4>8, Zenon DEF Outcome
        <5> QED
          BY <4>6, <5>1
      <4>9. Last(text) = text[n]
        BY DEF Last
      <4> QED
        BY <3>2, <4>5, <4>7, <4>8, <4>9
    <3>11. Listed(text)
      BY <3>8, <3>9, <3>10, Zenon DEF Listed
    <3>12. values = s.values
      BY <1>3, <1>7, <3>2
    <3> DEFINE Of(p) == RegisterOf(text, p)
               Naming(r) == {p \in Items(text) : Of(p) = r}
    <3>13. ASSUME NEW r \in 0 .. RegCount - 1, Naming(r) = {} PROVE values[r] = 0
      <4>1. r # s.reg /\ \A p \in D : Of(p) # r
        BY <3>5, <3>6, <3>13
      <4> HIDE DEF Of
      <4> QED
        BY <3>2, <3>12, <4>1 DEF Meant, Of
    <3>14. ASSUME NEW r \in 0 .. RegCount - 1, NEW p \in Naming(r), Naming(r) = {p}
           PROVE  values[r] = ValueOf(text, p)
      <4>1. \A o \in Items(text) : Of(o) = r <=> o = p
        BY <3>14
      <4>2. CASE p = q
        <5>1. r = s.reg /\ \A o \in D : Of(o) # s.reg
          BY <3>5, <3>6, <4>1, <4>2
        <5> QED
          BY <3>2, <3>6, <3>12, <4>2, <5>1
      <4>3. CASE p # q
        <5>1. r # s.reg /\ p \in D /\ \A o \in D : Of(o) = r <=> o = p
          BY <3>5, <3>6, <4>1, <4>3
        <5> HIDE DEF Of
        <5> QED
          BY <3>2, <3>12, <5>1 DEF Meant, Of
      <4> QED
        BY <4>2, <4>3
    <3> HIDE DEF Of
    <3>15. \A r \in 0 .. RegCount - 1 :
             /\ Naming(r) = {} => values[r] = 0
             /\ \A p \in Naming(r) : Naming(r) = {p} => values[r] = ValueOf(text, p)
      BY <3>13, <3>14
    <3> QED
      BY <3>11, <3>15, Zenon DEF SetsAsListed, values, Of
  <2> QED
    BY <2>2, <2>3, <2>4
<1> QED
  BY <1>6, <1>7

\* So --register-values is read as opts.c documents it.
THEOREM ParsesAsDocumentedHolds == StartupSpec => []ParsesAsDocumented
<1>1. ParsesAsDocumented
  <2>1. \A text \in Lists : text \in Seq(STRING)
    BY StartupAssumption
  <2>2. \A text \in Seq(STRING) : SetsAsListed(text, parse_register_values(text))
    BY ParsesEveryText
  <2> QED
    BY <2>1, <2>2, Zenon DEF ParsesAsDocumented
<1> QED
  BY <1>1, PTL

(***************************************************************************)
(* Loading a file.                                                         *)
(***************************************************************************)
Memory == [Readable -> Word]

LoadRun(h, mem, file, from) ==
    /\ h \in [0 .. Len(file) -> Memory] /\ h[0] = mem
    /\ h[Len(file)] = load_file(mem, file, from)
    /\ \A k \in 1 .. Len(file) :
         h[k] = [h[k - 1] EXCEPT ![word_address(from, k)] = file[k]]

\* The memories that load_file goes through, word by word.
LEMMA LoadTrace ==
    ASSUME NEW mem \in Memory, NEW file \in Seq(Word), NEW from
    PROVE  \E h : LoadRun(h, mem, file, from)
<1> DEFINE n == Len(file)
           place == [i \in DOMAIN file |-> i]
           Step(t, k) == [t EXCEPT ![word_address(from, k)] = file[k]]
           Folds(g) == g = [T \in SUBSET DOMAIN place |->
                              IF T = {} THEN mem ELSE Step(g[T \ {Max(T)}], place[Max(T)])]
           result == (CHOOSE g : Folds(g))[DOMAIN place]
<1>1. n \in Nat /\ DOMAIN file = 1 .. n
  OBVIOUS
<1>2. load_file(mem, file, from) = result
  BY Zenon DEF load_file, FoldLeftDomain, FoldLeft, MapThenFoldSet
<1>3. ASSUME NEW k \in 1 .. n PROVE place[k] = k
  BY <1>1
<1>4. DOMAIN place = 1 .. n
  BY <1>1
<1> HIDE DEF place
<1>5. ASSUME NEW t \in Memory, NEW k \in 1 .. n PROVE Step(t, k) \in Memory
  <2>1. file[k] \in Word
    OBVIOUS
  <2> QED
    BY <2>1 DEF Memory
<1>d. \A t, k : Step(t, k) = [t EXCEPT ![word_address(from, k)] = file[k]]
  OBVIOUS
<1> HIDE DEF Step
<1>6. \E g : Folds(g)
  <2> DEFINE F == [a \in Memory \X (1 .. n) |-> Step(a[1], a[2])]
  <2>1. F \in [Memory \X (1 .. n) -> Memory]
    BY <1>5
  <2>2. \A t \in Memory, k \in 1 .. n : F[t, k] = Step(t, k)
    OBVIOUS
  <2> HIDE DEF F
  <2>3. PICK g \in [SUBSET (1 .. n) -> Memory] : Folded(g, mem, n, F)
    BY <1>1, <2>1, FoldExists
  <2>4. ASSUME NEW T \in SUBSET (1 .. n), T # {}
        PROVE  F[g[T \ {Max(T)}], Max(T)] = Step(g[T \ {Max(T)}], place[Max(T)])
    <3>1. Max(T) \in 1 .. n /\ g[T \ {Max(T)}] \in Memory
      BY <1>1, <2>4, MaxIsElement
    <3> QED
      BY <1>3, <2>2, <3>1
  <2>5. Folds(g)
    BY <1>4, <2>3, <2>4 DEF Folded
  <2> QED
    BY <2>5
<1> DEFINE g == CHOOSE f : Folds(f)
<1>7. Folds(g) /\ result = g[1 .. n]
  BY <1>4, <1>6, Zenon
<1> HIDE DEF g, result, n
<1>8. g[1 .. 0] = mem
  <2>1. 1 .. 0 = {}
    OBVIOUS
  <2> QED
    BY <1>4, <1>7, <2>1
<1>9. ASSUME NEW k \in 1 .. n PROVE g[1 .. k] = Step(g[1 .. k - 1], k)
  <2>1. 1 .. k \in SUBSET (1 .. n) /\ k \in 1 .. k /\ k \in Nat \ {0}
    BY <1>1
  <2>2. Max(1 .. k) = k /\ (1 .. k) \ {k} = 1 .. k - 1
    BY <2>1, MaxOfRange
  <2>3. \A T \in SUBSET (1 .. n) : T # {} => g[T] = Step(g[T \ {Max(T)}], place[Max(T)])
    BY <1>4, <1>7
  <2> HIDE DEF Folds
  <2> QED
    BY <1>3, <2>1, <2>2, <2>3
<1> HIDE DEF Folds
<1> DEFINE P == { k \in 0 .. n : g[1 .. k] \in Memory }
<1>10. 0 \in P
  BY <1>1, <1>8
<1>11. ASSUME NEW k \in 0 .. n - 1, k \in P PROVE k + 1 \in P
  <2>1. k + 1 \in 1 .. n /\ (k + 1) - 1 = k /\ k + 1 \in 0 .. n
    BY <1>1
  <2>2. g[1 .. k + 1] = Step(g[1 .. k], k + 1)
    BY <1>9, <2>1
  <2> QED
    BY <1>5, <1>11, <2>1, <2>2
<1>12. \A k \in 0 .. n : g[1 .. k] \in Memory
  <2> HIDE DEF P
  <2>1. 0 .. n \subseteq P
    BY <1>1, <1>10, <1>11, RangeInduction
  <2> QED
    BY <2>1 DEF P
<1> DEFINE h == [k \in 0 .. n |-> g[1 .. k]]
<1>13. h \in [0 .. n -> Memory] /\ h[0] = mem /\ h[n] = load_file(mem, file, from)
  BY <1>1, <1>2, <1>7, <1>8, <1>12
<1>14. \A k \in 1 .. n : h[k] = [h[k - 1] EXCEPT ![word_address(from, k)] = file[k]]
  <2>1. \A k \in 1 .. n : h[k] = g[1 .. k] /\ h[k - 1] = g[1 .. k - 1]
    BY <1>1
  <2> HIDE DEF h
  <2> QED
    BY <1>9, <1>d, <2>1
<1> HIDE DEF h
<1> QED
  BY <1>13, <1>14 DEF LoadRun, n

LEMMA LoadedType ==
    ASSUME NEW mem \in Memory, NEW file \in Seq(Word), NEW from
    PROVE  load_file(mem, file, from) \in Memory
<1>1. PICK h : LoadRun(h, mem, file, from)
  BY LoadTrace
<1>2. Len(file) \in 0 .. Len(file)
  OBVIOUS
<1> QED
  BY <1>1, <1>2 DEF LoadRun

LEMMA Scale == ASSUME NEW j \in Int, NEW k \in Int, j <= k PROVE j * WORD_SIZE <= k * WORD_SIZE
<1>1. WORD_SIZE \in Nat
  BY WordFacts
<1>2. (k - j) * WORD_SIZE >= 0
  BY <1>1
<1>3. (k - j) * WORD_SIZE = k * WORD_SIZE - j * WORD_SIZE
  BY <1>1
<1> QED
  BY <1>1, <1>2, <1>3

\* The addresses of n words from an address on, where they do not wrap around.
at(from, k) == from + (k - 1) * WORD_SIZE

LEMMA Addresses ==
    ASSUME NEW from \in Nat, NEW n \in Nat, from + n * WORD_SIZE <= Modulus
    PROVE  /\ \A k \in 1 .. n : /\ at(from, k) \in Nat /\ from <= at(from, k)
                                /\ at(from, k) < from + n * WORD_SIZE
                                /\ word_address(from, k) = at(from, k)
           /\ \A j, k \in 1 .. n : at(from, j) = at(from, k) => j = k
<1>1. WORD_SIZE \in Nat \ {0} /\ Modulus \in Nat
  BY WordFacts
<1>2. ASSUME NEW k \in 1 .. n
      PROVE  /\ at(from, k) \in Nat /\ from <= at(from, k)
             /\ at(from, k) + WORD_SIZE <= from + n * WORD_SIZE
             /\ word_address(from, k) = at(from, k)
  <2>1. 0 * WORD_SIZE <= (k - 1) * WORD_SIZE /\ k * WORD_SIZE <= n * WORD_SIZE
    BY Scale
  <2>2. (k - 1) * WORD_SIZE = k * WORD_SIZE - WORD_SIZE /\ k * WORD_SIZE \in Int /\ n * WORD_SIZE \in Int
    BY <1>1
  <2>3. /\ at(from, k) \in Nat /\ from <= at(from, k)
        /\ at(from, k) + WORD_SIZE <= from + n * WORD_SIZE
    BY <1>1, <2>1, <2>2 DEF at
  <2>4. at(from, k) \in Word
    BY <1>1, <2>2, <2>3 DEF Word
  <2> QED
    BY <2>3, <2>4, WordFacts DEF at, word_address
<1>3. ASSUME NEW j \in 1 .. n, NEW k \in 1 .. n, j < k PROVE at(from, j) < at(from, k)
  <2>1. j * WORD_SIZE <= (k - 1) * WORD_SIZE
    BY <1>3, Scale
  <2>2. (j - 1) * WORD_SIZE = j * WORD_SIZE - WORD_SIZE /\ j * WORD_SIZE \in Int
        /\ (k - 1) * WORD_SIZE \in Int
    BY <1>1
  <2> QED
    BY <1>1, <2>1, <2>2 DEF at
<1>4. \A j, k \in 1 .. n : at(from, j) = at(from, k) => j = k
  <2> SUFFICES ASSUME NEW j \in 1 .. n, NEW k \in 1 .. n, at(from, j) = at(from, k), j # k
               PROVE  FALSE
    OBVIOUS
  <2>1. at(from, j) \in Nat /\ at(from, k) \in Nat
    BY <1>2
  <2>2. j < k \/ k < j
    OBVIOUS
  <2> QED
    BY <1>3, <2>1, <2>2
<1>5. n * WORD_SIZE \in Int
  BY <1>1
<1>6. \A k \in 1 .. n : at(from, k) < from + n * WORD_SIZE
  BY <1>1, <1>2, <1>5
<1> QED
  BY <1>2, <1>4, <1>6

\* A file that the bus takes stands in the memory, word by word, but for those that a
\* later one of a file that goes round covers, and nothing else is changed.
LEMMA Loaded ==
    ASSUME NEW mem \in Memory, NEW file \in Seq(Word), NEW from \in Nat,
           NEW W \in SUBSET Readable, loadable(file, from, W)
    PROVE  LET t == load_file(mem, file, from)
           IN  /\ \A k \in 1 .. Len(file) :
                    /\ word_address(from, k) \in W
                    /\ \/ t[word_address(from, k)] = file[k]
                       \/ \E j \in 1 .. Len(file) :
                            j > k /\ word_address(from, j) = word_address(from, k)
               /\ \A a \in Readable :
                    (\A k \in 1 .. Len(file) : a # word_address(from, k)) => t[a] = mem[a]
<1> DEFINE n == Len(file)
           w(k) == word_address(from, k)
<1>1. n \in Nat /\ DOMAIN file = 1 .. n
  OBVIOUS
<1>2. PICK h : LoadRun(h, mem, file, from)
  BY LoadTrace
<1>3. /\ h \in [0 .. n -> Memory] /\ h[0] = mem /\ h[n] = load_file(mem, file, from)
      /\ \A k \in 1 .. n : h[k] = [h[k - 1] EXCEPT ![w(k)] = file[k]]
  BY <1>2 DEF LoadRun
<1>4. \A k \in 1 .. n : w(k) \in W
  BY <1>1 DEF loadable
<1> HIDE DEF n, w
<1> DEFINE Stands(k) == /\ \A j \in 1 .. k : \/ h[k][w(j)] = file[j]
                                             \/ \E i \in 1 .. k : i > j /\ w(i) = w(j)
                        /\ \A a \in Readable :
                             (\A j \in 1 .. n : a # w(j)) => h[k][a] = mem[a]
           P == { k \in 0 .. n : Stands(k) }
<1>5. 0 \in P
  BY <1>1, <1>3
<1>6. ASSUME NEW k \in 0 .. n - 1, k \in P PROVE k + 1 \in P
  <2>1. k + 1 \in 1 .. n /\ (k + 1) - 1 = k /\ k \in 0 .. n /\ k + 1 \in 0 .. n
        /\ k + 1 \in 1 .. k + 1 /\ k < k + 1
    BY <1>1
  <2>2. h[k + 1] = [h[k] EXCEPT ![w(k + 1)] = file[k + 1]]
    BY <1>3, <2>1
  <2>3. h[k] \in Memory /\ w(k + 1) \in Readable
    BY <1>3, <1>4, <2>1
  <2>4. h[k + 1][w(k + 1)] = file[k + 1]
    BY <2>2, <2>3 DEF Memory
  <2>5. ASSUME NEW j \in 1 .. k
        PROVE  \/ h[k + 1][w(j)] = file[j]
               \/ \E i \in 1 .. k + 1 : i > j /\ w(i) = w(j)
    <3>1. /\ j \in 1 .. n /\ j < k + 1
          /\ h[k][w(j)] = file[j] \/ \E i \in 1 .. k : i > j /\ w(i) = w(j)
      BY <1>1, <1>6
    <3>2. CASE w(j) = w(k + 1)
      BY <2>1, <3>1, <3>2
    <3>3. CASE \E i \in 1 .. k : i > j /\ w(i) = w(j)
      <4>1. \A i \in 1 .. k : i \in 1 .. k + 1
        BY <1>1
      <4> QED
        BY <3>3, <4>1
    <3>4. CASE w(j) # w(k + 1) /\ h[k][w(j)] = file[j]
      <4>1. w(j) \in Readable
        BY <1>4, <3>1
      <4> QED
        BY <2>2, <2>3, <3>4, <4>1 DEF Memory
    <3> QED
      BY <3>1, <3>2, <3>3, <3>4
  <2>6. ASSUME NEW a \in Readable, \A j \in 1 .. n : a # w(j) PROVE h[k + 1][a] = mem[a]
    <3>1. h[k][a] = mem[a] /\ a # w(k + 1)
      BY <1>6, <2>1, <2>6
    <3> QED
      BY <2>2, <2>3, <3>1 DEF Memory
  <2>7. \A j \in 1 .. k + 1 : j \in 1 .. k \/ j = k + 1
    BY <1>1
  <2> QED
    BY <2>1, <2>4, <2>5, <2>6, <2>7
<1> HIDE DEF Stands, P
<1>7. Stands(n)
  <2>1. 0 .. n \subseteq P /\ n \in 0 .. n
    BY <1>1, <1>5, <1>6, RangeInduction
  <2> QED
    BY <2>1 DEF P
<1> QED
  BY <1>3, <1>4, <1>7 DEF Stands, n, w

(***************************************************************************)
(* main, up to the start of the CPU's thread.                              *)
(***************************************************************************)
\* The registers, whatever the number of those a value is given for.
LEMMA Assigned ==
    ASSUME NEW s \in Machine, NEW o, o.values \in Values, o.pc \in Word,
           o.print_steps \in BOOLEAN
    PROVE  LET t == set_registers(s, o)
           IN  /\ t \in Machine /\ t.mem = s.mem /\ t.ie = s.ie /\ t.panic = s.panic
               /\ \A r \in Registers :
                    t.reg[r] = IF r \in 0 .. RegCount - 1 THEN o.values[r] % Modulus
                               ELSE IF r \in {PC, CS} THEN o.pc
                               ELSE IF r = IDT THEN IDT_ADDRESS ELSE s.reg[r]
<1> DEFINE first == [r \in {PC, CS, IDT} |-> IF r = IDT THEN IDT_ADDRESS ELSE o.pc]
           reg == [r \in Registers |-> IF r < RegCount THEN o.values[r] % Modulus
                                       ELSE IF r \in DOMAIN first THEN first[r] ELSE s.reg[r]]
           t == [s EXCEPT !.reg = reg, !.print_op = o.print_steps]
<1>1. RegCount - 1 \in Registers /\ RegCount \in Nat
  BY CpuAssumption DEF Registers
<1>2. \A r \in Registers : r \in Nat /\ (r < RegCount <=> r \in 0 .. RegCount - 1)
  BY <1>1 DEF Registers, Special, IDT, IR, SP, BP, PC, CS
<1>3. DOMAIN first = {PC, CS, IDT} /\ \A r \in {PC, CS, IDT} :
         first[r] = IF r \in {PC, CS} THEN o.pc ELSE IDT_ADDRESS
  BY DEF PC, CS, IDT
<1>4. s.reg \in [Registers -> Word] /\ IDT_ADDRESS \in Word
  BY WordFacts DEF Machine
<1>5. \A r \in 0 .. RegCount - 1 : o.values[r] \in Int
  BY <1>1 DEF Values
<1>v. \A r \in 0 .. RegCount - 1 : o.values[r] % Modulus \in Word
  BY <1>5, WordFacts
<1> HIDE DEF first
<1>6. \A r \in Registers :
         reg[r] = IF r \in 0 .. RegCount - 1 THEN o.values[r] % Modulus
                  ELSE IF r \in {PC, CS} THEN o.pc
                  ELSE IF r = IDT THEN IDT_ADDRESS ELSE s.reg[r]
  BY <1>2, <1>3
<1>7. reg \in [Registers -> Word]
  BY <1>4, <1>6, <1>v
<1>9. set_registers(s, o) = cpu_flags_update(t, reg[RegCount - 1])
  BY DEF set_registers, assigned, first
<1> HIDE DEF reg
<1>8. /\ t \in Machine /\ t.mem = s.mem /\ t.ie = s.ie /\ t.panic = s.panic /\ t.reg = reg
  BY <1>7 DEF Machine
<1> HIDE DEF t
<1>10. LET u == cpu_flags_update(t, reg[RegCount - 1])
       IN  /\ u \in Machine /\ u.mem = t.mem /\ u.ie = t.ie /\ u.panic = t.panic
           /\ u.reg = t.reg
  <2>1. ASSUME NEW z \in BOOLEAN, NEW neg \in BOOLEAN
        PROVE  LET u == [t EXCEPT !.z = z, !.n = neg]
               IN  /\ u \in Machine /\ u.mem = t.mem /\ u.ie = t.ie /\ u.panic = t.panic
                   /\ u.reg = t.reg
    BY <1>8 DEF Machine
  <2>2. \A v : (v = 0) \in BOOLEAN /\ (v >= Modulus \div 2) \in BOOLEAN
    OBVIOUS
  <2> QED
    BY <2>1, <2>2, Zenon DEF cpu_flags_update
<1> QED
  BY <1>6, <1>8, <1>9, <1>10

\* What the user asks for, once it is parsed, and the files it names.
LEMMA Parsed ==
    ASSUME NEW line \in CommandLines
    PROVE  LET o == opts_parse(line)
           IN  /\ o.values \in Values /\ o.pc \in Word /\ o.print_steps \in BOOLEAN
               /\ o.image = line.image /\ o.rom = line.rom
<1>1. line \in Options
  BY StartupAssumption
<1>2. line.values \in Seq(STRING)
  BY <1>1 DEF Options
<1>3. NoValues \in Values
  BY CpuAssumption DEF NoValues, Values
<1> DEFINE v == IF line.values = NoText THEN NoValues ELSE parse_register_values(line.values)
<1>4. v \in Values
  BY <1>2, <1>3, ParsedValues
<1>5. opts_parse(line) = [line EXCEPT !.values = v]
  BY DEF opts_parse
<1> HIDE DEF v
<1> QED
  BY <1>1, <1>4, <1>5 DEF Options

LEMMA Files ==
    ASSUME NEW line \in CommandLines, Loads(line)
    PROVE  /\ image_words(line) \in Seq(Word) /\ rom_words(line) \in Seq(Word)
           /\ loadable(image_words(line), STACK_SIZE, Writable)
           /\ loadable(rom_words(line), ROM_ADDRESS, Writable \union RomArea)
<1>1. line \in Options /\ HALT_WORD \in Word
  BY StartupAssumption
<1>2. /\ line.image \in Seq(Word) \union {NoFile, Unreadable}
      /\ line.rom \in Seq(Word) \union {NoFile, Unreadable}
  BY <1>1 DEF Options
<1>3. line.image # Unreadable /\ line.rom # Unreadable
  BY DEF Loads
<1>4. <<HALT_WORD>> \in Seq(Word) /\ << >> \in Seq(Word)
  BY <1>1
<1>5. image_words(line) \in Seq(Word) /\ rom_words(line) \in Seq(Word)
  BY <1>2, <1>3, <1>4 DEF image_words, rom_words
<1> QED
  BY <1>5 DEF Loads

(***************************************************************************)
(* The processor in a run of the program.                                  *)
(***************************************************************************)
\* What vm_create leaves at an address, if anything sets it.
Original(a) == CASE a = INTERRUPT_MASK_ADDRESS -> INTERRUPTS_MASKED
                 [] a = VIDEO_META_ADDRESS -> VIDEO_BIT_ENABLED
                 [] OTHER -> 0

\* The machine as vm_create leaves it, for main to load the files into.
Fresh ==
    /\ m.reg[SP] = STACK_SIZE /\ m.reg[BP] = STACK_SIZE
    /\ \A a \in Readable \ Unset : m.mem[a] = Original(a)
    /\ ~m.ie /\ m.panic = "OK"

\* Nothing touches the machine before main has parsed the command line, and main
\* aborts only after the panic it has no name for.
SessionInv ==
    /\ CpuInv
    /\ phase = "command line" => thread = "idle" /\ Fresh
    /\ phase = "aborted" => m.panic = "UNIMPLEMENTED_OPCODE"

LEMMA InitSession == StartupInit => SessionInv
<1> SUFFICES ASSUME StartupInit PROVE SessionInv
  OBVIOUS
<1>1. PICK ir \in {IDT_ADDRESS} \union Lines, garbage \in [Unset -> Garbage] :
        m = cpu_reset(ir, garbage)
  BY DEF StartupInit
<1>2. ir \in Word /\ STACK_SIZE \in Word /\ 0 \in Word
  BY CpuAssumption, WordFacts
<1> DEFINE mem == [a \in Readable |-> initial_word(a, garbage)]
<1>7. mem \in [Readable -> Word] /\ \A a \in Readable \ Unset : mem[a] = Original(a)
  <2>1. /\ INTERRUPTS_MASKED \in Word /\ VIDEO_BIT_ENABLED \in Word
        /\ INTERRUPT_MASK_ADDRESS # VIDEO_META_ADDRESS
        /\ INTERRUPT_MASK_ADDRESS \notin Unset /\ VIDEO_META_ADDRESS \notin Unset
        /\ Garbage \subseteq Word
    BY StartupAssumption
  <2>2. ASSUME NEW a \in Readable
        PROVE  initial_word(a, garbage) \in Word
               /\ (a \notin Unset => initial_word(a, garbage) = Original(a))
    <3>1. CASE a \in Unset
      BY <2>1, <3>1 DEF initial_word
    <3>2. CASE a \notin Unset
      BY <1>2, <2>1, <3>2 DEF initial_word, Original
    <3> QED
      BY <3>1, <3>2
  <2> QED
    BY <2>2
<1> HIDE DEF mem
<1>3. /\ m.reg = [r \in Registers |-> CASE r \in {PC, CS, SP, BP} -> STACK_SIZE
                                        [] r = IR -> ir
                                        [] OTHER -> 0]
      /\ m.mem = mem /\ ~m.ie /\ m.panic = "OK"
  BY <1>1 DEF cpu_reset, mem
<1>4. m.reg \in [Registers -> Word] /\ m.mem \in [Readable -> Word]
  BY <1>2, <1>3, <1>7
<1>5. m \in Machine
  BY <1>1, <1>4 DEF cpu_reset, Machine, Panics
<1>6. m.reg[SP] = STACK_SIZE /\ m.reg[BP] = STACK_SIZE
  BY <1>3, WordFacts DEF SP, BP, IR
<1> QED
  BY <1>3, <1>5, <1>6, <1>7 DEF StartupInit, SessionInv, CpuInv, TypeOK, Fresh

\* Whatever the ROM's interrupts and the debugger's lines are, a step of the run is a
\* step of the processor, or none.
LEMMA RunningStep == Running => [Next]_vars
BY DEF Running, Iteration, Debugged, Resumes, Answers, InputEnds, Next, vars, command

\* The CPU's thread is idle only before its first step, which main's may only tell to
\* stop.
LEMMA RunningIdle ==
    ASSUME m \in Machine, Running, thread' = "idle"
    PROVE  thread = "idle" /\ m'.reg = m.reg /\ m'.mem = m.mem /\ m'.ie = m.ie
<1>1. [Next]_vars
  BY RunningStep
<1>2. CASE cpu_stop
  BY <1>2 DEF cpu_stop, Machine
<1>3. CASE UNCHANGED vars
  BY <1>3 DEF vars
<1>4. ASSUME NEW line \in arriving, Iterate(line) PROVE FALSE
  BY <1>4 DEF Iterate, CannotFetch, NotImplemented, Fetches, Looping, Execute, Trap
<1>5. ~ StartLoop /\ ~ LeaveLoop /\ \A c \in Commands : ~ Debug(c)
  BY DEF StartLoop, LeaveLoop, Debug
<1> QED
  BY <1>1, <1>2, <1>3, <1>4, <1>5 DEF Next

\* What main leaves to the CPU's thread.
LEMMA StartsType ==
    ASSUME SessionInv, NEW line \in CommandLines, Starts(line)
    PROVE  LET o == opts_parse(line)
               mem == files_loaded(m.mem, line)
           IN  /\ m' \in Machine /\ m'.panic = "OK" /\ m'.mem = mem /\ ~m'.ie
               /\ \A r \in Registers :
                    m'.reg[r] = IF r \in 0 .. RegCount - 1 THEN o.values[r] % Modulus
                                ELSE IF r \in {PC, CS} THEN o.pc
                                ELSE IF r = IDT THEN IDT_ADDRESS ELSE m.reg[r]
<1> DEFINE o == opts_parse(line)
           mem == files_loaded(m.mem, line)
           s == [m EXCEPT !.mem = mem]
<1>1. m \in Machine /\ Fresh
  BY DEF SessionInv, CpuInv, TypeOK, Starts
<1>2. o.values \in Values /\ o.pc \in Word /\ o.print_steps \in BOOLEAN
  BY Parsed
<1>3. image_words(line) \in Seq(Word) /\ rom_words(line) \in Seq(Word)
  BY Files DEF Starts
<1>4. m.mem \in Memory
  BY <1>1 DEF Machine, Memory
<1>5. load_file(m.mem, image_words(line), STACK_SIZE) \in Memory
  BY <1>3, <1>4, LoadedType
<1>6. mem \in Memory
  BY <1>3, <1>5, LoadedType DEF files_loaded
<1>7. m' = set_registers(s, o)
  BY DEF Starts
<1> HIDE DEF o, mem
<1>8. s \in Machine /\ s.mem = mem /\ s.reg = m.reg /\ s.ie = m.ie /\ s.panic = m.panic
  BY <1>1, <1>6 DEF Machine, Memory
<1> HIDE DEF s
<1>9. LET t == set_registers(s, o)
      IN  /\ t \in Machine /\ t.mem = s.mem /\ t.ie = s.ie /\ t.panic = s.panic
          /\ \A r \in Registers :
               t.reg[r] = IF r \in 0 .. RegCount - 1 THEN o.values[r] % Modulus
                          ELSE IF r \in {PC, CS} THEN o.pc
                          ELSE IF r = IDT THEN IDT_ADDRESS ELSE s.reg[r]
  BY <1>2, <1>8, Assigned
<1> QED
  BY <1>1, <1>7, <1>8, <1>9 DEF Fresh, o, mem

LEMMA StepSession == SessionInv /\ [StartupNext]_startupVars => SessionInv'
<1> SUFFICES ASSUME SessionInv, [StartupNext]_startupVars PROVE SessionInv'
  OBVIOUS
<1>1. ASSUME NEW line \in CommandLines, Helps(line) \/ Fails(line) PROVE SessionInv'
  BY <1>1 DEF Helps, Fails, vars, SessionInv, CpuInv, TypeOK, last_word
<1>2. ASSUME NEW line \in CommandLines, Starts(line) PROVE SessionInv'
  <2>1. m' \in Machine /\ m'.panic = "OK" /\ phase' = "running" /\ thread' = "idle"
    BY <1>2, StartsType DEF Starts, SessionInv
  <2> QED
    BY <2>1 DEF SessionInv, CpuInv, TypeOK
<1>3. CASE phase = "running" /\ Running /\ UNCHANGED <<phase, options>>
  <2>1. CpuInv'
    BY <1>3, RunningStep, StepType DEF SessionInv
  <2> QED
    BY <1>3, <2>1 DEF SessionInv
<1>4. CASE main_ends
  <2>1. UNCHANGED vars /\ phase' \in {"aborted", "ended"}
        /\ (phase' = "aborted" => m.panic = "UNIMPLEMENTED_OPCODE")
    BY <1>4 DEF main_ends
  <2> QED
    BY <2>1 DEF vars, SessionInv, CpuInv, TypeOK, last_word
<1>5. CASE UNCHANGED startupVars
  BY <1>5 DEF startupVars, SessionInv, CpuInv, TypeOK, last_word, Fresh
<1> QED
  BY <1>1, <1>2, <1>3, <1>4, <1>5 DEF StartupNext

LEMMA SessionInvariant == StartupSpec => []SessionInv
BY InitSession, StepSession, PTL DEF StartupSpec

\* What the processor keeps by itself it keeps in the program, between main, the
\* interrupts the ROM dispatches and the debugger: the types of its registers, its
\* memory and its flags, that calls return, that printing does not show, and that an
\* access that was refused is a panic.
THEOREM SessionKeepsMachine ==
    StartupSpec => [](TypeOK /\ CallReturns /\ PrintingInvisible) /\ FaultPanics
<1>1. SessionInv => TypeOK /\ CallReturns /\ PrintingInvisible
  BY ReturnsInv, PrintingInv DEF SessionInv, CpuInv
<1> DEFINE A == m'.fault /\ m'.panic = "OK"
                  => \A i \in Instructions : Executes(i) => several_registers(i)
<1>2. SessionInv => [A]_vars
  BY FaultPanicsInv DEF SessionInv
<1> HIDE DEF A
<1>3. FaultPanics <=> [][A]_vars
  BY DEF FaultPanics, A
<1> QED
  BY <1>1, <1>2, <1>3, SessionInvariant, PTL

\* main aborts only where the program ran into a word that encodes no instruction, and
\* that word is the one before its program counter (main.c, cpu.c).
THEOREM AbortsAtBadWordHolds == StartupSpec => []AbortsAtBadWord
<1>1. SessionInv => AbortsAtBadWord
  BY DEF SessionInv, CpuInv, AbortsAtBadWord, last_word
<1> QED
  BY <1>1, SessionInvariant, PTL

(***************************************************************************)
(* The files side by side.                                                 *)
(***************************************************************************)
\* Where the files go.
LEMMA Layout ==
    /\ STACK_SIZE \in Nat /\ ROM_ADDRESS \in Nat /\ ROM_SIZE \in Nat
    /\ ROM_ADDRESS + ROM_SIZE = Modulus /\ ROM_ADDRESS \in Word
    /\ ROM_ADDRESS \notin Writable
    /\ ROM_ADDRESS - STACK_SIZE \in Nat /\ (ROM_ADDRESS - STACK_SIZE) % WORD_SIZE = 0
    /\ Writable \subseteq Readable /\ Writable \union RomArea \subseteq Readable
    /\ Readable \subseteq Nat
<1>1. STACK_SIZE \in Word /\ ROM_ADDRESS \in Word /\ \A v \in Word : v \in Nat
  BY WordFacts
<1>2. /\ ROM_SIZE \in Nat /\ ROM_ADDRESS + ROM_SIZE = Modulus /\ ROM_ADDRESS \notin Writable
      /\ STACK_SIZE <= ROM_ADDRESS /\ (ROM_ADDRESS - STACK_SIZE) % WORD_SIZE = 0
  BY StartupAssumption
<1>3. ROM_ADDRESS - STACK_SIZE \in Nat
  BY <1>1, <1>2
<1>4. Writable \subseteq Readable /\ Readable \subseteq Nat
  BY <1>1, CpuAssumption
<1> QED
  BY <1>1, <1>2, <1>3, <1>4 DEF RomArea

\* An image that the bus takes ends where the ROM starts, or before.
LEMMA ImageFits ==
    ASSUME NEW image \in Seq(Word), loadable(image, STACK_SIZE, Writable)
    PROVE  STACK_SIZE + Len(image) * WORD_SIZE <= ROM_ADDRESS
<1> DEFINE n == Len(image)
           q == (ROM_ADDRESS - STACK_SIZE) \div WORD_SIZE
<1>1. n \in Nat /\ DOMAIN image = 1 .. n
  OBVIOUS
<1>2. /\ WORD_SIZE \in Nat \ {0} /\ STACK_SIZE \in Nat /\ ROM_ADDRESS \in Nat
      /\ ROM_ADDRESS - STACK_SIZE \in Nat /\ (ROM_ADDRESS - STACK_SIZE) % WORD_SIZE = 0
  BY WordFacts, Layout
<1>3. q \in Nat /\ q * WORD_SIZE = ROM_ADDRESS - STACK_SIZE
  <2>1. \A d \in Nat, w \in Nat \ {0} : d % w = 0 => d \div w \in Nat /\ (d \div w) * w = d
    OBVIOUS
  <2> QED
    BY <1>2, <2>1
<1> HIDE DEF q, n
<1>4. CASE n <= q
  BY <1>1, <1>2, <1>3, <1>4, Scale DEF n
<1>5. CASE n > q
  <2>1. q + 1 \in 1 .. n /\ (q + 1) - 1 = q
    BY <1>1, <1>3, <1>5
  <2>2. STACK_SIZE + q * WORD_SIZE = ROM_ADDRESS
    BY <1>2, <1>3
  <2>3. word_address(STACK_SIZE, q + 1) = ROM_ADDRESS
    BY <2>1, <2>2, Layout, WordFacts DEF word_address
  <2>4. ROM_ADDRESS \in Writable
    BY <1>1, <2>1, <2>3 DEF loadable
  <2> QED
    BY <2>4, Layout
<1> QED
  BY <1>1, <1>3, <1>4, <1>5 DEF n

\* The addresses of the words of a file.
Reached(file, from) == {word_address(from, k) : k \in DOMAIN file}

\* The memory that main leaves: the ROM's file stands where it was loaded, the image
\* where the ROM's file does not reach, and nothing else is changed.
LEMMA BothLoaded ==
    ASSUME NEW mem \in Memory,
           NEW image \in Seq(Word), loadable(image, STACK_SIZE, Writable),
           NEW words \in Seq(Word), loadable(words, ROM_ADDRESS, Writable \union RomArea)
    PROVE  LET t == load_file(load_file(mem, image, STACK_SIZE), words, ROM_ADDRESS)
           IN  /\ \A k \in DOMAIN words :
                    \/ t[word_address(ROM_ADDRESS, k)] = words[k]
                    \/ \E j \in DOMAIN words :
                         j > k /\ word_address(ROM_ADDRESS, j) = word_address(ROM_ADDRESS, k)
               /\ \A k \in DOMAIN image :
                    \/ t[word_address(STACK_SIZE, k)] = image[k]
                    \/ word_address(STACK_SIZE, k) \in Reached(words, ROM_ADDRESS)
               /\ \A a \in Readable \ (Reached(words, ROM_ADDRESS) \union Reached(image, STACK_SIZE)) :
                    t[a] = mem[a]
<1> DEFINE n == Len(image)
           l == Len(words)
           t1 == load_file(mem, image, STACK_SIZE)
           t2 == load_file(t1, words, ROM_ADDRESS)
           p(k) == word_address(STACK_SIZE, k)
           q(k) == word_address(ROM_ADDRESS, k)
<1>0. n \in Nat /\ l \in Nat /\ DOMAIN image = 1 .. n /\ DOMAIN words = 1 .. l
  OBVIOUS
<1>1. /\ STACK_SIZE \in Nat /\ ROM_ADDRESS \in Nat /\ Writable \in SUBSET Readable
      /\ Writable \union RomArea \in SUBSET Readable
      /\ Modulus \in Nat /\ WORD_SIZE \in Nat /\ ROM_SIZE \in Nat
      /\ ROM_ADDRESS + ROM_SIZE = Modulus
  BY WordFacts, Layout
<1>2. /\ \A k \in 1 .. n : /\ p(k) \in Readable
                           /\ t1[p(k)] = image[k] \/ \E j \in 1 .. n : j > k /\ p(j) = p(k)
      /\ \A a \in Readable : (\A k \in 1 .. n : a # p(k)) => t1[a] = mem[a]
  <2>1. LET t == load_file(mem, image, STACK_SIZE)
        IN  /\ \A k \in 1 .. Len(image) :
                 /\ word_address(STACK_SIZE, k) \in Writable
                 /\ \/ t[word_address(STACK_SIZE, k)] = image[k]
                    \/ \E j \in 1 .. Len(image) :
                         j > k /\ word_address(STACK_SIZE, j) = word_address(STACK_SIZE, k)
            /\ \A a \in Readable :
                 (\A k \in 1 .. Len(image) : a # word_address(STACK_SIZE, k)) => t[a] = mem[a]
    BY <1>1, Loaded
  <2> QED
    BY <1>1, <2>1
<1>3. \A j, k \in 1 .. n : p(j) = p(k) => j = k
  <2>1. STACK_SIZE + n * WORD_SIZE <= ROM_ADDRESS
    BY ImageFits
  <2>2. n * WORD_SIZE \in Nat
    BY <1>0, <1>1
  <2>3. STACK_SIZE + n * WORD_SIZE <= Modulus
    BY <1>1, <2>1, <2>2
  <2> QED
    BY <1>0, <1>1, <2>3, Addresses
<1>4. \A k \in 1 .. n : t1[p(k)] = image[k]
  <2> TAKE k \in 1 .. n
  <2>1. \A j \in 1 .. n : ~ (j > k /\ p(j) = p(k))
    BY <1>0, <1>3
  <2> QED
    BY <1>2, <2>1
<1>5. t1 \in Memory
  BY LoadedType
<1> HIDE DEF t1
<1>6. /\ \A k \in 1 .. l : /\ q(k) \in Readable
                           /\ t2[q(k)] = words[k] \/ \E j \in 1 .. l : j > k /\ q(j) = q(k)
      /\ \A a \in Readable : (\A k \in 1 .. l : a # q(k)) => t2[a] = t1[a]
  <2> DEFINE W == Writable \union RomArea
  <2>1. W \in SUBSET Readable /\ loadable(words, ROM_ADDRESS, W)
    BY <1>1
  <2> HIDE DEF W
  <2>2. LET t == load_file(t1, words, ROM_ADDRESS)
        IN  /\ \A k \in 1 .. Len(words) :
                 /\ word_address(ROM_ADDRESS, k) \in W
                 /\ \/ t[word_address(ROM_ADDRESS, k)] = words[k]
                    \/ \E j \in 1 .. Len(words) :
                         j > k /\ word_address(ROM_ADDRESS, j) = word_address(ROM_ADDRESS, k)
            /\ \A a \in Readable :
                 (\A k \in 1 .. Len(words) : a # word_address(ROM_ADDRESS, k)) => t[a] = t1[a]
    BY <1>1, <1>5, <2>1, Loaded
  <2> QED
    BY <2>1, <2>2
<1> HIDE DEF t2, n, l, p, q
<1>7. \A a : /\ a \in Reached(words, ROM_ADDRESS) <=> \E k \in 1 .. l : a = q(k)
             /\ a \in Reached(image, STACK_SIZE) <=> \E k \in 1 .. n : a = p(k)
  BY <1>0 DEF Reached, p, q
<1>8. ASSUME NEW k \in 1 .. n, p(k) \notin Reached(words, ROM_ADDRESS)
      PROVE  t2[p(k)] = image[k]
  BY <1>2, <1>4, <1>6, <1>7, <1>8
<1>9. ASSUME NEW a \in Readable, a \notin Reached(words, ROM_ADDRESS),
             a \notin Reached(image, STACK_SIZE)
      PROVE  t2[a] = mem[a]
  BY <1>2, <1>6, <1>7, <1>9
<1> QED
  BY <1>0, <1>6, <1>8, <1>9 DEF t1, t2, p, q

\* Files that the bus takes do not touch each other, if the ROM's is no longer than it.
LEMMA FilesApart ==
    ASSUME NEW image \in Seq(Word), loadable(image, STACK_SIZE, Writable),
           NEW words \in Seq(Word), Len(words) * WORD_SIZE <= ROM_SIZE
    PROVE  /\ \A k \in DOMAIN words :
                /\ word_address(ROM_ADDRESS, k) = at(ROM_ADDRESS, k)
                /\ \A j \in DOMAIN words :
                     ~ (j > k /\ word_address(ROM_ADDRESS, j) = word_address(ROM_ADDRESS, k))
           /\ \A k \in DOMAIN image :
                /\ word_address(STACK_SIZE, k) = at(STACK_SIZE, k)
                /\ word_address(STACK_SIZE, k) \notin Reached(words, ROM_ADDRESS)
<1> DEFINE n == Len(image)
           l == Len(words)
<1>0. n \in Nat /\ l \in Nat /\ DOMAIN image = 1 .. n /\ DOMAIN words = 1 .. l
  OBVIOUS
<1>1. /\ STACK_SIZE \in Nat /\ ROM_ADDRESS \in Nat
      /\ Modulus \in Nat /\ WORD_SIZE \in Nat /\ ROM_SIZE \in Nat
      /\ ROM_ADDRESS + ROM_SIZE = Modulus
  BY WordFacts, Layout
<1>2. n * WORD_SIZE \in Nat /\ l * WORD_SIZE \in Nat /\ l * WORD_SIZE <= ROM_SIZE
  BY <1>0, <1>1
<1>3. STACK_SIZE + n * WORD_SIZE <= ROM_ADDRESS
  BY ImageFits
<1>4. STACK_SIZE + n * WORD_SIZE <= Modulus /\ ROM_ADDRESS + l * WORD_SIZE <= Modulus
  BY <1>1, <1>2, <1>3
<1> HIDE DEF n, l
<1>5. \A k \in 1 .. n : /\ at(STACK_SIZE, k) \in Nat
                        /\ at(STACK_SIZE, k) < STACK_SIZE + n * WORD_SIZE
                        /\ word_address(STACK_SIZE, k) = at(STACK_SIZE, k)
  BY <1>0, <1>1, <1>4, Addresses
<1>6. /\ \A k \in 1 .. l : /\ at(ROM_ADDRESS, k) \in Nat /\ ROM_ADDRESS <= at(ROM_ADDRESS, k)
                           /\ word_address(ROM_ADDRESS, k) = at(ROM_ADDRESS, k)
      /\ \A j, k \in 1 .. l : at(ROM_ADDRESS, j) = at(ROM_ADDRESS, k) => j = k
  BY <1>0, <1>1, <1>4, Addresses
<1>7. ASSUME NEW k \in 1 .. n PROVE word_address(STACK_SIZE, k) \notin Reached(words, ROM_ADDRESS)
  <2>1. at(STACK_SIZE, k) \in Nat /\ at(STACK_SIZE, k) < ROM_ADDRESS
    BY <1>1, <1>2, <1>3, <1>5
  <2>2. \A j \in 1 .. l : at(STACK_SIZE, k) # at(ROM_ADDRESS, j)
    BY <1>1, <1>6, <2>1
  <2> QED
    BY <1>0, <1>5, <1>6, <2>2 DEF Reached
<1>8. ASSUME NEW k \in 1 .. l, NEW j \in 1 .. l, j > k
      PROVE  word_address(ROM_ADDRESS, j) # word_address(ROM_ADDRESS, k)
  <2>1. j # k
    BY <1>0, <1>8
  <2> QED
    BY <1>6, <2>1
<1> QED
  BY <1>0, <1>5, <1>6, <1>7, <1>8

\* main hands the CPU's thread the machine the command line asks for, every word of its
\* memory that anything sets, whatever files it names, also a ROM's file that goes on over
\* the RAM, and whatever values it gives the registers, as long as no general register is
\* a special one: then --pc is lost to --register-values (main.c, opts.c).
THEOREM StartsAsAskedHolds ==
    ASSUME RegCount <= IDT
    PROVE  StartupSpec => []StartsAsAsked
<1>1. SessionInv => (phase # "running" => StartsAsAsked)
  BY DEF StartsAsAsked
<1>2. ASSUME SessionInv, NEW line \in CommandLines, Starts(line) PROVE StartsAsAsked'
  <2> DEFINE o == opts_parse(line)
             image == image_words(line)
             words == rom_words(line)
             t == load_file(load_file(m.mem, image, STACK_SIZE), words, ROM_ADDRESS)
             p(k) == word_address(STACK_SIZE, k)
             q(k) == word_address(ROM_ADDRESS, k)
             Over == {q(k) : k \in DOMAIN words}
             Under == {p(k) : k \in DOMAIN image}
  <2>1. /\ m'.mem = t /\ ~m'.ie
        /\ \A r \in Registers :
             m'.reg[r] = IF r \in 0 .. RegCount - 1 THEN o.values[r] % Modulus
                         ELSE IF r \in {PC, CS} THEN o.pc
                         ELSE IF r = IDT THEN IDT_ADDRESS ELSE m.reg[r]
    BY <1>2, StartsType DEF files_loaded
  <2>2. options' = o /\ image_words(o) = image /\ rom_words(o) = words
    BY <1>2, Parsed DEF Starts, image_words, rom_words
  <2>3. /\ image \in Seq(Word) /\ words \in Seq(Word)
        /\ loadable(image, STACK_SIZE, Writable)
        /\ loadable(words, ROM_ADDRESS, Writable \union RomArea)
    BY <1>2, Files DEF Starts
  <2>4. m.mem \in Memory /\ Fresh
    BY <1>2 DEF SessionInv, CpuInv, TypeOK, Machine, Memory, Starts
  <2> HIDE DEF o, image, words, t
  <2>5. /\ \A k \in DOMAIN words :
             t[q(k)] = words[k] \/ \E j \in DOMAIN words : j > k /\ q(j) = q(k)
        /\ \A k \in DOMAIN image : t[p(k)] = image[k] \/ p(k) \in Over
        /\ \A a \in Readable \ (Over \union Under) : t[a] = m.mem[a]
    BY <2>3, <2>4, BothLoaded DEF Reached, t
  <2>6. Len(words) * WORD_SIZE <= ROM_SIZE =>
          /\ \A k \in DOMAIN words : /\ q(k) = ROM_ADDRESS + (k - 1) * WORD_SIZE
                                     /\ \A j \in DOMAIN words : ~ (j > k /\ q(j) = q(k))
          /\ \A k \in DOMAIN image : /\ p(k) = STACK_SIZE + (k - 1) * WORD_SIZE
                                     /\ p(k) \notin Over
    BY <2>3, FilesApart DEF Reached, at
  <2> HIDE DEF p, q, Over, Under
  <2>7. /\ m'.reg[PC] = o.pc /\ m'.reg[CS] = o.pc
        /\ m'.reg[SP] = STACK_SIZE /\ m'.reg[BP] = STACK_SIZE
        /\ m'.reg[IDT] = IDT_ADDRESS
        /\ \A r \in 0 .. RegCount - 1 : m'.reg[r] = o.values[r] % Modulus
    <3>1. /\ Special \subseteq Registers /\ 0 .. RegCount - 1 \subseteq Registers
          /\ \A r \in Special : r \notin 0 .. RegCount - 1
      BY CpuAssumption DEF Registers, Special, IDT, IR, SP, BP, PC, CS
    <3> QED
      BY <2>1, <2>4, <3>1 DEF Fresh, Special, IDT, IR, SP, BP, PC, CS
  <2>8. Len(words) * WORD_SIZE <= ROM_SIZE =>
          /\ \A k \in DOMAIN image : t[STACK_SIZE + (k - 1) * WORD_SIZE] = image[k]
          /\ \A k \in DOMAIN words : t[ROM_ADDRESS + (k - 1) * WORD_SIZE] = words[k]
    BY <2>5, <2>6
  <2>9. \A a \in Readable \ (Over \union Under \union Unset) : t[a] = Original(a)
    BY <2>4, <2>5 DEF Fresh
  <2>10. /\ m'.mem = t /\ ~m'.ie /\ image_words(options') = image /\ rom_words(options') = words
         /\ options'.pc = o.pc /\ options'.values = o.values
    BY <2>1, <2>2
  <2>11. /\ \A k \in DOMAIN words :
              \/ m'.mem[word_address(ROM_ADDRESS, k)] = words[k]
              \/ \E j \in DOMAIN words :
                   j > k /\ word_address(ROM_ADDRESS, j) = word_address(ROM_ADDRESS, k)
         /\ \A k \in DOMAIN image :
              \/ m'.mem[word_address(STACK_SIZE, k)] = image[k]
              \/ word_address(STACK_SIZE, k) \in {word_address(ROM_ADDRESS, i) : i \in DOMAIN words}
    BY <2>1, <2>5 DEF p, q, Over
  <2>12. \A a \in Readable \ ({word_address(ROM_ADDRESS, k) : k \in DOMAIN words}
                              \union {word_address(STACK_SIZE, k) : k \in DOMAIN image}
                              \union Unset) : m'.mem[a] = Original(a)
    BY <2>1, <2>9 DEF p, q, Over, Under
  <2> QED
    BY <2>7, <2>8, <2>10, <2>11, <2>12 DEF StartsAsAsked, Original
<1>3. ASSUME SessionInv, StartsAsAsked, phase = "running", Running,
             UNCHANGED <<phase, options>>
      PROVE  StartsAsAsked'
  <2> SUFFICES ASSUME thread' = "idle" PROVE StartsAsAsked'
    BY DEF StartsAsAsked
  <2>1. thread = "idle" /\ m'.reg = m.reg /\ m'.mem = m.mem /\ m'.ie = m.ie
    BY <1>3, RunningIdle DEF SessionInv, CpuInv, TypeOK
  <2> QED
    BY <1>3, <2>1 DEF StartsAsAsked, image_words, rom_words
<1>4. ASSUME NEW line \in CommandLines, Helps(line) \/ Fails(line) \/ main_ends
      PROVE  StartsAsAsked'
  BY <1>4 DEF Helps, Fails, main_ends, StartsAsAsked
<1>5. ASSUME StartsAsAsked, UNCHANGED startupVars PROVE StartsAsAsked'
  BY <1>5 DEF startupVars, StartsAsAsked, image_words, rom_words
<1>6. SessionInv /\ StartsAsAsked /\ [StartupNext]_startupVars => StartsAsAsked'
  <2>1. main_ends => StartsAsAsked'
    BY DEF main_ends, StartsAsAsked
  <2> QED
    BY <1>2, <1>3, <1>4, <1>5, <2>1 DEF StartupNext
<1>7. StartupInit => StartsAsAsked
  BY DEF StartupInit, StartsAsAsked
<1> QED
  BY <1>6, <1>7, SessionInvariant, PTL DEF StartupSpec

(***************************************************************************)
(* The dispatcher.                                                         *)
(***************************************************************************)
\* The words of the dispatcher stand next to each other, each at an address of its own.
LEMMA RomPlaces ==
    /\ \A k \in 0 .. 14 : rom_at(k) \in Word
    /\ \A k \in 0 .. 13 : /\ rom_at(k) \in Readable /\ rom_at(k) \notin Writable
                          /\ (rom_at(k) + WORD_SIZE) % Modulus = rom_at(k + 1)
    /\ \A j, k \in 0 .. 14 : rom_at(j) = rom_at(k) => j = k
<1>1. WORD_SIZE \in Nat \ {0} /\ ROM_ADDRESS \in Nat
  BY WordFacts
<1>2. \A k \in 0 .. 13 : rom_at(k) \in Readable \ Writable /\ rom_at(k) \in Word
  BY DispatchAssumption, CpuAssumption
<1>3. \A k \in 0 .. 14 : rom_at(k) \in Word
  <2>1. rom_at(14) \in Word
    BY DispatchAssumption
  <2>2. \A k \in 0 .. 14 : k \in 0 .. 13 \/ k = 14
    OBVIOUS
  <2> QED
    BY <1>2, <2>1, <2>2
<1>4. ASSUME NEW k \in 0 .. 13 PROVE (rom_at(k) + WORD_SIZE) % Modulus = rom_at(k + 1)
  <2>1. (k + 1) * WORD_SIZE = k * WORD_SIZE + WORD_SIZE /\ k * WORD_SIZE \in Int
    BY <1>1
  <2>2. rom_at(k) + WORD_SIZE = rom_at(k + 1)
    BY <1>1, <2>1 DEF rom_at
  <2>3. k + 1 \in 0 .. 14
    OBVIOUS
  <2> QED
    BY <1>3, <2>2, <2>3, WordFacts
<1>5. ASSUME NEW j \in 0 .. 14, NEW k \in 0 .. 14, j < k PROVE rom_at(j) # rom_at(k)
  <2>1. j * WORD_SIZE <= (k - 1) * WORD_SIZE
    BY <1>5, Scale
  <2>2. (k - 1) * WORD_SIZE = k * WORD_SIZE - WORD_SIZE /\ j * WORD_SIZE \in Int
        /\ k * WORD_SIZE \in Int
    BY <1>1
  <2> QED
    BY <1>1, <2>1, <2>2 DEF rom_at
<1>6. \A j, k \in 0 .. 14 : rom_at(j) = rom_at(k) => j = k
  <2> SUFFICES ASSUME NEW j \in 0 .. 14, NEW k \in 0 .. 14, rom_at(j) = rom_at(k), j # k
               PROVE  FALSE
    OBVIOUS
  <2>1. j < k \/ k < j
    OBVIOUS
  <2> QED
    BY <1>5, <2>1
<1> QED
  BY <1>2, <1>3, <1>4, <1>6

\* The word of an instruction encodes it alone.
LEMMA Encodes ==
    ASSUME NEW op, NEW form, NEW r,
           instruction(op, form, r) \in {Encoded[w] : w \in DOMAIN Encoded}
    PROVE  Code[word(op, form, r)] = {instruction(op, form, r)}
<1> DEFINE w == word(op, form, r)
<1>1. w \in DOMAIN Encoded /\ Encoded[w] = instruction(op, form, r)
  <2>1. \E k \in DOMAIN Encoded : Encoded[k] = instruction(op, form, r)
    OBVIOUS
  <2> QED
    BY <2>1, Zenon DEF word
<1> HIDE DEF w
<1>2. w \in Word /\ w # 0
  BY <1>1, DispatchAssumption
<1>3. Code[w] = {Encoded[w]}
  BY <1>1, <1>2, DispatchAssumption DEF EncodedCode
<1> QED
  BY <1>1, <1>3 DEF w

\* What the dispatcher executes on its way to the handler.
LEMMA RomCode ==
    /\ Code[rom[3]] = {instruction("PUSH", "R", <<0>>)}
    /\ Code[rom[4]] = {instruction("CALL", "A", <<>>)}
    /\ Code[rom[6]] = {instruction("CALL", "R", <<0>>)}
    /\ Code[rom[9]] = {instruction("MOV", "RR", <<0, IR>>)}
    /\ Code[rom[10]] = {instruction("MUL", "RW", <<0>>)}
    /\ Code[rom[12]] = {instruction("ADD", "RR", <<0, IDT>>)}
    /\ Code[rom[13]] = {instruction("LOAD", "RR", <<0, 0>>)}
    /\ Code[rom[14]] = {instruction("RET", "", <<>>)}
    /\ DOMAIN rom = 1 .. 14 /\ rom[5] = rom_at(8) /\ rom[11] = WORD_SIZE
<1>1. /\ rom[3] = word("PUSH", "R", <<0>>) /\ rom[4] = word("CALL", "A", <<>>)
      /\ rom[6] = word("CALL", "R", <<0>>) /\ rom[9] = word("MOV", "RR", <<0, IR>>)
      /\ rom[10] = word("MUL", "RW", <<0>>) /\ rom[12] = word("ADD", "RR", <<0, IDT>>)
      /\ rom[13] = word("LOAD", "RR", <<0, 0>>) /\ rom[14] = word("RET", "", <<>>)
      /\ rom[5] = compute_interrupt_handler_address /\ rom[11] = WORD_SIZE
      /\ DOMAIN rom = 1 .. 14
  BY DEF rom
<1>2. /\ Code[word("PUSH", "R", <<0>>)] = {instruction("PUSH", "R", <<0>>)}
      /\ Code[word("CALL", "A", <<>>)] = {instruction("CALL", "A", <<>>)}
      /\ Code[word("CALL", "R", <<0>>)] = {instruction("CALL", "R", <<0>>)}
      /\ Code[word("MOV", "RR", <<0, IR>>)] = {instruction("MOV", "RR", <<0, IR>>)}
      /\ Code[word("MUL", "RW", <<0>>)] = {instruction("MUL", "RW", <<0>>)}
      /\ Code[word("ADD", "RR", <<0, IDT>>)] = {instruction("ADD", "RR", <<0, IDT>>)}
      /\ Code[word("LOAD", "RR", <<0, 0>>)] = {instruction("LOAD", "RR", <<0, 0>>)}
      /\ Code[word("RET", "", <<>>)] = {instruction("RET", "", <<>>)}
  BY DispatchAssumption, Encodes, Zenon
<1> QED
  BY <1>1, <1>2 DEF compute_interrupt_handler_address

\* An access that is granted does what it says and no more.
LEMMA RegistersGot ==
    ASSUME NEW s \in Decoded, s.panic = "OK", NEW R \in SUBSET Registers
    PROVE  cpu_register_get(s, R) = s
BY UnpanickedType DEF cpu_register_get

LEMMA RegisterSet ==
    ASSUME NEW s \in Decoded, NEW r \in Registers, NEW v \in Word
    PROVE  LET t == cpu_register_set(s, r, v)
           IN  t.reg = [s.reg EXCEPT ![r] = v] /\ t.mem = s.mem /\ t.ie = s.ie
<1> DEFINE u == [s EXCEPT !.reg[r] = v, !.panic = "OK"]
<1>1. u.reg = [s.reg EXCEPT ![r] = v] /\ u.mem = s.mem /\ u.ie = s.ie
  BY DEF Decoded
<1>2. cpu_register_set(s, r, v) = cpu_flags_update(u, v)
  BY DEF cpu_register_set
<1>3. u = [s EXCEPT !.reg = [s.reg EXCEPT ![r] = v], !.panic = "OK"]
  OBVIOUS
<1>4. "z" \in DOMAIN u /\ "n" \in DOMAIN u
  BY <1>3 DEF Decoded
<1>5. DOMAIN u = DOMAIN s
  BY <1>3
<1> HIDE DEF u
<1>6. ASSUME NEW zero, NEW negative
      PROVE  LET t == [u EXCEPT !.z = zero, !.n = negative]
             IN  t.reg = u.reg /\ t.mem = u.mem /\ t.ie = u.ie
  BY <1>5 DEF Decoded
<1>7. LET t == cpu_flags_update(u, v) IN t.reg = u.reg /\ t.mem = u.mem /\ t.ie = u.ie
  BY <1>6, Zenon DEF cpu_flags_update
<1> QED
  BY <1>1, <1>2, <1>7

LEMMA Jumped ==
    ASSUME NEW s \in Decoded, NEW a \in Word
    PROVE  LET t == jump(s, a)
           IN  /\ t.reg = [s.reg EXCEPT ![PC] = a] /\ t.mem = s.mem /\ t.ie = s.ie
               /\ t.panic = s.panic /\ t \in Decoded
<1>1. a \in Int /\ a % Modulus = a
  BY WordFacts, WordInt
<1>2. jump(s, a).ie = s.ie
  BY DEF jump, Decoded
<1> QED
  BY <1>1, <1>2, JumpType

LEMMA Pushed ==
    ASSUME NEW s \in Decoded, NEW v \in Word, push(s, v).panic = "OK"
    PROVE  LET a == (s.reg[SP] - WORD_SIZE) % Modulus
               t == push(s, v)
           IN  /\ t \in Decoded /\ a \in Writable /\ a \in Readable
               /\ a + WORD_SIZE = s.reg[SP]
               /\ t.reg = [s.reg EXCEPT ![SP] = a] /\ t.mem = [s.mem EXCEPT ![a] = v]
               /\ t.ie = s.ie
<1> DEFINE a == (s.reg[SP] - WORD_SIZE) % Modulus
<1>1. /\ push(s, v) \in Decoded /\ a \in Writable
      /\ push(s, v) = [s EXCEPT !.reg[SP] = a, !.mem[a] = v]
  BY PushType
<1>2. a \in Readable /\ a + WORD_SIZE \in Word
  BY <1>1, CpuAssumption, DispatchAssumption
<1>4. a + WORD_SIZE = s.reg[SP]
  <2>1. s.reg[SP] \in Word /\ WORD_SIZE \in Int
    BY MachineFields, WordInt
  <2>2. (a + WORD_SIZE) % Modulus = s.reg[SP]
    BY <2>1, DownAndUp
  <2> HIDE DEF a
  <2> QED
    BY <1>2, <2>2, WordFacts
<1> HIDE DEF a
<1>3. /\ push(s, v).reg = [s.reg EXCEPT ![SP] = a] /\ push(s, v).mem = [s.mem EXCEPT ![a] = v]
      /\ push(s, v).ie = s.ie
  BY <1>1 DEF Decoded
<1> QED
  BY <1>1, <1>2, <1>3, <1>4 DEF a

LEMMA Fetched ==
    ASSUME NEW s \in Decoded, s.panic = "OK", NEW k \in 0 .. 13, s.reg[PC] = rom_at(k)
    PROVE  LET t == cpu_fetch(s)
           IN  /\ t \in Decoded /\ t.panic = "OK" /\ t.reg = [s.reg EXCEPT ![PC] = rom_at(k + 1)]
               /\ t.mem = s.mem /\ t.ie = s.ie /\ fetched(s) = s.mem[rom_at(k)]
<1>1. rom_at(k) \in Readable /\ (rom_at(k) + WORD_SIZE) % Modulus = rom_at(k + 1)
  BY RomPlaces
<1>2. cpu_fetch(s) = [s EXCEPT !.reg[PC] = (@ + WORD_SIZE) % Modulus]
  BY <1>1 DEF cpu_fetch, load, Then
<1>3. (s.reg[PC] + WORD_SIZE) % Modulus = rom_at(k + 1)
  BY <1>1
<1>4. cpu_fetch(s) = [s EXCEPT !.reg[PC] = rom_at(k + 1)]
  BY <1>2, <1>3
<1>5. cpu_fetch(s).ie = s.ie
  BY <1>4 DEF Decoded
<1>6. k + 1 \in 0 .. 14 /\ PC \in Registers
  BY WordFacts
<1>7. rom_at(k + 1) \in Word
  BY <1>6, RomPlaces
<1> QED
  BY <1>4, <1>5, <1>6, <1>7, RegisterType DEF fetched

\* A machine on its way to the handler of line, with what it knows at the k-th word.
Served(s, line, k) ==
    /\ ~s.ie /\ s.reg[IR] = line
    /\ k \in {8, 9, 11, 12, 13} => s.reg[SP] \in Readable /\ s.mem[s.reg[SP]] = rom_at(5)
    /\ k = 9 => s.reg[0] = line
    /\ k = 11 => s.reg[0] = (line * WORD_SIZE) % Modulus
    /\ k = 12 => s.reg[0] = entry(line)
    /\ k \in {13, 5} => s.reg[0] = s.mem[entry(line)]

\* What of the program f interrupted stands in the machine meanwhile: its registers but r0,
\* its stack, and on top of it its program counter and then its r0.
Spared(s, f, k) ==
    LET pc == f.reg[SP] - WORD_SIZE
        r0 == pc - WORD_SIZE
    IN  /\ f.reg \in [Registers -> Word]
        /\ \A a \in DOMAIN f.stack : a \in Readable /\ a >= f.reg[SP] /\ s.mem[a] = f.stack[a]
        /\ \A r \in Registers \ {0, SP, PC} : s.reg[r] = f.reg[r]
        /\ pc \in Readable /\ s.mem[pc] = f.reg[PC]
        /\ k = 2 => s.reg[SP] = pc /\ s.reg[0] = f.reg[0]
        /\ k # 2 => r0 \in Readable /\ s.mem[r0] = f.reg[0]
        /\ k \in {3, 5} => s.reg[SP] = r0
        /\ k \in {8, 9, 11, 12, 13} => s.reg[SP] = r0 - WORD_SIZE

\* What the k-th word does to that.
Grows(s, t, k) ==
    /\ \A r \in Registers \ {0, SP, PC} : t.reg[r] = s.reg[r]
    /\ \A a \in Readable : a >= s.reg[SP] => t.mem[a] = s.mem[a]
    /\ k \in {2, 3, 5} => t.reg[SP] \in Readable /\ t.reg[SP] + WORD_SIZE = s.reg[SP]
    /\ k = 2 => t.mem[t.reg[SP]] = s.reg[0]
    /\ k = 5 => t.mem[t.reg[SP]] = rom_at(6) /\ t.ie = s.ie
    /\ k \in {8, 9, 11, 12} => t.reg[SP] = s.reg[SP]
    /\ k = 13 => t.reg[SP] = (s.reg[SP] + WORD_SIZE) % Modulus

\* The machine that has fetched the k-th word, and the one that comes to it.
Fetching(s, k) ==
    /\ s \in Decoded /\ s.panic = "OK" /\ s.reg[PC] = rom_at(k + 1)
    /\ s.reg[IDT] = IDT_ADDRESS /\ \A j \in 1 .. 14 : s.mem[rom_at(j - 1)] = rom[j]

Arrived(t, line, k) == t.reg[PC] = rom_at(k) /\ Served(t, line, k)

LEMMA RegistersApart ==
    /\ {0, IDT, IR, SP, PC} \subseteq Registers
    /\ 0 \notin {IDT, IR, SP, PC} /\ IDT \notin {IR, SP, PC} /\ IR \notin {SP, PC} /\ SP # PC
<1>1. 0 \in Registers
  BY CpuAssumption DEF Registers
<1> QED
  BY <1>1, WordFacts DEF IDT, IR, SP, PC

LEMMA FetchingFacts ==
    ASSUME NEW k \in Serving, NEW s, Fetching(s, k)
    PROVE  /\ s.reg \in [Registers -> Word] /\ s.mem \in [Readable -> Word]
           /\ k + 1 \in 0 .. 14 /\ rom_at(k + 1) \in Word
BY MachineFields, RomPlaces DEF Fetching, Serving

\* The printer reads the ROM, where there is an immediate to read.
LEMMA Untraced ==
    ASSUME NEW s, NEW i, s.reg[PC] \in Readable \/ ~ printed_operand(i)
    PROVE  op_call_traced(s, i) = ops(s, i)
BY DEF op_call_traced, cpu_instruction_to_string, load

\* A word pushed goes under what stands on the stack, a register set changes no other.
LEMMA GrowsPushed ==
    ASSUME NEW s \in Decoded, NEW v \in Word, push(s, v).panic = "OK"
    PROVE  LET t == push(s, v)
           IN  /\ \A r \in Registers \ {SP} : t.reg[r] = s.reg[r]
               /\ \A a \in Readable : a >= s.reg[SP] => t.mem[a] = s.mem[a]
               /\ t.reg[SP] \in Readable /\ t.reg[SP] + WORD_SIZE = s.reg[SP]
               /\ t.mem[t.reg[SP]] = v
<1> DEFINE t == push(s, v)
           a == (s.reg[SP] - WORD_SIZE) % Modulus
<1>1. /\ a \in Readable /\ a + WORD_SIZE = s.reg[SP]
      /\ t.reg = [s.reg EXCEPT ![SP] = a] /\ t.mem = [s.mem EXCEPT ![a] = v]
  BY Pushed
<1>2. s.reg \in [Registers -> Word] /\ s.mem \in [Readable -> Word] /\ SP \in Registers
  BY MachineFields, RegistersApart
<1> HIDE DEF t, a
<1>3. \A b \in Readable : b >= s.reg[SP] => b # a
  <2>1. WORD_SIZE \in Nat \ {0} /\ a \in Int
    BY <1>1, WordFacts, WordInt, CpuAssumption
  <2> QED
    BY <1>1, <2>1
<1> QED
  BY <1>1, <1>2, <1>3 DEF t

LEMMA GrowsSet ==
    ASSUME NEW s, NEW t, NEW k \in {8, 9, 11, 12}, t.mem = s.mem,
           \A r \in Registers \ {0, PC} : t.reg[r] = s.reg[r]
    PROVE  Grows(s, t, k)
BY RegistersApart DEF Grows

LEMMA ServesPush ==
    ASSUME NEW line \in Lines, NEW s, Fetching(s, 2), Served(s, line, 2),
           NEW i \in Code[rom[3]], op_call_traced(s, i).panic = "OK"
    PROVE  Arrived(op_call_traced(s, i), line, 3) /\ Grows(s, op_call_traced(s, i), 2)
<1> DEFINE rs == <<0>>
           t == op_call_traced(s, i)
           v == s.reg[0]
<1>1. i = instruction("PUSH", "R", rs)
  BY RomCode
<1> HIDE DEF rs
<1>2. i.op = "PUSH" /\ i.form = "R" /\ i.r = rs
  BY <1>1 DEF instruction
<1>3. t = ops(s, i)
  BY <1>2, Untraced DEF printed_operand
<1>4. ops(s, i) = op_push(s, rs)
  BY <1>2 DEF ops, Arithmetic
<1>5. s \in Decoded /\ s.panic = "OK"
  BY DEF Fetching
<1>6. DOMAIN rs = 1 .. 1 /\ rs[1] = 0
  BY DEF rs
<1>7. PICK h : PushRun(h, s, rs, 1)
  BY <1>5, <1>6, PushTrace
<1>8. op_push(s, rs) = push_register(s, 0)
  BY <1>6, <1>7 DEF PushRun
<1>9. cpu_register_get(s, {0}) = s
  BY <1>5, RegistersGot, RegistersApart
<1>10. t = push(s, v)
  BY <1>3, <1>4, <1>5, <1>8, <1>9 DEF push_register, Then
<1>11. 2 \in Serving /\ push(s, v).panic = "OK"
  BY <1>10 DEF Serving
<1>12. s.reg \in [Registers -> Word] /\ v \in Word
  BY <1>11, FetchingFacts, RegistersApart
<1> HIDE DEF t, v
<1>13. /\ t.reg = [s.reg EXCEPT ![SP] = (s.reg[SP] - WORD_SIZE) % Modulus] /\ t.ie = s.ie
  BY <1>5, <1>10, <1>11, <1>12, Pushed
<1>14. t.reg[PC] = s.reg[PC] /\ t.reg[IR] = s.reg[IR]
  BY <1>12, <1>13, RegistersApart
<1>15. t.reg[PC] = rom_at(3) /\ ~t.ie /\ t.reg[IR] = line
  BY <1>13, <1>14 DEF Fetching, Served
<1>16. Grows(s, t, 2)
  BY <1>5, <1>10, <1>11, <1>12, GrowsPushed DEF Grows, v
<1> QED
  BY <1>15, <1>16 DEF Arrived, Served, t

LEMMA ServesCall ==
    ASSUME NEW line \in Lines, NEW s, Fetching(s, 3), Served(s, line, 3),
           NEW i \in Code[rom[4]], op_call_traced(s, i).panic = "OK"
    PROVE  Arrived(op_call_traced(s, i), line, 8) /\ Grows(s, op_call_traced(s, i), 3)
<1> DEFINE t == op_call_traced(s, i)
           f == cpu_fetch(s)
           p == push(f, f.reg[PC])
           a == (f.reg[SP] - WORD_SIZE) % Modulus
<1>i. i = instruction("CALL", "A", <<>>)
  BY RomCode
<1>1. i.op = "CALL" /\ i.form = "A"
  BY <1>i DEF instruction
<1>2. s \in Decoded /\ s.panic = "OK" /\ s.reg[PC] = rom_at(4) /\ s.mem[rom_at(4)] = rom_at(8)
  <2>1. 5 \in 1 .. 14 /\ 5 - 1 = 4 /\ 3 + 1 = 4
    OBVIOUS
  <2>2. s.mem[rom_at(5 - 1)] = rom[5]
    BY <2>1 DEF Fetching
  <2> QED
    BY <2>1, <2>2, RomCode DEF Fetching
<1>3. rom_at(4) \in Readable /\ rom_at(8) \in Word /\ rom_at(5) \in Word
  BY RomPlaces
<1>c. op_call(s, "A") = Then(f, call(f, base(s, "A") + fetched(s)))
  BY DEF op_call
<1>4. t = op_call(s, "A")
  BY <1>1, <1>2, <1>3, Untraced DEF ops, Arithmetic
<1>5. /\ f \in Decoded /\ f.panic = "OK" /\ f.reg = [s.reg EXCEPT ![PC] = rom_at(5)]
      /\ f.mem = s.mem /\ f.ie = s.ie /\ fetched(s) = rom_at(8)
  <2>1. 4 \in 0 .. 13 /\ 4 + 1 = 5
    OBVIOUS
  <2> QED
    BY <1>2, <2>1, Fetched
<1> HIDE DEF f
<1>6. base(s, "A") + fetched(s) = rom_at(8)
  <2>1. 0 + rom_at(8) = rom_at(8)
    BY <1>3, WordInt
  <2> QED
    BY <1>5, <2>1 DEF base
<1>7. t = Then(p, jump(p, rom_at(8)))
  <2>2. op_call(s, "A") = call(f, rom_at(8))
    BY <1>c, <1>5, <1>6 DEF Then
  <2> QED
    BY <1>4, <2>2 DEF call
<1>8. s.reg \in [Registers -> Word] /\ f.reg \in [Registers -> Word] /\ s.mem \in [Readable -> Word]
  BY <1>2, <1>5, MachineFields
<1>9. f.reg[PC] = rom_at(5) /\ f.reg[IR] = line /\ ~f.ie
  BY <1>5, <1>8, RegistersApart DEF Served
<1>10. p.panic = "OK" /\ t = jump(p, rom_at(8))
  <2> HIDE DEF p
  <2> QED
    BY <1>7 DEF Then
<1>11. /\ p \in Decoded /\ a \in Readable /\ p.reg = [f.reg EXCEPT ![SP] = a]
       /\ p.mem = [f.mem EXCEPT ![a] = rom_at(5)] /\ p.ie = f.ie
  <2> DEFINE v == f.reg[PC]
  <2>1. v \in Word /\ v = rom_at(5) /\ p = push(f, v)
    BY <1>3, <1>9
  <2> HIDE DEF v
  <2>2. push(f, v).panic = "OK"
    BY <1>10, <2>1
  <2> HIDE DEF p
  <2> QED
    BY <1>5, <2>1, <2>2, Pushed
<1>12. a \in Word
  BY <1>11, CpuAssumption
<1>g. /\ \A r \in Registers \ {SP} : p.reg[r] = f.reg[r]
      /\ \A b \in Readable : b >= f.reg[SP] => p.mem[b] = f.mem[b]
      /\ p.reg[SP] \in Readable /\ p.reg[SP] + WORD_SIZE = f.reg[SP]
  <2> DEFINE v == f.reg[PC]
  <2>1. v \in Word /\ p = push(f, v)
    BY <1>3, <1>9
  <2> HIDE DEF v
  <2>2. push(f, v).panic = "OK"
    BY <1>10, <2>1
  <2> HIDE DEF p
  <2>3. LET q == push(f, v)
        IN  /\ \A r \in Registers \ {SP} : q.reg[r] = f.reg[r]
            /\ \A b \in Readable : b >= f.reg[SP] => q.mem[b] = f.mem[b]
            /\ q.reg[SP] \in Readable /\ q.reg[SP] + WORD_SIZE = f.reg[SP]
    BY <1>5, <2>1, <2>2, GrowsPushed
  <2> QED
    BY <2>1, <2>3
<1> HIDE DEF t, p, a
<1>13. /\ t.reg = [p.reg EXCEPT ![PC] = rom_at(8)] /\ t.mem = p.mem /\ t.ie = p.ie
  BY <1>3, <1>10, <1>11, Jumped
<1>14. t.reg[PC] = rom_at(8) /\ t.reg[SP] = a /\ t.reg[IR] = line /\ ~t.ie
  BY <1>8, <1>9, <1>11, <1>13, RegistersApart
<1>15. t.mem[a] = rom_at(5)
  BY <1>5, <1>8, <1>11, <1>13
<1>16. Grows(s, t, 3)
  <2>1. \A r \in Registers \ {PC} : f.reg[r] = s.reg[r] /\ t.reg[r] = p.reg[r]
    BY <1>5, <1>8, <1>11, <1>13
  <2> QED
    BY <1>5, <1>13, <1>g, <2>1, RegistersApart DEF Grows
<1> QED
  BY <1>11, <1>14, <1>15, <1>16 DEF Arrived, Served, t

LEMMA ServesMove ==
    ASSUME NEW line \in Lines, NEW s, Fetching(s, 8), Served(s, line, 8),
           NEW i \in Code[rom[9]], op_call_traced(s, i).panic = "OK"
    PROVE  Arrived(op_call_traced(s, i), line, 9) /\ Grows(s, op_call_traced(s, i), 8)
<1> DEFINE rs == <<0, IR>>
           t == op_call_traced(s, i)
<1>1. i = instruction("MOV", "RR", rs) /\ rs[1] = 0 /\ rs[2] = IR
  BY RomCode
<1> HIDE DEF rs
<1>2. i.op = "MOV" /\ i.form = "RR" /\ i.r = rs
  BY <1>1 DEF instruction
<1>3. t = op_mov_rr(s, rs)
  BY <1>2, Untraced DEF printed_operand, ops, Arithmetic
<1>4. s \in Decoded /\ s.panic = "OK" /\ s.reg[IR] = line /\ line \in Word
  BY CpuAssumption DEF Fetching, Served
<1>5. cpu_register_get(s, {IR}) = s
  BY <1>4, RegistersGot, RegistersApart
<1>6. t = cpu_register_set(s, 0, line)
  BY <1>1, <1>3, <1>4, <1>5 DEF op_mov_rr, Then
<1> HIDE DEF t
<1>7. t.reg = [s.reg EXCEPT ![0] = line] /\ t.mem = s.mem /\ t.ie = s.ie
  BY <1>4, <1>6, RegisterSet, RegistersApart
<1>8. s.reg \in [Registers -> Word]
  BY <1>4, MachineFields
<1>9. /\ t.reg[0] = line /\ t.reg[IR] = line /\ t.reg[SP] = s.reg[SP] /\ t.reg[PC] = s.reg[PC]
  BY <1>4, <1>7, <1>8, RegistersApart
<1>10. Grows(s, t, 8)
  BY <1>7, <1>8, GrowsSet
<1> QED
  BY <1>7, <1>9, <1>10 DEF Arrived, Served, Fetching, t

LEMMA ServesMultiply ==
    ASSUME NEW line \in Lines, NEW s, Fetching(s, 9), Served(s, line, 9),
           NEW i \in Code[rom[10]], op_call_traced(s, i).panic = "OK"
    PROVE  Arrived(op_call_traced(s, i), line, 11) /\ Grows(s, op_call_traced(s, i), 9)
<1> DEFINE rs == <<0>>
           t == op_call_traced(s, i)
           f == cpu_fetch(s)
           v == (line * WORD_SIZE) % Modulus
<1>1. i = instruction("MUL", "RW", rs) /\ rs[1] = 0
  BY RomCode
<1> HIDE DEF rs
<1>2. i.op = "MUL" /\ i.form = "RW" /\ i.r = rs
  BY <1>1 DEF instruction
<1>3. s \in Decoded /\ s.panic = "OK" /\ s.reg[PC] = rom_at(10) /\ s.mem[rom_at(10)] = WORD_SIZE
  <2>1. 11 \in 1 .. 14 /\ 11 - 1 = 10 /\ 9 + 1 = 10
    OBVIOUS
  <2>2. s.mem[rom_at(11 - 1)] = rom[11]
    BY <2>1 DEF Fetching
  <2> QED
    BY <2>1, <2>2, RomCode DEF Fetching
<1>4. rom_at(10) \in Readable
  BY RomPlaces
<1>5. t = op_alu_rw(s, "MUL", rs)
  <2>1. t = ops(s, i)
    BY <1>3, <1>4, Untraced
  <2> QED
    BY <1>2, <2>1 DEF ops, Arithmetic
<1>6. /\ f \in Decoded /\ f.panic = "OK" /\ f.reg = [s.reg EXCEPT ![PC] = rom_at(11)]
      /\ f.mem = s.mem /\ f.ie = s.ie /\ fetched(s) = WORD_SIZE
  <2>1. 10 \in 0 .. 13 /\ 10 + 1 = 11
    OBVIOUS
  <2> QED
    BY <1>3, <2>1, Fetched
<1> HIDE DEF f
<1>7. cpu_register_get(f, {0}) = f
  BY <1>6, RegistersGot, RegistersApart
<1>8. s.reg \in [Registers -> Word] /\ f.reg \in [Registers -> Word] /\ rom_at(11) \in Word
  <2>1. s.reg \in [Registers -> Word] /\ f.reg \in [Registers -> Word]
    BY <1>3, <1>6, MachineFields
  <2> QED
    BY <2>1, RomPlaces
<1>9. f.reg[0] = line /\ f.reg[IR] = line /\ f.reg[SP] = s.reg[SP] /\ f.reg[PC] = rom_at(11)
  BY <1>6, <1>8, RegistersApart DEF Served
<1>10. alu("MUL", line, WORD_SIZE) = v
  BY DEF alu
<1>11. line * WORD_SIZE \in Int
  BY WordInt, CpuAssumption
<1>12. v \in Word
  BY <1>11, WordFacts
<1>13. t = cpu_register_set(f, 0, v)
  BY <1>1, <1>5, <1>6, <1>7, <1>9, <1>10 DEF op_alu_rw, Then, f
<1> HIDE DEF t, v
<1>14. t.reg = [f.reg EXCEPT ![0] = v] /\ t.mem = f.mem /\ t.ie = f.ie
  BY <1>6, <1>12, <1>13, RegisterSet, RegistersApart
<1>15. t.reg[0] = v /\ t.reg[IR] = line /\ t.reg[SP] = s.reg[SP] /\ t.reg[PC] = rom_at(11)
  BY <1>8, <1>9, <1>14, RegistersApart
<1>16. Grows(s, t, 9)
  <2>1. \A r \in Registers \ {0, PC} : t.reg[r] = s.reg[r]
    BY <1>6, <1>8, <1>14
  <2> QED
    BY <1>6, <1>14, <2>1, GrowsSet
<1> QED
  BY <1>6, <1>14, <1>15, <1>16 DEF Arrived, Served, t, v

LEMMA ServesAdd ==
    ASSUME NEW line \in Lines, NEW s, Fetching(s, 11), Served(s, line, 11),
           NEW i \in Code[rom[12]], op_call_traced(s, i).panic = "OK"
    PROVE  Arrived(op_call_traced(s, i), line, 12) /\ Grows(s, op_call_traced(s, i), 11)
<1> DEFINE rs == <<0, IDT>>
           t == op_call_traced(s, i)
           v == (line * WORD_SIZE) % Modulus
<1>1. i = instruction("ADD", "RR", rs) /\ rs[1] = 0 /\ rs[2] = IDT
  BY RomCode
<1> HIDE DEF rs
<1>2. i.op = "ADD" /\ i.form = "RR" /\ i.r = rs
  BY <1>1 DEF instruction
<1>3. t = op_alu_rr(s, "ADD", rs)
  <2>1. t = ops(s, i)
    BY <1>2, Untraced DEF printed_operand
  <2> QED
    BY <1>2, <2>1 DEF ops, Arithmetic
<1>4. /\ s \in Decoded /\ s.panic = "OK" /\ s.reg[0] = v /\ s.reg[IDT] = IDT_ADDRESS
      /\ s.reg[IR] = line
  BY DEF Fetching, Served
<1>5. cpu_register_get(s, {0, IDT}) = s
  BY <1>4, RegistersGot, RegistersApart
<1>6. v + IDT_ADDRESS = entry(line) /\ entry(line) \in Word
  <2>1. entry(line) \in Word /\ line \in Nat /\ IDT_ADDRESS \in Nat /\ WORD_SIZE \in Nat
    <3>1. entry(line) \in Word /\ line \in Word
      BY DispatchAssumption, CpuAssumption
    <3>2. IDT_ADDRESS \in Word /\ WORD_SIZE \in Nat /\ \A w \in Word : w \in Nat
      BY WordFacts
    <3> QED
      BY <3>1, <3>2
  <2>2. line * WORD_SIZE \in Nat
    BY <2>1
  <2>3. line * WORD_SIZE \in Word
    BY <2>1, <2>2, WordFacts DEF entry
  <2>4. v = line * WORD_SIZE
    BY <2>3, WordFacts
  <2> QED
    BY <2>1, <2>2, <2>4 DEF entry
<1>7. alu("ADD", v, IDT_ADDRESS) = entry(line)
  <2>1. alu("ADD", v, IDT_ADDRESS) = (v + IDT_ADDRESS) % Modulus
    BY DEF alu
  <2> QED
    BY <1>6, <2>1, WordFacts
<1>8. t = cpu_register_set(s, 0, entry(line))
  <2> HIDE DEF v
  <2> QED
    BY <1>1, <1>3, <1>4, <1>5, <1>7 DEF op_alu_rr, Then
<1> HIDE DEF t, v
<1>9. t.reg = [s.reg EXCEPT ![0] = entry(line)] /\ t.mem = s.mem /\ t.ie = s.ie
  BY <1>4, <1>6, <1>8, RegisterSet, RegistersApart
<1>10. s.reg \in [Registers -> Word]
  BY <1>4, MachineFields
<1>11. /\ t.reg[0] = entry(line) /\ t.reg[IR] = line /\ t.reg[SP] = s.reg[SP]
       /\ t.reg[PC] = s.reg[PC]
  BY <1>4, <1>9, <1>10, RegistersApart
<1>12. Grows(s, t, 11)
  BY <1>9, <1>10, GrowsSet
<1> QED
  BY <1>9, <1>11, <1>12 DEF Arrived, Served, Fetching, t

LEMMA ServesLoad ==
    ASSUME NEW line \in Lines, NEW s, Fetching(s, 12), Served(s, line, 12),
           NEW i \in Code[rom[13]], op_call_traced(s, i).panic = "OK"
    PROVE  Arrived(op_call_traced(s, i), line, 13) /\ Grows(s, op_call_traced(s, i), 12)
<1> DEFINE rs == <<0, 0>>
           t == op_call_traced(s, i)
           v == s.mem[entry(line)]
<1>1. i = instruction("LOAD", "RR", rs) /\ rs[1] = 0 /\ rs[2] = 0
  BY RomCode
<1> HIDE DEF rs
<1>2. i.op = "LOAD" /\ i.form = "RR" /\ i.r = rs
  BY <1>1 DEF instruction
<1>3. t = op_load_rr(s, rs)
  <2>1. t = ops(s, i)
    BY <1>2, Untraced DEF printed_operand
  <2> QED
    BY <1>2, <2>1 DEF ops, Arithmetic
<1>4. s \in Decoded /\ s.panic = "OK" /\ s.reg[0] = entry(line) /\ s.reg[IR] = line
  BY DEF Fetching, Served
<1>5. cpu_register_get(s, {0}) = s
  BY <1>4, RegistersGot, RegistersApart
<1>6. s.reg \in [Registers -> Word] /\ v \in Word /\ entry(line) \in Readable
  BY <1>4, MachineFields, DispatchAssumption
<1>7. t = cpu_register_set(s, 0, v)
  BY <1>1, <1>3, <1>4, <1>5, <1>6 DEF op_load_rr, read_into, load, Then
<1> HIDE DEF t, v
<1>8. t.reg = [s.reg EXCEPT ![0] = v] /\ t.mem = s.mem /\ t.ie = s.ie
  BY <1>4, <1>6, <1>7, RegisterSet, RegistersApart
<1>9. t.reg[0] = v /\ t.reg[IR] = line /\ t.reg[SP] = s.reg[SP] /\ t.reg[PC] = s.reg[PC]
  BY <1>4, <1>6, <1>8, RegistersApart
<1>10. Grows(s, t, 12)
  BY <1>6, <1>8, GrowsSet
<1> QED
  BY <1>8, <1>9, <1>10 DEF Arrived, Served, Fetching, t, v

LEMMA ServesReturn ==
    ASSUME NEW line \in Lines, NEW s, Fetching(s, 13), Served(s, line, 13),
           NEW i \in Code[rom[14]], op_call_traced(s, i).panic = "OK"
    PROVE  Arrived(op_call_traced(s, i), line, 5) /\ Grows(s, op_call_traced(s, i), 13)
<1> DEFINE t == op_call_traced(s, i)
           b == s.reg[SP]
           c == (b + WORD_SIZE) % Modulus
           j == jump(s, rom_at(5))
<1>i. i = instruction("RET", "", <<>>)
  BY RomCode
<1>1. i.op = "RET" /\ i.form = ""
  BY <1>i DEF instruction
<1>2. t = op_ret(s)
  <2>1. t = ops(s, i)
    BY <1>1, Untraced DEF printed_operand
  <2> QED
    BY <1>1, <2>1 DEF ops, Arithmetic
<1>3. /\ s \in Decoded /\ s.panic = "OK" /\ b \in Readable /\ s.mem[b] = rom_at(5)
      /\ s.reg[IR] = line /\ ~s.ie /\ s.reg[0] = s.mem[entry(line)]
  BY DEF Fetching, Served
<1>4. s.reg \in [Registers -> Word] /\ c \in Word /\ rom_at(5) \in Word
  BY <1>3, MachineFields, NextWord, RomPlaces
<1>5. t = [j EXCEPT !.reg[SP] = c]
  BY <1>2, <1>3 DEF op_ret, load, Then
<1>6. /\ j \in Decoded /\ j.reg = [s.reg EXCEPT ![PC] = rom_at(5)] /\ j.mem = s.mem
      /\ j.ie = s.ie
  BY <1>3, <1>4, Jumped
<1> HIDE DEF j, c, t
<1>7. t.reg = [j.reg EXCEPT ![SP] = c] /\ t.mem = j.mem /\ t.ie = j.ie
  BY <1>5, <1>6 DEF Decoded
<1>8. t.reg[0] = s.reg[0] /\ t.reg[IR] = line /\ t.reg[PC] = rom_at(5)
  BY <1>3, <1>4, <1>6, <1>7, RegistersApart
<1>9. Grows(s, t, 13)
  <2>1. t.reg[SP] = c /\ \A r \in Registers \ {SP, PC} : t.reg[r] = s.reg[r]
    BY <1>4, <1>6, <1>7, RegistersApart
  <2> QED
    BY <1>6, <1>7, <2>1 DEF Grows, c
<1> QED
  BY <1>3, <1>6, <1>7, <1>8, <1>9 DEF Arrived, Served, t

\* The last call of the dispatcher starts the handler the table names.
LEMMA ServesHandler ==
    ASSUME NEW line \in Lines, NEW s, Fetching(s, 5), Served(s, line, 5),
           NEW i \in Code[rom[6]], op_call_traced(s, i).panic = "OK"
    PROVE  op_call_traced(s, i).reg[PC] = s.mem[entry(line)] /\ Grows(s, op_call_traced(s, i), 5)
<1> DEFINE rs == <<0>>
           t == op_call_traced(s, i)
           v == s.mem[entry(line)]
           p == push(s, s.reg[PC])
<1>1. i = instruction("CALL", "R", rs) /\ rs[1] = 0
  BY RomCode
<1> HIDE DEF rs
<1>2. i.op = "CALL" /\ i.form = "R" /\ i.r = rs
  BY <1>1 DEF instruction
<1>3. t = op_call_r(s, rs)
  <2>1. t = ops(s, i)
    BY <1>2, Untraced DEF printed_operand
  <2> QED
    BY <1>2, <2>1 DEF ops, Arithmetic
<1>4. s \in Decoded /\ s.panic = "OK" /\ s.reg[0] = v
  BY DEF Fetching, Served
<1>5. cpu_register_get(s, {0}) = s
  BY <1>4, RegistersGot, RegistersApart
<1>6. t = Then(p, jump(p, v))
  BY <1>1, <1>3, <1>4, <1>5 DEF op_call_r, call, Then
<1>7. v \in Word /\ s.reg[PC] \in Word
  BY <1>4, MachineFields, DispatchAssumption
<1> HIDE DEF v
<1>8. p.panic = "OK" /\ t = jump(p, v)
  <2> HIDE DEF p
  <2> QED
    BY <1>6 DEF Then
<1>9. p \in Decoded /\ p.ie = s.ie
  BY <1>4, <1>7, <1>8, Pushed
<1>g. /\ \A r \in Registers \ {SP} : p.reg[r] = s.reg[r]
      /\ \A b \in Readable : b >= s.reg[SP] => p.mem[b] = s.mem[b]
      /\ p.reg[SP] \in Readable /\ p.reg[SP] + WORD_SIZE = s.reg[SP]
      /\ p.mem[p.reg[SP]] = s.reg[PC]
  BY <1>4, <1>7, <1>8, GrowsPushed
<1> HIDE DEF t, p
<1>10. t.reg = [p.reg EXCEPT ![PC] = v] /\ t.mem = p.mem /\ t.ie = p.ie
  BY <1>7, <1>8, <1>9, Jumped
<1>11. p.reg \in [Registers -> Word] /\ PC \in Registers
  BY <1>9, MachineFields, RegistersApart
<1>12. Grows(s, t, 5)
  <2>1. \A r \in Registers \ {PC} : t.reg[r] = p.reg[r]
    BY <1>10, <1>11
  <2>2. s.reg[PC] = rom_at(6)
    <3>1. 5 + 1 = 6
      OBVIOUS
    <3> QED
      BY <3>1 DEF Fetching
  <2> QED
    BY <1>9, <1>10, <1>g, <2>1, <2>2, RegistersApart DEF Grows
<1> QED
  BY <1>10, <1>11, <1>12 DEF t, v

Serviced(s, fs, k) ==
    /\ fs # <<>> /\ Last(fs).line \in Lines
    /\ Served(s, Last(fs).line, k) /\ Spared(s, Last(fs), k)

\* A machine the loop goes on with is on its way to the handler, has come to it, or is
\* elsewhere.
OnItsWay(t, fs) ==
    /\ \A k \in Serving : t.reg[PC] = rom_at(k) => Serviced(t, fs, k)
    /\ \A line \in Lines :
         t.reg[PC] = t.mem[entry(line)] =>
           fs # <<>> /\ Last(fs).line = line /\ Called(t, Last(fs))

\* The word that is executed after the k-th one.
Following == {<<2, 3>>, <<3, 8>>, <<8, 9>>, <<9, 11>>, <<11, 12>>, <<12, 13>>, <<13, 5>>}

LEMMA ServesOne ==
    ASSUME NEW k \in Serving, NEW line \in Lines, NEW s, Fetching(s, k), Served(s, line, k),
           NEW i \in Code[rom[k + 1]], op_call_traced(s, i).panic = "OK"
    PROVE  /\ Grows(s, op_call_traced(s, i), k)
           /\ IF k = 5 THEN op_call_traced(s, i).reg[PC] = s.mem[entry(line)]
              ELSE \E j \in Serving : /\ Arrived(op_call_traced(s, i), line, j)
                                     /\ <<k, j>> \in Following
<1>1. /\ k \in {2, 3, 5, 8, 9, 11, 12, 13} /\ {3, 8, 9, 11, 12, 13, 5} \subseteq Serving
      /\ {<<2, 3>>, <<3, 8>>, <<8, 9>>, <<9, 11>>, <<11, 12>>, <<12, 13>>, <<13, 5>>}
           \subseteq Following
  BY DEF Serving, Following
<1>2. CASE k = 2
  BY <1>1, <1>2, ServesPush
<1>3. CASE k = 3
  BY <1>1, <1>3, ServesCall
<1>4. CASE k = 5
  BY <1>4, ServesHandler
<1>5. CASE k = 8
  BY <1>1, <1>5, ServesMove
<1>6. CASE k = 9
  BY <1>1, <1>6, ServesMultiply
<1>7. CASE k = 11
  BY <1>1, <1>7, ServesAdd
<1>8. CASE k = 12
  BY <1>1, <1>8, ServesLoad
<1>9. CASE k = 13
  BY <1>1, <1>9, ServesReturn
<1> QED
  BY <1>1, <1>2, <1>3, <1>4, <1>5, <1>6, <1>7, <1>8, <1>9

\* What stood there still does, and the handler is called with it.
LEMMA Spares ==
    ASSUME NEW k \in Serving, NEW j, <<k, j>> \in Following, NEW s, NEW t, NEW f,
           Spared(s, f, k), Grows(s, t, k), s.reg[0] \in Word
    PROVE  Spared(t, f, j)
<1> DEFINE pc == f.reg[SP] - WORD_SIZE
           r0 == pc - WORD_SIZE
<1>1. \/ k = 2 /\ j = 3
      \/ k = 3 /\ j = 8
      \/ k \in {8, 9, 11, 12} /\ j \in {9, 11, 12, 13}
      \/ k = 13 /\ j = 5
  BY DEF Following
<1>2. /\ f.reg \in [Registers -> Word] /\ pc \in Readable /\ s.mem[pc] = f.reg[PC]
      /\ k = 2 => s.reg[SP] = pc /\ s.reg[0] = f.reg[0]
      /\ k # 2 => r0 \in Readable /\ s.mem[r0] = f.reg[0]
      /\ k = 3 => s.reg[SP] = r0
      /\ k \in {8, 9, 11, 12, 13} => s.reg[SP] = r0 - WORD_SIZE
  BY DEF Spared
<1>3. /\ f.reg[SP] \in Int /\ WORD_SIZE \in Nat \ {0} /\ pc \in Int /\ r0 \in Int
      /\ pc + WORD_SIZE = f.reg[SP] /\ r0 + WORD_SIZE = pc
      /\ (r0 - WORD_SIZE) + WORD_SIZE = r0
  <2>1. f.reg[SP] \in Int
    BY <1>2, RegistersApart, WordInt
  <2>2. WORD_SIZE \in Nat \ {0}
    BY WordFacts
  <2> QED
    BY <2>1, <2>2
<1>4. s.reg[SP] \in Int /\ s.reg[SP] <= pc /\ (k # 2 => s.reg[SP] <= r0)
  <2> HIDE DEF pc, r0
  <2> QED
    BY <1>1, <1>2, <1>3
<1>5. t.mem[pc] = f.reg[PC] /\ (k # 2 => t.mem[r0] = f.reg[0])
  <2> HIDE DEF pc, r0
  <2> QED
    BY <1>2, <1>3, <1>4 DEF Grows
<1>6. \A a \in DOMAIN f.stack : a \in Readable /\ a >= f.reg[SP] /\ t.mem[a] = f.stack[a]
  <2> TAKE a \in DOMAIN f.stack
  <2>1. a \in Readable /\ a >= f.reg[SP] /\ s.mem[a] = f.stack[a]
    BY DEF Spared
  <2>2. a \in Int
    BY <2>1, WordInt, CpuAssumption
  <2>3. a >= s.reg[SP]
    <3> HIDE DEF pc, r0
    <3> QED
      BY <1>3, <1>4, <2>1, <2>2
  <2> QED
    BY <2>1, <2>3 DEF Grows
<1>7. \A r \in Registers \ {0, SP, PC} : t.reg[r] = f.reg[r]
  BY DEF Spared, Grows
<1>8. CASE k = 2
  <2>1. t.reg[SP] \in Readable /\ t.reg[SP] + WORD_SIZE = pc /\ t.mem[t.reg[SP]] = f.reg[0]
    BY <1>2, <1>8 DEF Grows
  <2>2. t.reg[SP] \in Int
    BY <2>1, WordInt, CpuAssumption
  <2>3. t.reg[SP] = r0
    BY <1>3, <2>1, <2>2
  <2> HIDE DEF pc, r0
  <2> QED
    BY <1>1, <1>2, <1>5, <1>6, <1>7, <1>8, <2>1, <2>3 DEF Spared, pc, r0
<1>9. CASE k = 3
  <2>1. t.reg[SP] \in Readable /\ t.reg[SP] + WORD_SIZE = r0
    BY <1>2, <1>9 DEF Grows
  <2>2. t.reg[SP] \in Int
    BY <2>1, WordInt, CpuAssumption
  <2>3. t.reg[SP] = r0 - WORD_SIZE
    BY <1>3, <2>1, <2>2
  <2> QED
    BY <1>1, <1>2, <1>5, <1>6, <1>7, <1>9, <2>3 DEF Spared
<1>10. CASE k \in {8, 9, 11, 12}
  <2>1. t.reg[SP] = r0 - WORD_SIZE
    BY <1>2, <1>10 DEF Grows
  <2> QED
    BY <1>1, <1>2, <1>5, <1>6, <1>7, <1>10, <2>1 DEF Spared
<1>11. CASE k = 13
  <2>1. t.reg[SP] = r0 % Modulus
    <3> HIDE DEF r0
    <3> QED
      BY <1>2, <1>3, <1>11 DEF Grows
  <2>2. r0 \in Word
    BY <1>2, <1>11, CpuAssumption
  <2>3. t.reg[SP] = r0
    BY <2>1, <2>2, WordFacts
  <2> QED
    BY <1>1, <1>2, <1>5, <1>6, <1>7, <1>11, <2>3 DEF Spared
<1> QED
  BY <1>1, <1>8, <1>9, <1>10, <1>11

LEMMA Calls ==
    ASSUME NEW s, NEW t, NEW f, NEW line, Spared(s, f, 5), Grows(s, t, 5), Served(s, line, 5)
    PROVE  Called(t, f)
<1> DEFINE sp == t.reg[SP]
<1>1. /\ f.reg \in [Registers -> Word] /\ s.reg[SP] = f.reg[SP] - WORD_SIZE - WORD_SIZE
      /\ f.reg[SP] - WORD_SIZE \in Readable /\ f.reg[SP] - WORD_SIZE - WORD_SIZE \in Readable
      /\ s.mem[f.reg[SP] - WORD_SIZE] = f.reg[PC]
      /\ s.mem[f.reg[SP] - WORD_SIZE - WORD_SIZE] = f.reg[0]
  BY DEF Spared
<1>2. /\ sp \in Readable /\ sp + WORD_SIZE = s.reg[SP] /\ t.mem[sp] = rom_at(6)
      /\ t.ie = s.ie
  BY DEF Grows
<1>3. f.reg[SP] \in Int /\ WORD_SIZE \in Nat \ {0} /\ sp \in Int
  BY <1>1, <1>2, RegistersApart, WordInt, WordFacts, CpuAssumption
<1> HIDE DEF sp
<1>4. /\ sp + WORD_SIZE = f.reg[SP] - WORD_SIZE - WORD_SIZE
      /\ sp + WORD_SIZE + WORD_SIZE = f.reg[SP] - WORD_SIZE
      /\ f.reg[SP] = sp + WORD_SIZE + WORD_SIZE + WORD_SIZE
      /\ s.reg[SP] <= sp + WORD_SIZE + WORD_SIZE /\ s.reg[SP] <= sp + WORD_SIZE
      /\ \A a \in Int : a >= f.reg[SP] => a >= s.reg[SP]
  BY <1>1, <1>2, <1>3
<1>5. t.mem[sp + WORD_SIZE] = f.reg[0] /\ t.mem[sp + WORD_SIZE + WORD_SIZE] = f.reg[PC]
  <2>1. /\ sp + WORD_SIZE \in Readable /\ sp + WORD_SIZE + WORD_SIZE \in Readable
        /\ s.mem[sp + WORD_SIZE] = f.reg[0] /\ s.mem[sp + WORD_SIZE + WORD_SIZE] = f.reg[PC]
    BY <1>1, <1>4
  <2>2. sp + WORD_SIZE + WORD_SIZE >= s.reg[SP] /\ sp + WORD_SIZE >= s.reg[SP]
    BY <1>2, <1>3
  <2> QED
    BY <2>1, <2>2 DEF Grows
<1>6. \A a \in DOMAIN f.stack : t.mem[a] = f.stack[a]
  <2> TAKE a \in DOMAIN f.stack
  <2>1. a \in Readable /\ a >= f.reg[SP] /\ s.mem[a] = f.stack[a]
    BY DEF Spared
  <2>2. a >= s.reg[SP]
    BY <1>4, <2>1, WordInt, CpuAssumption
  <2> QED
    BY <2>1, <2>2 DEF Grows
<1>7. \A r \in Registers \ {0, SP, PC} : t.reg[r] = f.reg[r]
  BY DEF Spared, Grows
<1>8. ~ t.ie
  BY <1>2 DEF Served
<1> QED
  BY <1>2, <1>4, <1>5, <1>6, <1>7, <1>8 DEF Called, sp

\* The program counter does not matter.
LEMMA SparedAlone ==
    ASSUME NEW s, NEW t, NEW f, NEW k, Spared(s, f, k), t.mem = s.mem,
           \A r \in Registers \ {PC} : t.reg[r] = s.reg[r]
    PROVE  Spared(t, f, k)
BY RegistersApart DEF Spared

\* None of these words is an IRET, and printing one changes nothing.
LEMMA ServesPlainly ==
    ASSUME NEW k \in Serving, NEW i \in Code[rom[k + 1]]
    PROVE  /\ i.op # "IRET"
           /\ \A s : Fetching(s, k) => cpu_instruction_to_string(s, i) = s
<1>1. k \in {2, 3, 5, 8, 9, 11, 12, 13}
  BY DEF Serving
<1>2. \/ k = 2 /\ i = instruction("PUSH", "R", <<0>>)
      \/ k = 3 /\ i = instruction("CALL", "A", <<>>)
      \/ k = 5 /\ i = instruction("CALL", "R", <<0>>)
      \/ k = 8 /\ i = instruction("MOV", "RR", <<0, IR>>)
      \/ k = 9 /\ i = instruction("MUL", "RW", <<0>>)
      \/ k = 11 /\ i = instruction("ADD", "RR", <<0, IDT>>)
      \/ k = 12 /\ i = instruction("LOAD", "RR", <<0, 0>>)
      \/ k = 13 /\ i = instruction("RET", "", <<>>)
  <2>1. /\ (k = 2 => i \in Code[rom[3]]) /\ (k = 3 => i \in Code[rom[4]])
        /\ (k = 5 => i \in Code[rom[6]]) /\ (k = 8 => i \in Code[rom[9]])
        /\ (k = 9 => i \in Code[rom[10]]) /\ (k = 11 => i \in Code[rom[12]])
        /\ (k = 12 => i \in Code[rom[13]]) /\ (k = 13 => i \in Code[rom[14]])
    BY <1>1
  <2> QED
    BY <1>1, <2>1, RomCode
<1>3. /\ i.op \in {"PUSH", "CALL", "MOV", "MUL", "ADD", "LOAD", "RET"}
      /\ k = 13 => i.op = "RET" /\ i.form = ""
  <2>1. \A op, form, r : instruction(op, form, r).op = op /\ instruction(op, form, r).form = form
    BY DEF instruction
  <2>2. k = 13 => i = instruction("RET", "", <<>>)
    <3>1. 13 \notin {2, 3, 5, 8, 9, 11, 12}
      OBVIOUS
    <3> QED
      BY <1>2, <3>1, Zenon
  <2>3. \E op \in {"PUSH", "CALL", "MOV", "MUL", "ADD", "LOAD", "RET"} :
         \E form, r : i = instruction(op, form, r)
    <3> HIDE DEF instruction
    <3> QED
      BY <1>2, Zenon
  <2>4. i.op \in {"PUSH", "CALL", "MOV", "MUL", "ADD", "LOAD", "RET"}
    BY <2>1, <2>3
  <2>5. k = 13 => i.op = "RET" /\ i.form = ""
    <3>1. /\ instruction("RET", "", <<>>).op = "RET"
          /\ instruction("RET", "", <<>>).form = ""
      BY Zenon DEF instruction
    <3> QED
      BY <2>2, <3>1, Zenon
  <2> QED
    BY <2>4, <2>5, Zenon
<1>4. ASSUME NEW s, Fetching(s, k) PROVE cpu_instruction_to_string(s, i) = s
  <2>1. CASE k = 13
    BY <1>3, <2>1 DEF cpu_instruction_to_string, printed_operand
  <2>2. CASE k # 13
    <3>1. k + 1 \in 0 .. 13
      BY <1>1, <2>2
    <3>2. s.reg[PC] \in Readable
      BY <1>4, <3>1, RomPlaces DEF Fetching
    <3> QED
      BY <3>2 DEF cpu_instruction_to_string, load
  <2> QED
    BY <2>1, <2>2
<1> QED
  BY <1>3, <1>4

\* One instruction of the dispatcher, where the table T stands while it runs.
LEMMA Serves ==
    ASSUME NEW k \in Serving, NEW s, NEW fs, Fetching(s, k), Serviced(s, fs, k),
           NEW i \in Code[rom[k + 1]],
           NEW t, t = op_call_traced(s, i), t.panic = "OK",
           NEW T, \A line \in Lines : t.mem[entry(line)] = T[line],
           \A j, line \in Lines : T[j] = T[line] => j = line,
           \A line \in Lines, j \in Serving : T[line] # rom_at(j),
           k = 5 => \A line \in Lines : s.mem[entry(line)] = T[line]
    PROVE  OnItsWay(t, fs)
<1> DEFINE line == Last(fs).line
<1>1. line \in Lines /\ fs # <<>> /\ Served(s, line, k) /\ Spared(s, Last(fs), k)
  BY DEF Serviced
<1>2. /\ Grows(s, t, k)
      /\ IF k = 5 THEN t.reg[PC] = s.mem[entry(line)]
         ELSE \E j \in Serving : Arrived(t, line, j) /\ <<k, j>> \in Following
  BY <1>1, ServesOne
<1> HIDE DEF line
<1>3. CASE k = 5
  <2>1. t.reg[PC] = T[line]
    BY <1>1, <1>2, <1>3
  <2>2. \A j \in Serving : t.reg[PC] # rom_at(j)
    BY <1>1, <2>1
  <2>3. \A l \in Lines : t.reg[PC] = t.mem[entry(l)] => l = line
    BY <1>1, <2>1
  <2>4. Called(t, Last(fs))
    BY <1>1, <1>2, <1>3, Calls
  <2> QED
    BY <1>1, <2>2, <2>3, <2>4 DEF OnItsWay, line
<1>4. CASE k # 5
  <2>1. PICK j \in Serving : /\ t.reg[PC] = rom_at(j) /\ Served(t, line, j)
                             /\ <<k, j>> \in Following
    BY <1>2, <1>4 DEF Arrived
  <2>2. \A n \in Serving : n \in 0 .. 14
    BY DEF Serving
  <2>3. \A n \in Serving : t.reg[PC] = rom_at(n) => n = j
    BY <2>1, <2>2, RomPlaces
  <2>4. \A l \in Lines : t.reg[PC] # t.mem[entry(l)]
    BY <2>1
  <2>5. Spared(t, Last(fs), j)
    <3>1. s.reg[0] \in Word
      BY FetchingFacts, RegistersApart
    <3> QED
      BY <1>1, <1>2, <2>1, <3>1, Spares
  <2> QED
    BY <1>1, <2>1, <2>3, <2>4, <2>5 DEF OnItsWay, Serviced, line
<1> QED
  BY <1>3, <1>4

\* The inductive invariant.
DispatchInv ==
    /\ \E S : frames \in Seq(S)
    /\ thread = "loop" /\ m.panic = "OK" =>
         \A k \in Serving : m.reg[PC] = rom_at(k) => Serviced(m, frames, k)
    /\ thread = "trap" =>
         \A k \in Serving : m.reg[PC] = rom_at(k + 1) =>
           m.panic = "OK" /\ ins \in Code[rom[k + 1]] /\ Serviced(m, frames, k)
    /\ RightHandler

\* frames stays a sequence.
LEMMA FramesStep ==
    ASSUME NEW S, frames \in Seq(S), [StartupNext]_startupVars
    PROVE  \E U : frames' \in Seq(U)
<1>1. ASSUME NEW U, NEW q \in Seq(U), q # <<>> PROVE Front(q) \in Seq(U)
  BY <1>1 DEF Front
<1>2. ASSUME NEW x PROVE Append(frames, x) \in Seq(S \union {x})
  <2>1. frames \in Seq(S \union {x}) /\ x \in S \union {x}
    OBVIOUS
  <2> QED
    BY <2>1
<1>3. ASSUME NEW line, Iteration(line) PROVE \E U : frames' \in Seq(U)
  <2> DEFINE x == frame(line)
             served == IF line = NoLine THEN frames ELSE Append(frames, x)
  <2>1. frames' = (IF Returning(line) /\ served # <<>> THEN Front(served) ELSE served)
    BY <1>3 DEF Iteration
  <2> HIDE DEF x
  <2>2. \E U : served \in Seq(U)
    BY <1>2
  <2> HIDE DEF served
  <2> QED
    BY <1>1, <2>1, <2>2
<1>4. ASSUME NEW c, Debugged(c) PROVE \E U : frames' \in Seq(U)
  BY <1>1, <1>4 DEF Debugged
<1>5. CASE UNCHANGED frames
  BY <1>5
<1> QED
  BY <1>3, <1>4, <1>5 DEF StartupNext, startupVars, Helps, Fails, Starts, Running, main_ends

\* What a step of the run is to the processor, when no interrupt is taken.
LEMMA Uninterrupted ==
    ASSUME SessionInv, [StartupNext]_startupVars, ~ Interrupted
    PROVE  \/ Iteration(NoLine)
           \/ \E c \in Commands : Debugged(c)
           \/ thread' \notin {"loop", "trap"}
           \/ thread = "idle"
           \/ UNCHANGED <<thread, ins, frames>> /\ m' \in {m, [m EXCEPT !.running = FALSE]}
<1>1. ASSUME NEW line \in arriving, Iteration(line) PROVE Iteration(NoLine)
  BY <1>1 DEF arriving, Interrupted
<1>2. CASE \E line \in CommandLines : Helps(line) \/ Fails(line) \/ Starts(line)
  BY <1>2 DEF Helps, Fails, Starts, SessionInv
<1>3. CASE phase = "running" /\ Running /\ UNCHANGED <<phase, options>>
  BY <1>1, <1>3
     DEF Running, StartLoop, LeaveLoop, cpu_stop, Answers, InputEnds, vars, Resumes
<1>4. CASE main_ends
  BY <1>4 DEF main_ends, vars
<1>5. CASE UNCHANGED startupVars
  BY <1>5 DEF startupVars
<1> QED
  BY <1>2, <1>3, <1>4, <1>5 DEF StartupNext

\* The processor enters the dispatcher at its second word, with the line in ir.
LEMMA Entered ==
    ASSUME TypeOK, Looping, m.ie, Standing, NEW line \in Lines, Fetches(line)
    PROVE  LET f == cpu_fetch(top(line))
           IN  /\ Fetching(f, 2) /\ Served(f, line, 2) /\ Spared(f, frame(line), 2)
               /\ cpu_decode(line) = Code[rom[3]]
<1> DEFINE c == [m EXCEPT !.fault = FALSE]
           u == [c EXCEPT !.ie = FALSE]
           q == [u EXCEPT !.reg[IR] = line]
           p == push(q, m.reg[PC])
           a == (q.reg[SP] - WORD_SIZE) % Modulus
           t == top(line)
           f == cpu_fetch(t)
<1>1. line \in arriving /\ line \in Word /\ line # NoLine
  <2>1. line \in Word
    BY CpuAssumption
  <2>2. line \in Nat
    BY <2>1, WordFacts
  <2> QED
    BY <2>1, <2>2 DEF arriving, NoLine
<1>2. t \in Decoded
  BY <1>1, TopType
<1>3. m \in Machine /\ m.panic = "OK"
  BY DEF TypeOK, Looping
<1>4. /\ u \in Decoded /\ u.reg = m.reg /\ u.mem = m.mem /\ u.ie = FALSE
  BY <1>3 DEF Machine, Decoded, Panics
<1>5. m.reg \in [Registers -> Word] /\ m.mem \in [Readable -> Word]
  BY <1>3 DEF Machine
<1>6. q = [c EXCEPT !.ie = FALSE, !.reg[IR] = line] /\ c.reg = m.reg
  BY <1>3 DEF Machine
<1>7. t = Then(p, jump(p, rom_at(2)))
  BY <1>1, <1>6 DEF top, interrupted, rom_at
<1> HIDE DEF c, u
<1>8. /\ q \in Decoded /\ q.reg = [m.reg EXCEPT ![IR] = line] /\ q.mem = m.mem
      /\ q.ie = FALSE
  <2>1. q.ie = u.ie
    BY <1>4 DEF Decoded
  <2> QED
    BY <1>1, <1>4, <2>1, RegisterType, RegistersApart
<1> HIDE DEF q
<1>9. t.panic = "OK"
  BY <1>2, FetchType DEF Fetches
<1>10. p.panic = "OK" /\ t = jump(p, rom_at(2))
  <2> HIDE DEF p, t
  <2> QED
    BY <1>7, <1>9 DEF Then
<1>11. m.reg[PC] \in Word
  BY <1>5, RegistersApart
<1>12. /\ p \in Decoded /\ a \in Writable /\ a + WORD_SIZE = q.reg[SP] /\ p.reg = [q.reg EXCEPT ![SP] = a]
       /\ p.mem = [q.mem EXCEPT ![a] = m.reg[PC]] /\ p.ie = q.ie
  <2> DEFINE v == m.reg[PC]
  <2>1. v \in Word /\ push(q, v).panic = "OK"
    BY <1>10, <1>11
  <2> HIDE DEF v
  <2>2. LET x == push(q, v)
        IN  /\ x \in Decoded /\ a \in Writable /\ a + WORD_SIZE = q.reg[SP]
            /\ x.reg = [q.reg EXCEPT ![SP] = a] /\ x.mem = [q.mem EXCEPT ![a] = v] /\ x.ie = q.ie
    BY <1>8, <2>1, Pushed
  <2> QED
    BY <2>2 DEF v
<1>13. a \in Readable /\ a \in Word
  BY <1>12, CpuAssumption
<1> HIDE DEF p, a, t
<1>14. rom_at(2) \in Word /\ rom_at(3) \in Word
  BY RomPlaces
<1>15. /\ t.reg = [p.reg EXCEPT ![PC] = rom_at(2)] /\ t.mem = p.mem /\ t.ie = p.ie
  BY <1>10, <1>12, <1>14, Jumped
<1>16. /\ t.reg[PC] = rom_at(2) /\ t.reg[IR] = line /\ t.reg[IDT] = IDT_ADDRESS
       /\ t.reg \in [Registers -> Word]
  <2>1. m.reg[IDT] = IDT_ADDRESS
    BY DEF Standing
  <2> QED
    BY <1>1, <1>5, <1>8, <1>12, <1>13, <1>14, <1>15, <2>1, RegistersApart
<1>17. \A j \in 1 .. 14 : t.mem[rom_at(j - 1)] = rom[j]
  <2> TAKE j \in 1 .. 14
  <2>1. j - 1 \in 0 .. 13
    OBVIOUS
  <2>2. rom_at(j - 1) \in Readable /\ rom_at(j - 1) # a
    BY <1>12, <2>1, RomPlaces
  <2>3. m.mem[rom_at(j - 1)] = rom[j]
    BY RomCode DEF Standing
  <2> QED
    BY <1>5, <1>8, <1>12, <1>15, <2>2, <2>3
<1>18. /\ f \in Decoded /\ f.panic = "OK" /\ f.reg = [t.reg EXCEPT ![PC] = rom_at(3)]
       /\ f.mem = t.mem /\ f.ie = t.ie /\ fetched(t) = t.mem[rom_at(2)]
  <2>1. 2 \in 0 .. 13 /\ 2 + 1 = 3
    OBVIOUS
  <2>2. t.reg[PC] = rom_at(2)
    BY <1>16
  <2> QED
    BY <1>2, <1>9, <2>1, <2>2, Fetched
<1>19. fetched(t) = rom[3]
  <2>1. 3 \in 1 .. 14 /\ 3 - 1 = 2
    OBVIOUS
  <2>2. t.mem[rom_at(3 - 1)] = rom[3]
    BY <1>17, <2>1
  <2> QED
    BY <1>18, <2>1, <2>2
<1> HIDE DEF f
<1>20. f.reg[PC] = rom_at(3) /\ f.reg[IR] = line /\ f.reg[IDT] = IDT_ADDRESS
  BY <1>14, <1>16, <1>18, RegistersApart
<1>21. Fetching(f, 2)
  <2>1. 2 + 1 = 3
    OBVIOUS
  <2> QED
    BY <1>17, <1>18, <1>20, <2>1 DEF Fetching
<1>22. Served(f, line, 2)
  BY <1>8, <1>12, <1>15, <1>18, <1>20 DEF Served
<1>24. Spared(f, frame(line), 2)
  <2> DEFINE g == frame(line)
  <2>1. g.reg = [m.reg EXCEPT ![IR] = line] /\ g.reg = q.reg
        /\ DOMAIN g.stack = {b \in StackArea : b >= m.reg[SP]}
        /\ \A b \in DOMAIN g.stack : g.stack[b] = m.mem[b]
    BY <1>8 DEF frame
  <2> HIDE DEF g
  <2>2. /\ g.reg \in [Registers -> Word] /\ g.reg[SP] = m.reg[SP] /\ g.reg[PC] = m.reg[PC]
        /\ m.reg[SP] \in Int /\ WORD_SIZE \in Nat \ {0} /\ a \in Int
    <3>1. /\ g.reg \in [Registers -> Word] /\ g.reg[SP] = m.reg[SP] /\ g.reg[PC] = m.reg[PC]
          /\ m.reg[SP] \in Word
      BY <1>1, <1>5, <2>1, RegistersApart
    <3> QED
      BY <1>13, <3>1, WordInt, WordFacts
  <2>3. a + WORD_SIZE = g.reg[SP] /\ a = g.reg[SP] - WORD_SIZE
    BY <1>12, <2>1, <2>2
  <2>4. /\ f.reg[SP] = a
        /\ \A r \in Registers \ {SP, PC} : f.reg[r] = g.reg[r]
    BY <1>12, <1>13, <1>14, <1>15, <1>16, <1>18, <2>1, <2>2, RegistersApart
  <2>5. f.mem = [m.mem EXCEPT ![a] = m.reg[PC]]
    BY <1>8, <1>12, <1>15, <1>18
  <2>6. f.mem[a] = g.reg[PC]
    BY <1>5, <1>13, <2>2, <2>5
  <2>7. \A b \in DOMAIN g.stack : b \in Readable /\ b >= g.reg[SP] /\ f.mem[b] = g.stack[b]
    <3> TAKE b \in DOMAIN g.stack
    <3>1. b \in Readable /\ b >= g.reg[SP] /\ g.stack[b] = m.mem[b]
      BY <2>1, <2>2, DispatchAssumption
    <3>2. b \in Int
      BY <3>1, WordInt, CpuAssumption
    <3>3. b # a
      BY <2>2, <2>3, <3>1, <3>2
    <3> QED
      BY <1>5, <2>5, <3>1, <3>3
  <2>8. 0 \in Registers \ {SP, PC} /\ Registers \ {0, SP, PC} \subseteq Registers \ {SP, PC}
    BY RegistersApart
  <2> QED
    BY <1>13, <2>2, <2>3, <2>4, <2>6, <2>7, <2>8 DEF Spared, g
<1>23. cpu_decode(line) = Code[rom[3]]
  BY <1>19 DEF cpu_decode, t
<1> QED
  BY <1>21, <1>22, <1>23, <1>24 DEF f, t

\* The loop fetches what stands in the ROM.
LEMMA Continued ==
    ASSUME CpuInv, Looping, Standing, NEW k \in Serving, m.reg[PC] = rom_at(k),
           Serviced(m, frames, k)
    PROVE  LET f == cpu_fetch(top(NoLine))
           IN  /\ Fetching(f, k) /\ Serviced(f, frames, k) /\ f.mem = m.mem
               /\ cpu_decode(NoLine) = Code[rom[k + 1]]
<1> DEFINE t == top(NoLine)
           f == cpu_fetch(t)
<1>1. k \in 0 .. 13 /\ k + 1 \in 1 .. 14 /\ (k + 1) - 1 = k
  BY DEF Serving
<1>2. m \in Decoded /\ m.panic = "OK"
  BY LoopingDecoded DEF Looping
<1>3. t = [m EXCEPT !.fault = FALSE]
  BY DEF top
<1>4. /\ t \in Decoded /\ t.panic = "OK" /\ t.reg = m.reg /\ t.mem = m.mem /\ t.ie = m.ie
  BY <1>2, <1>3 DEF Decoded
<1> HIDE DEF t
<1>5. /\ f \in Decoded /\ f.panic = "OK" /\ f.reg = [m.reg EXCEPT ![PC] = rom_at(k + 1)]
      /\ f.mem = m.mem /\ f.ie = m.ie /\ fetched(t) = m.mem[rom_at(k)]
  <2>1. t.reg[PC] = rom_at(k)
    BY <1>4
  <2>2. /\ f \in Decoded /\ f.panic = "OK" /\ f.reg = [t.reg EXCEPT ![PC] = rom_at(k + 1)]
        /\ f.mem = t.mem /\ f.ie = t.ie /\ fetched(t) = t.mem[rom_at(k)]
    BY <1>1, <1>4, <2>1, Fetched
  <2> QED
    BY <1>4, <2>2
<1> HIDE DEF f
<1>6. m.reg \in [Registers -> Word]
  BY <1>2, MachineFields
<1>7. /\ f.reg[PC] = rom_at(k + 1) /\ f.reg[IR] = m.reg[IR] /\ f.reg[SP] = m.reg[SP]
      /\ f.reg[0] = m.reg[0] /\ f.reg[IDT] = m.reg[IDT]
  BY <1>5, <1>6, RegistersApart
<1>8. m.reg[IDT] = IDT_ADDRESS /\ \A j \in 1 .. 14 : m.mem[rom_at(j - 1)] = rom[j]
  BY RomCode DEF Standing
<1>9. fetched(t) = rom[k + 1]
  <2>1. m.mem[rom_at((k + 1) - 1)] = rom[k + 1]
    BY <1>1, <1>8
  <2> QED
    BY <1>1, <1>5, <2>1
<1>10. Fetching(f, k)
  BY <1>5, <1>7, <1>8 DEF Fetching
<1>11. Serviced(f, frames, k)
  <2>1. \A r \in Registers \ {PC} : f.reg[r] = m.reg[r]
    BY <1>5, <1>6
  <2>2. Spared(f, Last(frames), k)
    BY <1>5, <2>1, SparedAlone DEF Serviced
  <2> QED
    BY <1>5, <1>7, <2>2 DEF Serviced, Served
<1>12. cpu_decode(NoLine) = Code[rom[k + 1]]
  BY <1>9 DEF cpu_decode, t
<1> QED
  BY <1>5, <1>10, <1>11, <1>12 DEF f, t

\* What the loop does with the word it fetched, for a line or none.
LEMMA Iterated ==
    ASSUME NEW line, Iterate(line), NEW k \in Serving, NEW fs,
           Fetches(line) => /\ Fetching(cpu_fetch(top(line)), k)
                            /\ Serviced(cpu_fetch(top(line)), fs, k)
                            /\ cpu_decode(line) = Code[rom[k + 1]],
           Standing, \A l \in Lines : m'.mem[entry(l)] = m.mem[entry(l)],
           k = 5 => \A l \in Lines : cpu_fetch(top(line)).mem[entry(l)] = m.mem[entry(l)]
    PROVE  /\ ~ Returning(line)
           /\ thread' = "loop" => (m'.panic = "OK" => OnItsWay(m', fs))
           /\ thread' = "trap" => /\ m'.panic = "OK" /\ m'.reg[PC] = rom_at(k + 1)
                                  /\ ins' \in Code[rom[k + 1]] /\ Serviced(m', fs, k)
           /\ thread' \in {"loop", "trap"}
<1> DEFINE f == cpu_fetch(top(line))
           T == [l \in Lines |-> m.mem[entry(l)]]
<1>1. ~ Returning(line)
  BY ServesPlainly DEF Returning
<1>2. CASE CannotFetch(line)
  BY <1>1, <1>2 DEF CannotFetch, Looping
<1>3. CASE NotImplemented(line)
  BY <1>1, <1>3 DEF NotImplemented, Fetches, Looping, Panicked
<1>4. ASSUME Fetches(line), NEW i \in cpu_decode(line), Execute(line, i)
      PROVE  thread' = "loop" /\ (m'.panic = "OK" => OnItsWay(m', fs))
  <2>1. thread' = "loop" /\ m' = op_call_traced(f, i)
    BY <1>4 DEF Execute, Fetches, Looping
  <2>2. Fetching(f, k) /\ Serviced(f, fs, k) /\ i \in Code[rom[k + 1]]
    BY <1>4
  <2>3. /\ \A j, l \in Lines : T[j] = T[l] => j = l
        /\ \A l \in Lines, j \in Serving : T[l] # rom_at(j)
        /\ \A l \in Lines : m'.mem[entry(l)] = T[l]
        /\ k = 5 => \A l \in Lines : f.mem[entry(l)] = T[l]
    BY DEF Standing
  <2> HIDE DEF f, T
  <2> QED
    BY <2>1, <2>2, <2>3, Serves
<1>5. ASSUME Fetches(line), NEW i \in cpu_decode(line), Trap(line, i)
      PROVE  /\ thread' = "trap" /\ m'.panic = "OK" /\ m'.reg[PC] = rom_at(k + 1)
             /\ ins' \in Code[rom[k + 1]] /\ Serviced(m', fs, k)
  <2>1. Fetching(f, k) /\ Serviced(f, fs, k) /\ i \in Code[rom[k + 1]]
    BY <1>5
  <2>2. m' = f /\ ins' = i /\ thread' = "trap"
    BY <1>5, <2>1, ServesPlainly DEF Trap
  <2> QED
    BY <2>1, <2>2 DEF Fetching
<1> QED
  BY <1>1, <1>2, <1>3, <1>4, <1>5 DEF Iterate

\* The debugger is left for the instruction it was called for.
LEMMA Resumed ==
    ASSUME CpuInv, Standing, NEW c, Debug(c), NEW k \in Serving, m.panic = "OK",
           m.reg[PC] = rom_at(k + 1), ins \in Code[rom[k + 1]], Serviced(m, frames, k),
           \A l \in Lines : m'.mem[entry(l)] = m.mem[entry(l)], m'.panic = "OK"
    PROVE  OnItsWay(m', frames)
<1> DEFINE s == [m EXCEPT !.running = (c = "step"), !.trap = (c # "continue")]
           T == [l \in Lines |-> m.mem[entry(l)]]
<1>1. s \in Decoded
  BY DebugType DEF Debug
<1>2. m \in Decoded
  BY LoopingDecoded DEF Debug
<1>3. s.reg = m.reg /\ s.mem = m.mem /\ s.ie = m.ie /\ s.panic = m.panic
  BY <1>2 DEF Decoded
<1>4. m' = op_call_traced(s, ins)
  BY DEF Debug
<1> HIDE DEF s
<1>5. Fetching(s, k)
  BY <1>1, <1>3, RomCode DEF Fetching, Standing
<1>6. Serviced(s, frames, k)
  BY <1>3, SparedAlone DEF Serviced, Served
<1>7. /\ \A j, l \in Lines : T[j] = T[l] => j = l
      /\ \A l \in Lines, j \in Serving : T[l] # rom_at(j)
      /\ \A l \in Lines : m'.mem[entry(l)] = T[l] /\ s.mem[entry(l)] = T[l]
  BY <1>3 DEF Standing
<1> HIDE DEF T
<1> QED
  BY <1>4, <1>5, <1>6, <1>7, Serves

\* An interrupt puts its frame on top, and the dispatcher on its way to its handler.
LEMMA InterruptedStep ==
    ASSUME SessionInv, DispatchInv, Interrupted, Discipline
    PROVE  DispatchInv'
<1>1. PICK line \in Lines : m.ie /\ Iteration(line)
  BY DEF Interrupted
<1>2. Iterate(line) /\ Standing /\ \A l \in Lines : m'.mem[entry(l)] = m.mem[entry(l)]
  BY <1>1 DEF Iteration, Discipline
<1>3. TypeOK /\ Looping /\ line # NoLine
  <2>1. line \in Nat
    <3>1. line \in Word
      BY CpuAssumption
    <3> QED
      BY <3>1, WordFacts
  <2>2. line # NoLine
    BY <2>1 DEF NoLine
  <2>3. Looping
    BY <1>2 DEF Iterate, CannotFetch, NotImplemented, Fetches
  <2> QED
    BY <2>2, <2>3 DEF SessionInv, CpuInv
<1> DEFINE x == frame(line)
           fs == Append(frames, x)
<1>4. x.line = line
  BY DEF frame
<1>5. PICK S : frames \in Seq(S)
  BY DEF DispatchInv
<1> HIDE DEF x
<1>6. fs # <<>> /\ Last(fs) = x /\ fs \in Seq(S \union {x})
  <2>1. frames \in Seq(S \union {x}) /\ x \in S \union {x}
    BY <1>5
  <2> QED
    BY <2>1 DEF Last
<1> HIDE DEF fs
<1>7. 2 \in Serving /\ 2 # 5 /\ 2 + 1 = 3
  BY DEF Serving
<1>8. Fetches(line) => /\ Fetching(cpu_fetch(top(line)), 2)
                       /\ Serviced(cpu_fetch(top(line)), fs, 2)
                       /\ cpu_decode(line) = Code[rom[2 + 1]]
  BY <1>1, <1>2, <1>3, <1>4, <1>6, <1>7, Entered DEF Serviced, x
<1>9. /\ ~ Returning(line)
      /\ thread' = "loop" => (m'.panic = "OK" => OnItsWay(m', fs))
      /\ thread' = "trap" => /\ m'.panic = "OK" /\ m'.reg[PC] = rom_at(2 + 1)
                             /\ ins' \in Code[rom[2 + 1]] /\ Serviced(m', fs, 2)
      /\ thread' \in {"loop", "trap"}
  BY <1>2, <1>7, <1>8, Iterated
<1>10. frames' = fs
  BY <1>1, <1>3, <1>9 DEF Iteration, fs, x
<1>11. CASE thread' = "loop"
  BY <1>6, <1>9, <1>10, <1>11 DEF DispatchInv, RightHandler, OnItsWay, Looping
<1>12. CASE thread' = "trap"
  <2>1. \A k \in Serving : k + 1 \in 0 .. 14 /\ 3 \in 0 .. 14 /\ (k + 1 = 3 => k = 2)
    BY DEF Serving
  <2>2. \A k \in Serving : m'.reg[PC] = rom_at(k + 1) => k = 2
    BY <1>7, <1>9, <1>12, <2>1, RomPlaces
  <2> QED
    BY <1>6, <1>9, <1>10, <1>12, <2>2 DEF DispatchInv, RightHandler, Looping
<1> QED
  BY <1>9, <1>11, <1>12

\* A step of the dispatcher that no interrupt precedes.
LEMMA InsideStep ==
    ASSUME SessionInv, DispatchInv, [StartupNext]_startupVars, ~ Interrupted, Inside, Discipline
    PROVE  DispatchInv'
<1>1. CpuInv /\ Standing /\ \A l \in Lines : m'.mem[entry(l)] = m.mem[entry(l)]
  BY DEF SessionInv, Discipline
<1>2. \E U : frames' \in Seq(U)
  BY FramesStep DEF DispatchInv
<1>s. \A k \in Serving : k \in 0 .. 14 /\ k + 1 \in 0 .. 14
  BY DEF Serving
<1>a. \A j, k \in Serving : rom_at(j + 1) = rom_at(k + 1) => j = k
  <2> TAKE j, k \in Serving
  <2>1. rom_at(j + 1) = rom_at(k + 1) => j + 1 = k + 1
    BY <1>s, RomPlaces
  <2> QED
    BY <1>s, <2>1
<1>3. CASE Iteration(NoLine)
  <2>1. Iterate(NoLine) /\ Looping
    BY <1>3 DEF Iteration, Iterate, CannotFetch, NotImplemented, Fetches
  <2>2. PICK k \in Serving : m.reg[PC] = rom_at(k)
    BY <2>1 DEF Inside, At, Looping
  <2>3. Serviced(m, frames, k)
    BY <2>1, <2>2 DEF DispatchInv, Looping
  <2>4. /\ Fetching(cpu_fetch(top(NoLine)), k) /\ Serviced(cpu_fetch(top(NoLine)), frames, k)
        /\ cpu_fetch(top(NoLine)).mem = m.mem /\ cpu_decode(NoLine) = Code[rom[k + 1]]
    BY <1>1, <2>1, <2>2, <2>3, Continued
  <2>5. /\ ~ Returning(NoLine)
        /\ thread' = "loop" => (m'.panic = "OK" => OnItsWay(m', frames))
        /\ thread' = "trap" => /\ m'.panic = "OK" /\ m'.reg[PC] = rom_at(k + 1)
                               /\ ins' \in Code[rom[k + 1]] /\ Serviced(m', frames, k)
        /\ thread' \in {"loop", "trap"}
    BY <1>1, <2>1, <2>4, Iterated
  <2>6. frames' = frames
    BY <1>3, <2>5 DEF Iteration
  <2>7. CASE thread' = "loop"
    BY <1>2, <2>5, <2>6, <2>7 DEF DispatchInv, RightHandler, OnItsWay, Looping
  <2>8. CASE thread' = "trap"
    <3>1. \A j \in Serving : m'.reg[PC] = rom_at(j + 1) => j = k
      BY <1>a, <2>5, <2>8
    <3> QED
      BY <1>2, <2>5, <2>6, <2>8, <3>1 DEF DispatchInv, RightHandler, Looping
  <2> QED
    BY <2>5, <2>7, <2>8
<1>4. ASSUME NEW c \in Commands, Debugged(c) PROVE DispatchInv'
  <2>1. Debug(c) /\ thread = "trap" /\ thread' = "loop"
    BY <1>4 DEF Debugged, Debug
  <2>2. PICK k \in Serving : m.reg[PC] = rom_at(k + 1)
    BY <2>1 DEF Inside, At
  <2>3. m.panic = "OK" /\ ins \in Code[rom[k + 1]] /\ Serviced(m, frames, k)
    BY <2>1, <2>2 DEF DispatchInv
  <2>4. frames' = frames
    BY <1>4, <2>3, ServesPlainly DEF Debugged
  <2>5. m'.panic = "OK" => OnItsWay(m', frames)
    BY <1>1, <2>1, <2>2, <2>3, Resumed
  <2> QED
    BY <1>2, <2>1, <2>4, <2>5 DEF DispatchInv, RightHandler, OnItsWay, Looping
<1>5. CASE thread' \notin {"loop", "trap"}
  BY <1>2, <1>5 DEF DispatchInv, RightHandler, Looping
<1>6. CASE thread = "idle"
  BY <1>6 DEF Inside, At
<1>7. CASE UNCHANGED <<thread, ins, frames>> /\ m' \in {m, [m EXCEPT !.running = FALSE]}
  <2>1. /\ m'.reg = m.reg /\ m'.mem = m.mem /\ m'.ie = m.ie /\ m'.panic = m.panic
        /\ m' = m \/ ~ m'.running
    BY <1>1, <1>7 DEF CpuInv, TypeOK, Machine
  <2>2. \A k : Serviced(m, frames, k) => Serviced(m', frames, k)
    BY <2>1, SparedAlone DEF Serviced, Served
  <2> QED
    BY <1>2, <1>7, <2>1, <2>2 DEF DispatchInv, RightHandler, Looping
<1> QED
  BY <1>3, <1>4, <1>5, <1>6, <1>7, Uninterrupted

\* A step of the program, a handler among it.
LEMMA OutsideStep ==
    ASSUME SessionInv, DispatchInv, [StartupNext]_startupVars, ~ Interrupted, ~ Inside, Discipline
    PROVE  DispatchInv'
<1>1. CpuInv /\ Outside
  BY DEF SessionInv, Discipline
<1>2. \E U : frames' \in Seq(U)
  BY FramesStep DEF DispatchInv
\* The program counter of a machine the debugger is called for is not in the dispatcher.
<1>3. ASSUME thread' = "trap", NEW k \in Serving, m'.reg[PC] = rom_at(k + 1)
      PROVE  FALSE
  <2>1. CASE Iteration(NoLine)
    <3> DEFINE f == cpu_fetch(top(NoLine))
    <3>1. PICK i : Looping /\ Trap(NoLine, i)
      BY <1>3, <2>1 DEF Iteration, Iterate, CannotFetch, NotImplemented, Fetches, Execute, Looping
    <3>2. m \in Decoded /\ m.reg \in [Registers -> Word]
      BY <1>1, <3>1, LoopingDecoded, MachineFields
    <3>3. top(NoLine) \in Decoded /\ top(NoLine).reg = m.reg
      BY <3>2 DEF top, Decoded
    <3>4. f \in Decoded /\ f.reg = [m.reg EXCEPT ![PC] = (@ + WORD_SIZE) % Modulus]
      BY <3>3, FetchType
    <3>5. m' = f \/ m' = load(f, f.reg[PC])
      BY <3>1 DEF Trap, cpu_instruction_to_string
    <3> HIDE DEF f
    <3>6. m'.reg = f.reg
      BY <3>4, <3>5, LoadType
    <3>7. m'.reg[PC] = (m.reg[PC] + WORD_SIZE) % Modulus
      BY <3>2, <3>4, <3>6, RegistersApart
    <3>8. k \in 0 .. 13 /\ rom_at(k) \in Word /\ (rom_at(k) + WORD_SIZE) % Modulus = rom_at(k + 1)
      BY RomPlaces DEF Serving
    <3>9. m.reg[PC] \in Word
      BY <3>2, MachineFields
    <3>10. m.reg[PC] = rom_at(k)
      BY <1>3, <3>7, <3>8, <3>9, UpAndDown
    <3> QED
      BY <3>1, <3>10 DEF Inside, At, Looping
  <2>2. ~ (\E c \in Commands : Debugged(c)) /\ ~ (thread' \notin {"loop", "trap"})
    BY <1>3 DEF Debugged, Debug
  <2>3. CASE thread = "idle" /\ ~ Iteration(NoLine)
    <3>1. thread' # "trap"
      BY <2>3 DEF StartupNext, startupVars, Helps, Fails, Starts, Running, main_ends, vars,
             StartLoop, LeaveLoop, cpu_stop, Resumes, Debugged, Debug, Answers, InputEnds,
             Iteration, Iterate, CannotFetch, NotImplemented, Fetches, Looping
    <3> QED
      BY <1>3, <3>1
  <2>4. CASE UNCHANGED <<thread, ins, frames>> /\ m' \in {m, [m EXCEPT !.running = FALSE]}
    <3>1. m'.reg = m.reg
      BY <1>1, <2>4 DEF CpuInv, TypeOK, Machine
    <3> QED
      BY <1>3, <2>4, <3>1 DEF Inside, At
  <2> QED
    BY <2>1, <2>2, <2>3, <2>4, Uninterrupted
\* Nor is one the loop goes on with.
<1>4. CASE thread' = "loop" /\ ~ UNCHANGED <<thread, frames>>
  BY <1>1, <1>2, <1>3, <1>4 DEF Outside, DispatchInv, RightHandler, Looping
<1>5. CASE thread' = "loop" /\ ~ (m'.reg = m.reg /\ m'.mem = m.mem /\ m'.ie = m.ie)
  BY <1>1, <1>2, <1>3, <1>5 DEF Outside, DispatchInv, RightHandler, Looping
<1>6. CASE /\ thread' = "loop" /\ UNCHANGED <<thread, frames>>
           /\ m'.reg = m.reg /\ m'.mem = m.mem /\ m'.ie = m.ie
  <2>1. \A k \in Serving : m'.reg[PC] # rom_at(k)
    BY <1>6 DEF Inside, At
  <2>2. Looping' => Looping
    <3>1. CASE Iteration(NoLine)
      BY <3>1 DEF Iteration, Iterate, CannotFetch, NotImplemented, Fetches
    <3>2. ~ (\E c \in Commands : Debugged(c)) /\ thread # "idle"
      BY <1>6 DEF Debugged, Debug
    <3>3. CASE UNCHANGED <<thread, ins, frames>> /\ m' \in {m, [m EXCEPT !.running = FALSE]}
      BY <1>1, <3>3 DEF CpuInv, TypeOK, Machine, Looping
    <3> QED
      BY <1>6, <3>1, <3>2, <3>3, Uninterrupted
  <2> QED
    BY <1>2, <1>6, <2>1, <2>2 DEF DispatchInv, RightHandler, Called
<1>7. CASE thread' # "loop"
  BY <1>2, <1>3, <1>7 DEF DispatchInv, RightHandler, Looping
<1> QED
  BY <1>4, <1>5, <1>6, <1>7

LEMMA DispatchStep ==
    SessionInv /\ DispatchInv /\ [StartupNext]_startupVars /\ [Discipline]_dispatchVars
      => DispatchInv'
<1>1. CASE UNCHANGED dispatchVars
  BY <1>1 DEF dispatchVars, DispatchInv, RightHandler, Looping, Serviced, Served
<1>2. CASE Discipline
  BY <1>2, InterruptedStep, InsideStep, OutsideStep
<1> QED
  BY <1>1, <1>2

\* A handler runs for the interrupt that was delivered, and is called with what the program
\* had, whatever the program, its handlers and the lines: if they leave the dispatcher what it needs, and nothing else starts a
\* handler (rom.a, cpu.c).
THEOREM RightHandlerHolds == StartupSpec /\ Disciplined => []RightHandler
<1>1. StartupInit => DispatchInv
  <2> SUFFICES ASSUME StartupInit PROVE DispatchInv
    OBVIOUS
  <2>1. frames = <<>> /\ thread = "idle"
    BY DEF StartupInit
  <2>2. frames \in Seq({})
    BY <2>1
  <2> QED
    BY <2>1, <2>2 DEF DispatchInv, RightHandler, Looping
<1>2. DispatchInv => RightHandler
  BY DEF DispatchInv
<1>3. Disciplined <=> [][Discipline /\ Giving]_dispatchVars
  BY DEF Disciplined
<1>4. [Discipline /\ Giving]_dispatchVars => [Discipline]_dispatchVars
  OBVIOUS
<1> QED
  BY <1>1, <1>2, <1>3, <1>4, DispatchStep, SessionInvariant, PTL DEF StartupSpec

(***************************************************************************)
(* The end of an interrupt.                                                *)
(***************************************************************************)
\* What the dispatcher's IRET finds.
Restored(s, f) ==
    LET sp == s.reg[SP]
    IN  /\ \A r \in Registers \ {IR, SP, PC} : s.reg[r] = f.reg[r]
        /\ \A a \in DOMAIN f.stack : s.mem[a] = f.stack[a]
        /\ sp \in StackArea /\ f.reg[SP] = sp + WORD_SIZE /\ s.mem[sp] = f.reg[PC]

\* What the word k of the dispatcher, its POP or its IRET, finds.
Left(s, f, k) == IF k = 6 THEN GivenBack(s, f) ELSE Restored(s, f)

\* A frame, as the machine it is of.
saved(f) == [reg |-> f.reg, mem |-> f.stack]

\* The frame of an interrupt, and what it says of the one below if the dispatcher itself
\* was interrupted.
Nested(fs) ==
    /\ \E S : fs \in Seq(S)
    /\ \A j \in DOMAIN fs :
         /\ fs[j].reg \in [Registers -> Word]
         /\ DOMAIN fs[j].stack = {a \in StackArea : a >= fs[j].reg[SP]}
         /\ \A k \in {6, 7} :
              fs[j].reg[PC] = rom_at(k) => j > 1 /\ Left(saved(fs[j]), fs[j - 1], k)

\* The inductive invariant.
LeavesInv ==
    /\ Nested(frames)
    /\ \A k \in {6, 7} :
         At(k) /\ m.panic = "OK" => frames # <<>> /\ Left(m, Last(frames), k)
    /\ \A k \in {6, 7} :
         At(k) /\ thread = "trap" => m.panic = "OK" /\ ins \in Code[rom[k + 1]]

\* What the dispatcher executes after a handler.
LEMMA LeavesCode ==
    /\ Code[rom[7]] = {instruction("POP", "R", <<0>>)}
    /\ Code[rom[8]] = {instruction("IRET", "", <<>>)}
<1>1. rom[7] = word("POP", "R", <<0>>) /\ rom[8] = word("IRET", "", <<>>)
  BY DEF rom
<1>2. /\ Code[word("POP", "R", <<0>>)] = {instruction("POP", "R", <<0>>)}
      /\ Code[word("IRET", "", <<>>)] = {instruction("IRET", "", <<>>)}
  BY DispatchAssumption, Encodes, Zenon
<1> QED
  BY <1>1, <1>2

\* The program counter and what stands outside the registers and the memory do not matter.
LEMMA LeftAlone ==
    ASSUME NEW s, NEW t, NEW f, NEW k, Left(s, f, k), t.mem = s.mem,
           \A r \in Registers \ {IR, PC} : t.reg[r] = s.reg[r]
    PROVE  Left(t, f, k)
<1>1. SP \in Registers \ {IR, PC} /\ 0 \in Registers \ {IR, PC}
  BY RegistersApart
<1>2. t.reg[SP] = s.reg[SP]
  BY <1>1
<1> QED
  BY <1>2 DEF Left, GivenBack, Restored

\* POP gives the program its r0 back.
LEMMA LeavesPop ==
    ASSUME NEW s \in Decoded, s.panic = "OK", NEW f, GivenBack(s, f), NEW i \in Code[rom[7]]
    PROVE  LET t == op_call_traced(s, i)
           IN  /\ Restored(t, f) /\ t.reg[PC] = s.reg[PC]
               /\ i.op # "IRET" /\ cpu_instruction_to_string(s, i) = s
<1> DEFINE rs == <<0>>
           t == op_call_traced(s, i)
           a == s.reg[SP]
           q == [s EXCEPT !.reg[SP] = a + WORD_SIZE]
           v == s.mem[a]
<1>0. DOMAIN rs = 1 .. 1 /\ rs[1] = 0
  OBVIOUS
<1>1. i = instruction("POP", "R", rs)
  BY LeavesCode
<1> HIDE DEF rs
<1>2. i.op = "POP" /\ i.form = "R" /\ i.r = rs
  BY <1>1 DEF instruction
<1>3. i.op # "IRET" /\ ~ printed_operand(i)
  BY <1>2 DEF printed_operand
<1>4. t = op_pop(s, rs)
  <2>1. t = ops(s, i)
    BY <1>3, Untraced
  <2> QED
    BY <1>2, <2>1 DEF ops, Arithmetic
<1>5. PICK h : PopRun(h, s, rs, 1)
  BY <1>0, PopTrace
<1>6. t = pop_register(s, 0)
  BY <1>0, <1>4, <1>5 DEF PopRun
<1>7. /\ a \in StackArea /\ a + WORD_SIZE \in StackArea /\ f.reg[SP] = a + WORD_SIZE + WORD_SIZE
      /\ v = f.reg[0] /\ s.mem[a + WORD_SIZE] = f.reg[PC]
      /\ \A r \in Registers \ {0, IR, SP, PC} : s.reg[r] = f.reg[r]
      /\ \A b \in DOMAIN f.stack : s.mem[b] = f.stack[b]
  BY DEF GivenBack
<1>8. a \in Readable /\ a + WORD_SIZE \in Word
  BY <1>7, DispatchAssumption, CpuAssumption
<1>9. (a + WORD_SIZE) % Modulus = a + WORD_SIZE
  BY <1>8, WordFacts
<1>10. t = cpu_register_set(q, 0, v)
  BY <1>6, <1>8, <1>9 DEF pop_register
<1>11. s.reg \in [Registers -> Word] /\ v \in Word
  BY <1>8, MachineFields
<1>12. q \in Decoded /\ q.reg = [s.reg EXCEPT ![SP] = a + WORD_SIZE] /\ q.mem = s.mem
  BY <1>8, RegisterType, RegistersApart
<1> HIDE DEF q, v, t, a
<1>13. t.reg = [q.reg EXCEPT ![0] = v] /\ t.mem = s.mem
  BY <1>10, <1>11, <1>12, RegisterSet, RegistersApart
<1>14. /\ t.reg[SP] = a + WORD_SIZE /\ t.reg[PC] = s.reg[PC] /\ t.reg[0] = v
       /\ \A r \in Registers \ {0, IR, SP, PC} : t.reg[r] = s.reg[r]
  BY <1>8, <1>11, <1>12, <1>13, RegistersApart
<1>15. \A r \in Registers \ {IR, SP, PC} : t.reg[r] = f.reg[r]
  BY <1>7, <1>14
<1>16. Restored(t, f)
  BY <1>7, <1>13, <1>14, <1>15 DEF Restored
<1> QED
  BY <1>3, <1>14, <1>16 DEF t, cpu_instruction_to_string

\* IRET takes the program back to where it was.
LEMMA LeavesReturn ==
    ASSUME NEW s \in Decoded, s.panic = "OK", NEW f, f.reg[SP] \in Word, Restored(s, f),
           NEW i \in Code[rom[8]]
    PROVE  LET t == op_call_traced(s, i)
           IN  /\ \A r \in Registers \ {IR} : t.reg[r] = f.reg[r]
               /\ t.mem = s.mem /\ t.ie
               /\ i.op = "IRET" /\ cpu_instruction_to_string(s, i) = s
<1> DEFINE t == op_call_traced(s, i)
           a == s.reg[SP]
           v == s.mem[a]
           j == jump(s, v)
           u == [j EXCEPT !.reg[SP] = a + WORD_SIZE]
<1>1. i = instruction("IRET", "", <<>>)
  BY LeavesCode
<1>2. i.op = "IRET" /\ i.form = ""
  BY <1>1 DEF instruction
<1>3. ~ printed_operand(i)
  BY <1>2 DEF printed_operand
<1>4. t = op_iret(s)
  <2>1. t = ops(s, i)
    BY <1>3, Untraced
  <2> QED
    BY <1>2, <2>1 DEF ops, Arithmetic
<1>5. /\ a \in StackArea /\ f.reg[SP] = a + WORD_SIZE /\ v = f.reg[PC]
      /\ \A r \in Registers \ {IR, SP, PC} : s.reg[r] = f.reg[r]
  BY DEF Restored
<1>6. a \in Readable /\ a + WORD_SIZE \in Word /\ (a + WORD_SIZE) % Modulus = a + WORD_SIZE
  BY <1>5, DispatchAssumption, WordFacts
<1>7. s.reg \in [Registers -> Word] /\ v \in Word
  BY <1>6, MachineFields
<1>8. j \in Decoded /\ j.reg = [s.reg EXCEPT ![PC] = v] /\ j.mem = s.mem /\ j.panic = "OK"
  BY <1>7, Jumped
<1>9. op_ret(s) = u
  BY <1>6 DEF op_ret, load, Then
<1> HIDE DEF j, v
<1>10. u \in Decoded /\ u.reg = [j.reg EXCEPT ![SP] = a + WORD_SIZE] /\ u.mem = j.mem /\ u.panic = "OK"
  BY <1>6, <1>8, RegisterType, RegistersApart
<1> HIDE DEF u, a
<1>11. t = [u EXCEPT !.ie = TRUE]
  BY <1>4, <1>9, <1>10 DEF op_iret, Then
<1> HIDE DEF t
<1>12. t.reg = u.reg /\ t.mem = s.mem /\ t.ie
  BY <1>8, <1>10, <1>11 DEF Decoded
<1>13. /\ t.reg[SP] = f.reg[SP] /\ t.reg[PC] = f.reg[PC]
       /\ \A r \in Registers \ {IR, SP, PC} : t.reg[r] = s.reg[r]
  BY <1>5, <1>6, <1>7, <1>8, <1>10, <1>12, RegistersApart
<1>14. \A r \in Registers \ {IR} : t.reg[r] = f.reg[r]
  BY <1>5, <1>13
<1> QED
  BY <1>2, <1>3, <1>12, <1>14 DEF t, cpu_instruction_to_string

\* What a frame keeps of the machine is all that the frame below needs.
LEMMA LeftBelow ==
    ASSUME NEW s, NEW t, NEW f, NEW k \in {6, 7}, Left(s, f, k),
           s.reg[SP] \in Word, f.reg[SP] \in Word,
           DOMAIN f.stack = {a \in StackArea : a >= f.reg[SP]},
           \A r \in Registers \ {IR} : t.reg[r] = s.reg[r],
           \A a \in StackArea : a >= s.reg[SP] => t.mem[a] = s.mem[a]
    PROVE  Left(t, f, k)
<1>1. SP \in Registers \ {IR} /\ \A r \in Registers \ {IR, SP, PC} : r \in Registers \ {IR}
  BY RegistersApart
<1>2. t.reg[SP] = s.reg[SP]
  BY <1>1
<1>3. /\ s.reg[SP] \in Nat /\ f.reg[SP] \in Nat /\ WORD_SIZE \in Nat
      /\ \A a \in StackArea : a \in Nat
  <2>1. StackArea \subseteq Word
    BY DispatchAssumption, CpuAssumption, Zenon
  <2>2. \A a \in Word : a \in Nat
    BY WordFacts
  <2> QED
    BY <2>1, <2>2, WordFacts
<1>4. CASE k = 6
  <2> DEFINE a == s.reg[SP]
             b == s.reg[SP] + WORD_SIZE
  <2>1. /\ GivenBack(s, f) /\ a \in StackArea /\ b \in StackArea
        /\ f.reg[SP] = b + WORD_SIZE
    BY <1>4 DEF Left, GivenBack
  <2>2. f.reg[SP] >= a /\ a >= a /\ b >= a
    BY <1>3, <2>1
  <2>3. \A c \in DOMAIN f.stack : c \in StackArea /\ c >= a
    BY <1>3, <2>2
  <2>4. \A c \in DOMAIN f.stack : t.mem[c] = s.mem[c]
    BY <2>3
  <2>5. t.mem[a] = s.mem[a] /\ t.mem[b] = s.mem[b]
    BY <2>1, <2>2
  <2> QED
    BY <1>2, <1>4, <2>1, <2>4, <2>5 DEF Left, GivenBack
<1>5. CASE k = 7
  <2> DEFINE a == s.reg[SP]
  <2>1. Restored(s, f) /\ a \in StackArea /\ f.reg[SP] = a + WORD_SIZE
    BY <1>5 DEF Left, Restored
  <2>2. f.reg[SP] >= a /\ a >= a
    BY <1>3, <2>1
  <2>3. \A c \in DOMAIN f.stack : t.mem[c] = s.mem[c]
    BY <1>3, <2>2
  <2>4. t.mem[a] = s.mem[a]
    BY <2>1, <2>2
  <2> QED
    BY <1>2, <1>5, <2>1, <2>3, <2>4 DEF Left, Restored
<1> QED
  BY <1>4, <1>5

\* An interrupt puts a frame on top.
LEMMA FrameOnTop ==
    ASSUME Nested(frames), NEW line \in Lines, m \in Decoded,
           \A k \in {6, 7} :
             m.reg[PC] = rom_at(k) => frames # <<>> /\ Left(m, Last(frames), k)
    PROVE  Nested(Append(frames, frame(line)))
<1> DEFINE x == frame(line)
           fs == Append(frames, x)
<1>1. m.reg \in [Registers -> Word] /\ m.reg[SP] \in Word /\ line \in Word
  BY MachineFields, CpuAssumption
<1>2. /\ x.reg \in [Registers -> Word] /\ \A r \in Registers \ {IR} : x.reg[r] = m.reg[r]
      /\ DOMAIN x.stack = {a \in StackArea : a >= m.reg[SP]}
      /\ \A a \in StackArea : a >= m.reg[SP] => x.stack[a] = m.mem[a]
  BY <1>1 DEF frame
<1>3. x.reg[SP] = m.reg[SP] /\ x.reg[PC] = m.reg[PC]
  BY <1>2, RegistersApart
<1> HIDE DEF x
<1>4. PICK S : frames \in Seq(S)
  BY DEF Nested
<1>5. /\ fs \in Seq(S \union {x}) /\ DOMAIN frames = 1 .. Len(frames) /\ Len(frames) \in Nat
      /\ DOMAIN fs = 1 .. Len(frames) + 1 /\ fs[Len(frames) + 1] = x
      /\ \A j \in 1 .. Len(frames) : fs[j] = frames[j]
  <2>1. frames \in Seq(S \union {x}) /\ x \in S \union {x}
    BY <1>4
  <2> QED
    BY <2>1
<1> HIDE DEF fs
<1>6. ASSUME NEW k \in {6, 7}, m.reg[PC] = rom_at(k)
      PROVE  Len(frames) + 1 > 1 /\ Left(saved(x), frames[Len(frames)], k)
  <2> DEFINE f == frames[Len(frames)]
  <2>1. frames # <<>> /\ Left(m, f, k)
    BY <1>6 DEF Last
  <2>2. Len(frames) \in DOMAIN frames /\ Len(frames) > 0
    BY <1>4, <1>5, <2>1
  <2>3. f.reg \in [Registers -> Word] /\ DOMAIN f.stack = {a \in StackArea : a >= f.reg[SP]}
    BY <2>2 DEF Nested
  <2>4. f.reg[SP] \in Word
    BY <2>3, RegistersApart
  <2> HIDE DEF f
  <2> DEFINE y == saved(x)
  <2>5. /\ \A r \in Registers \ {IR} : y.reg[r] = m.reg[r]
        /\ \A a \in StackArea : a >= m.reg[SP] => y.mem[a] = m.mem[a]
    BY <1>2 DEF saved
  <2> HIDE DEF y
  <2>a. DOMAIN f.stack = {a \in StackArea : a >= f.reg[SP]} /\ Left(m, f, k)
    BY <2>1, <2>3
  <2>6. Left(y, f, k)
    BY <1>1, <2>a, <2>4, <2>5, LeftBelow, Zenon
  <2> QED
    BY <1>5, <2>2, <2>6 DEF f, y
<1>7. ASSUME NEW j \in DOMAIN fs
      PROVE  /\ fs[j].reg \in [Registers -> Word]
             /\ DOMAIN fs[j].stack = {a \in StackArea : a >= fs[j].reg[SP]}
             /\ \A k \in {6, 7} :
                  fs[j].reg[PC] = rom_at(k) => j > 1 /\ Left(saved(fs[j]), fs[j - 1], k)
  <2>1. CASE j = Len(frames) + 1
    <3>1. fs[j] = x
      BY <1>5, <2>1
    <3>2. ASSUME NEW k \in {6, 7}, x.reg[PC] = rom_at(k)
          PROVE  j > 1 /\ Left(saved(x), fs[j - 1], k)
      <4>1. j > 1 /\ Left(saved(x), frames[Len(frames)], k)
        BY <1>3, <1>6, <2>1, <3>2
      <4>2. j - 1 = Len(frames) /\ Len(frames) \in 1 .. Len(frames)
        BY <1>5, <2>1, <4>1
      <4> QED
        BY <1>5, <4>1, <4>2
    <3> QED
      BY <1>2, <1>3, <3>1, <3>2
  <2>2. CASE j # Len(frames) + 1
    <3>1. j \in 1 .. Len(frames)
      BY <1>5, <2>2
    <3>2. fs[j] = frames[j] /\ (j > 1 => fs[j - 1] = frames[j - 1])
      BY <1>5, <3>1
    <3> QED
      BY <1>5, <3>1, <3>2 DEF Nested
  <2> QED
    BY <2>1, <2>2
<1> QED
  BY <1>5, <1>7 DEF Nested, fs, x

\* The end of an interrupt takes one away, and the machine is the one it is of.
LEMMA FrameTaken ==
    ASSUME NEW fs, Nested(fs), fs # <<>>, NEW t,
           \A r \in Registers \ {IR} : t.reg[r] = Last(fs).reg[r],
           \A a \in DOMAIN Last(fs).stack : t.mem[a] = Last(fs).stack[a]
    PROVE  /\ Nested(Front(fs))
           /\ \A k \in {6, 7} :
                t.reg[PC] = rom_at(k) => Front(fs) # <<>> /\ Left(t, Last(Front(fs)), k)
<1> DEFINE n == Len(fs)
           gs == Front(fs)
<1>1. PICK S : fs \in Seq(S)
  BY DEF Nested
<1>2. n \in Nat \ {0} /\ DOMAIN fs = 1 .. n
  BY <1>1
<1>3. /\ gs \in Seq(S) /\ Len(gs) = n - 1 /\ DOMAIN gs = 1 .. n - 1
      /\ \A j \in 1 .. n - 1 : gs[j] = fs[j]
  BY <1>1, <1>2 DEF Front
<1>4. Last(fs) = fs[n] /\ n \in DOMAIN fs
  BY <1>2 DEF Last
<1> HIDE DEF n, gs
<1>5. Nested(gs)
  <2>1. ASSUME NEW j \in DOMAIN gs
        PROVE  j \in DOMAIN fs /\ gs[j] = fs[j] /\ (j > 1 => gs[j - 1] = fs[j - 1])
    BY <1>2, <1>3
  <2> QED
    BY <1>3, <2>1 DEF Nested
<1>6. ASSUME NEW k \in {6, 7}, t.reg[PC] = rom_at(k) PROVE gs # <<>> /\ Left(t, Last(gs), k)
  <2> DEFINE x == fs[n]
             f == fs[n - 1]
  <2>1. x.reg[PC] = rom_at(k)
    BY <1>4, <1>6, RegistersApart
  <2>2. n > 1 /\ Left(saved(x), f, k)
    BY <1>4, <2>1 DEF Nested
  <2>3. n - 1 \in DOMAIN fs /\ n - 1 \in 1 .. n - 1
    BY <1>2, <2>2
  <2>4. /\ x.reg \in [Registers -> Word] /\ DOMAIN x.stack = {a \in StackArea : a >= x.reg[SP]}
        /\ f.reg \in [Registers -> Word] /\ DOMAIN f.stack = {a \in StackArea : a >= f.reg[SP]}
    BY <1>4, <2>3 DEF Nested
  <2>5. x.reg[SP] \in Word /\ f.reg[SP] \in Word
    BY <2>4, RegistersApart
  <2>6. Last(gs) = f /\ gs # <<>>
    BY <1>3, <2>2, <2>3 DEF Last
  <2> HIDE DEF f
  <2>7. /\ \A r \in Registers \ {IR} : t.reg[r] = x.reg[r]
        /\ \A a \in StackArea : a >= x.reg[SP] => t.mem[a] = x.stack[a]
    BY <1>4, <2>4
  <2> HIDE DEF x
  <2> DEFINE y == saved(x)
  <2>8. /\ \A r \in Registers \ {IR} : t.reg[r] = y.reg[r]
        /\ \A a \in StackArea : a >= y.reg[SP] => t.mem[a] = y.mem[a]
        /\ y.reg[SP] \in Word /\ Left(y, f, k)
    BY <2>2, <2>5, <2>7 DEF saved
  <2>a. DOMAIN f.stack = {a \in StackArea : a >= f.reg[SP]}
    BY <2>4
  <2> HIDE DEF y
  <2>9. Left(t, f, k)
    BY <2>5, <2>8, <2>a, LeftBelow, Zenon
  <2> QED
    BY <2>6, <2>9
<1> QED
  BY <1>5, <1>6, Zenon DEF gs

\* The dispatcher's POP, and its IRET, which takes the frame on top away.
LEMMA Leaves ==
    ASSUME Nested(frames), frames # <<>>, NEW k \in {6, 7}, NEW s \in Decoded, s.panic = "OK",
           s.reg[PC] = rom_at(k + 1), Left(s, Last(frames), k), NEW i \in Code[rom[k + 1]],
           NEW t, t = op_call_traced(s, i),
           NEW fs, fs = IF i.op = "IRET" /\ frames # <<>> THEN Front(frames) ELSE frames
    PROVE  /\ i.op = "IRET" <=> k = 7
           /\ cpu_instruction_to_string(s, i) = s
           /\ Nested(fs)
           /\ \A j \in {6, 7} : t.reg[PC] = rom_at(j) => fs # <<>> /\ Left(t, Last(fs), j)
           /\ k = 7 => /\ \A r \in Registers \ {IR} : t.reg[r] = Last(frames).reg[r]
                       /\ \A a \in DOMAIN Last(frames).stack : t.mem[a] = Last(frames).stack[a]
                       /\ t.ie
<1> DEFINE f == Last(frames)
<1>1. f.reg[SP] \in Word
  <2>1. PICK S : frames \in Seq(S)
    BY DEF Nested
  <2>2. Len(frames) \in DOMAIN frames
    BY <2>1
  <2>3. f.reg \in [Registers -> Word]
    BY <2>2 DEF Nested, Last
  <2> QED
    BY <2>3, RegistersApart
<1>2. Left(s, f, k)
  OBVIOUS
<1> HIDE DEF f
<1>3. CASE k = 6
  <2>1. rom[k + 1] = rom[7] /\ rom_at(k + 1) = rom_at(7) /\ GivenBack(s, f)
    BY <1>2, <1>3 DEF Left
  <2>2. /\ Restored(t, f) /\ t.reg[PC] = rom_at(7)
        /\ i.op # "IRET" /\ cpu_instruction_to_string(s, i) = s
    BY <2>1, LeavesPop
  <2>3. \A j \in {6, 7} : t.reg[PC] = rom_at(j) => j = 7
    <3>1. 6 \in 0 .. 14 /\ 7 \in 0 .. 14
      OBVIOUS
    <3> QED
      BY <2>2, <3>1, RomPlaces
  <2>4. fs = frames
    BY <2>2
  <2>5. Left(t, f, 7)
    BY <2>2 DEF Left
  <2> QED
    BY <1>3, <2>2, <2>3, <2>4, <2>5 DEF f
<1>4. CASE k = 7
  <2>1. rom[k + 1] = rom[8] /\ Restored(s, f)
    BY <1>2, <1>4 DEF Left
  <2>2. /\ \A r \in Registers \ {IR} : t.reg[r] = f.reg[r]
        /\ t.mem = s.mem /\ t.ie
        /\ i.op = "IRET" /\ cpu_instruction_to_string(s, i) = s
    BY <1>1, <2>1, LeavesReturn
  <2>3. fs = Front(frames)
    BY <2>2
  <2>4. \A a \in DOMAIN f.stack : t.mem[a] = f.stack[a]
    BY <2>1, <2>2 DEF Restored
  <2>5. /\ Nested(fs)
        /\ \A j \in {6, 7} : t.reg[PC] = rom_at(j) => fs # <<>> /\ Left(t, Last(fs), j)
    <3>1. /\ \A r \in Registers \ {IR} : t.reg[r] = Last(frames).reg[r]
          /\ \A a \in DOMAIN Last(frames).stack : t.mem[a] = Last(frames).stack[a]
      BY <2>2, <2>4 DEF f
    <3>2. /\ Nested(Front(frames))
          /\ \A j \in {6, 7} : t.reg[PC] = rom_at(j)
                              => Front(frames) # <<>> /\ Left(t, Last(Front(frames)), j)
      BY <3>1, FrameTaken, Zenon
    <3> QED
      BY <2>3, <3>2
  <2> QED
    BY <1>4, <2>2, <2>4, <2>5 DEF f
<1> QED
  BY <1>3, <1>4

\* The loop fetches what stands there.
LEMMA LeavesFetch ==
    ASSUME CpuInv, Looping, NEW k \in {6, 7}, m.reg[PC] = rom_at(k),
           m.mem[rom_at(k)] = rom[k + 1], NEW f, Left(m, f, k)
    PROVE  LET s == cpu_fetch(top(NoLine))
           IN  /\ s \in Decoded /\ s.panic = "OK" /\ s.reg[PC] = rom_at(k + 1)
               /\ Left(s, f, k) /\ cpu_decode(NoLine) = Code[rom[k + 1]]
<1> DEFINE t == top(NoLine)
           s == cpu_fetch(t)
<1>1. k \in 0 .. 13 /\ k + 1 \in 0 .. 14
  OBVIOUS
<1>2. m \in Decoded /\ m.panic = "OK"
  BY LoopingDecoded DEF Looping
<1>3. t = [m EXCEPT !.fault = FALSE]
  BY DEF top
<1>4. t \in Decoded /\ t.panic = "OK" /\ t.reg = m.reg /\ t.mem = m.mem
  BY <1>2, <1>3 DEF Decoded
<1> HIDE DEF t
<1>5. /\ s \in Decoded /\ s.panic = "OK" /\ s.reg = [m.reg EXCEPT ![PC] = rom_at(k + 1)]
      /\ s.mem = m.mem /\ fetched(t) = m.mem[rom_at(k)]
  <2>1. t.reg[PC] = rom_at(k)
    BY <1>4
  <2>2. /\ s \in Decoded /\ s.panic = "OK" /\ s.reg = [t.reg EXCEPT ![PC] = rom_at(k + 1)]
        /\ s.mem = t.mem /\ fetched(t) = t.mem[rom_at(k)]
    BY <1>1, <1>4, <2>1, Fetched
  <2> QED
    BY <1>4, <2>2
<1> HIDE DEF s
<1>6. m.reg \in [Registers -> Word]
  BY <1>2, MachineFields
<1>7. /\ s.reg[PC] = rom_at(k + 1)
      /\ \A r \in Registers \ {IR, PC} : s.reg[r] = m.reg[r]
  BY <1>5, <1>6, RegistersApart
<1>8. Left(s, f, k)
  BY <1>5, <1>7, LeftAlone
<1>9. cpu_decode(NoLine) = Code[rom[k + 1]]
  BY <1>5 DEF cpu_decode, t
<1> QED
  BY <1>5, <1>7, <1>8, <1>9 DEF s, t

\* What the other steps of the run do to the frames.
LEMMA FramesKept ==
    ASSUME [StartupNext]_startupVars
    PROVE  \/ frames' = frames
           \/ \E line \in arriving : Iteration(line)
           \/ \E c \in Commands : Debugged(c)
BY DEF StartupNext, startupVars, Helps, Fails, Starts, Running, main_ends

\* A step of the dispatcher after a handler.
LEMMA LeavingStep ==
    ASSUME SessionInv, LeavesInv, [StartupNext]_startupVars, ~ Interrupted,
           At(6) \/ At(7), Giving
    PROVE  LeavesInv' /\ Undisturbed
<1>1. CpuInv /\ m.mem[rom_at(6)] = rom[7] /\ m.mem[rom_at(7)] = rom[8]
  BY DEF SessionInv, Giving
<1>2. PICK k \in {6, 7} : At(k)
  OBVIOUS
<1>3. m.mem[rom_at(k)] = rom[k + 1]
  <2>1. k = 6 \/ k = 7
    OBVIOUS
  <2> QED
    BY <1>1, <2>1
<1>s. \A j \in {6, 7} : rom_at(j + 1) = rom_at(k + 1) => j = k
  <2>1. \A j \in {6, 7} : j + 1 \in 0 .. 14 /\ j \in Nat
    OBVIOUS
  <2> QED
    BY <2>1, RomPlaces
<1>w. rom[k + 1] = rom[7] \/ rom[k + 1] = rom[8]
  OBVIOUS
<1>4. CASE Iteration(NoLine)
  <2> DEFINE s == cpu_fetch(top(NoLine))
  <2>1. Iterate(NoLine) /\ Looping
    BY <1>4 DEF Iteration, Iterate, CannotFetch, NotImplemented, Fetches
  <2>2. m.reg[PC] = rom_at(k) /\ frames # <<>> /\ Left(m, Last(frames), k) /\ Nested(frames)
    BY <1>2, <2>1 DEF LeavesInv, Looping, At
  <2>3. /\ s \in Decoded /\ s.panic = "OK" /\ s.reg[PC] = rom_at(k + 1)
        /\ Left(s, Last(frames), k) /\ cpu_decode(NoLine) = Code[rom[k + 1]]
    BY <1>1, <1>3, <2>1, <2>2, LeavesFetch
  <2>4. frames' = IF Returning(NoLine) THEN Front(frames) ELSE frames
    BY <1>4, <2>2 DEF Iteration
  <2>f. Fetches(NoLine)
    BY <2>1, <2>3 DEF Fetches
  <2> HIDE DEF s
  <2>5. \E i \in Code[rom[k + 1]] : Execute(NoLine, i) \/ Trap(NoLine, i) \/ NotImplemented(NoLine)
    <3>1. \E i : i \in Code[rom[k + 1]]
      BY <1>w, LeavesCode, Zenon
    <3> QED
      BY <2>1, <2>3, <3>1 DEF Iterate, CannotFetch, s
  <2>6. PICK i \in Code[rom[k + 1]] :
          Execute(NoLine, i) \/ Trap(NoLine, i) \/ NotImplemented(NoLine)
    BY <2>5
  <2>7. ~ NotImplemented(NoLine)
    BY <2>3, <2>6 DEF NotImplemented
  <2>8. Code[rom[k + 1]] = {i}
    BY <1>w, <2>6, LeavesCode, Zenon
  <2>9. Returning(NoLine) <=> ~ m.trap /\ i.op = "IRET"
    BY <2>3, <2>8, <2>f DEF Returning
  <2>10. CASE Execute(NoLine, i)
    <3>1. m' = op_call_traced(s, i) /\ thread' = "loop" /\ ~ m.trap
      BY <2>1, <2>10 DEF Execute, s, Looping
    <3>2. frames' = IF i.op = "IRET" /\ frames # <<>> THEN Front(frames) ELSE frames
      BY <2>2, <2>4, <2>9, <3>1
    <3>3. /\ i.op = "IRET" <=> k = 7
          /\ Nested(frames')
          /\ \A j \in {6, 7} :
               m'.reg[PC] = rom_at(j) => frames' # <<>> /\ Left(m', Last(frames'), j)
          /\ k = 7 => /\ \A r \in Registers \ {IR} : m'.reg[r] = Last(frames).reg[r]
                      /\ \A a \in DOMAIN Last(frames).stack :
                           m'.mem[a] = Last(frames).stack[a]
                      /\ m'.ie
      BY <2>2, <2>3, <2>6, <3>1, <3>2, Leaves
    <3>4. LeavesInv'
      BY <3>1, <3>3 DEF LeavesInv, At
    <3>5. Undisturbed
      BY <2>2, <3>2, <3>3 DEF Undisturbed
    <3> QED
      BY <3>4, <3>5
  <2>11. CASE Trap(NoLine, i)
    <3>1. cpu_instruction_to_string(s, i) = s
      BY <2>2, <2>3, <2>6, Leaves
    <3>2. m' = s /\ ins' = i /\ thread' = "trap" /\ frames' = frames
      BY <2>4, <2>9, <2>11, <3>1 DEF Trap, s
    <3>3. \A j \in {6, 7} : At(j)' => j = k
      BY <1>s, <2>3, <3>2 DEF At
    <3>4. LeavesInv'
      BY <2>2, <2>3, <2>6, <3>2, <3>3 DEF LeavesInv
    <3> QED
      BY <2>2, <3>2, <3>4 DEF Undisturbed, Nested
  <2> QED
    BY <2>6, <2>7, <2>10, <2>11
<1>5. ASSUME NEW c \in Commands, Debugged(c) PROVE LeavesInv' /\ Undisturbed
  <2> DEFINE s == [m EXCEPT !.running = (c = "step"), !.trap = (c # "continue")]
  <2>1. Debug(c) /\ thread = "trap" /\ thread' = "loop" /\ m' = op_call_traced(s, ins)
    BY <1>5 DEF Debugged, Debug
  <2>2. m.reg[PC] = rom_at(k + 1) /\ m.panic = "OK" /\ ins \in Code[rom[k + 1]]
    BY <1>2, <2>1 DEF LeavesInv, At
  <2>3. frames # <<>> /\ Left(m, Last(frames), k) /\ Nested(frames)
    BY <1>2, <2>2 DEF LeavesInv
  <2>4. s \in Decoded /\ m \in Decoded
    BY <1>1, <2>1, DebugType, LoopingDecoded
  <2>5. s.reg = m.reg /\ s.mem = m.mem /\ s.panic = m.panic
    BY <2>4 DEF Decoded
  <2> HIDE DEF s
  <2>6. Left(s, Last(frames), k)
    BY <2>3, <2>5, LeftAlone
  <2>7. frames' = IF ins.op = "IRET" /\ frames # <<>> THEN Front(frames) ELSE frames
    BY <1>5 DEF Debugged
  <2>8. /\ ins.op = "IRET" <=> k = 7
        /\ Nested(frames')
        /\ \A j \in {6, 7} :
             m'.reg[PC] = rom_at(j) => frames' # <<>> /\ Left(m', Last(frames'), j)
        /\ k = 7 => /\ \A r \in Registers \ {IR} : m'.reg[r] = Last(frames).reg[r]
                    /\ \A a \in DOMAIN Last(frames).stack : m'.mem[a] = Last(frames).stack[a]
                    /\ m'.ie
    BY <2>1, <2>2, <2>3, <2>4, <2>5, <2>6, <2>7, Leaves
  <2>9. LeavesInv'
    BY <2>1, <2>8 DEF LeavesInv, At
  <2>10. Undisturbed
    BY <2>3, <2>7, <2>8 DEF Undisturbed
  <2> QED
    BY <2>9, <2>10
<1>6. CASE frames' = frames /\ thread' \notin {"loop", "trap"}
  <2>1. LeavesInv'
    BY <1>6 DEF LeavesInv, At
  <2>2. Undisturbed
    BY <1>6 DEF Undisturbed, LeavesInv, Nested
  <2> QED
    BY <2>1, <2>2
<1>7. CASE UNCHANGED <<thread, ins, frames>> /\ m' \in {m, [m EXCEPT !.running = FALSE]}
  <2>1. m'.reg = m.reg /\ m'.mem = m.mem /\ m'.panic = m.panic
    BY <1>1, <1>7 DEF CpuInv, TypeOK, Machine
  <2>2. \A j \in {6, 7} : Left(m, Last(frames), j) => Left(m', Last(frames), j)
    BY <2>1, LeftAlone
  <2>3. LeavesInv'
    BY <1>7, <2>1, <2>2 DEF LeavesInv, At
  <2>4. Undisturbed
    BY <1>7 DEF Undisturbed, LeavesInv, Nested
  <2> QED
    BY <2>3, <2>4
<1>8. CASE thread' \notin {"loop", "trap"}
  <2>1. \A line : ~ Iteration(line)
    BY <1>8 DEF Iteration, Iterate, CannotFetch, NotImplemented, Fetches, Execute, Trap, Looping
  <2>2. \A c : ~ Debugged(c)
    BY <1>8 DEF Debugged, Debug
  <2> QED
    BY <1>6, <1>8, <2>1, <2>2, FramesKept
<1> QED
  BY <1>2, <1>4, <1>5, <1>7, <1>8, Uninterrupted DEF At

\* A step of the program, of a handler, or the one that takes an interrupt.
LEMMA OtherStep ==
    ASSUME SessionInv, LeavesInv, [StartupNext]_startupVars,
           Interrupted \/ ~ (At(6) \/ At(7)), Giving
    PROVE  LeavesInv' /\ Undisturbed
<1>1. /\ CpuInv /\ Len(frames') >= Len(frames) /\ ~ At(7)'
      /\ At(6)' => thread' = "loop" /\ frames' # <<>> /\ GivenBack(m', Last(frames'))
  BY DEF SessionInv, Giving
<1>2. PICK S : frames \in Seq(S)
  BY DEF LeavesInv, Nested
<1>3. /\ Len(frames) \in Nat
      /\ frames # <<>> => ~ (Len(Front(frames)) >= Len(frames))
      /\ \A x : Front(Append(frames, x)) = frames
  <2>1. ASSUME NEW x PROVE Front(Append(frames, x)) = frames
    <3>1. frames \in Seq(S \union {x}) /\ x \in S \union {x}
      BY <1>2
    <3> QED
      BY <3>1 DEF Front
  <2> QED
    BY <1>2, <2>1 DEF Front
<1>4. ASSUME NEW line \in arriving, Iteration(line) PROVE Nested(frames')
  <2>1. Looping /\ m \in Decoded /\ Iterate(line)
    <3>1. Looping /\ Iterate(line)
      BY <1>4 DEF Iteration, Iterate, CannotFetch, NotImplemented, Fetches
    <3> QED
      BY <1>1, <3>1, LoopingDecoded
  <2>2. CASE line = NoLine
    <3>1. frames' = frames
      BY <1>1, <1>3, <1>4, <2>2 DEF Iteration
    <3> QED
      BY <3>1 DEF LeavesInv
  <2>3. CASE line # NoLine
    <3>1. line \in Lines
      BY <2>3 DEF arriving
    <3>2. \A k \in {6, 7} :
            m.reg[PC] = rom_at(k) => frames # <<>> /\ Left(m, Last(frames), k)
      BY <2>1 DEF LeavesInv, At, Looping
    <3> DEFINE x == frame(line)
    <3>3. Nested(Append(frames, x))
      BY <2>1, <3>1, <3>2, FrameOnTop DEF LeavesInv
    <3> HIDE DEF x
    <3>4. frames' \in {Append(frames, x), Front(Append(frames, x))}
      BY <1>4, <2>3 DEF Iteration, x
    <3>5. Nested(frames)
      BY DEF LeavesInv
    <3> QED
      BY <1>3, <3>3, <3>4, <3>5
  <2> QED
    BY <2>2, <2>3
<1>5. ASSUME NEW c, Debugged(c) PROVE frames' = frames
  BY <1>1, <1>3, <1>5 DEF Debugged
<1>6. Nested(frames')
  <2>1. Nested(frames)
    BY DEF LeavesInv
  <2> QED
    BY <1>4, <1>5, <2>1, FramesKept
<1>7. LeavesInv'
  <2>1. ~ (thread' = "loop" /\ thread' = "trap")
    OBVIOUS
  <2>2. ASSUME NEW k \in {6, 7}, At(k)'
        PROVE  frames' # <<>> /\ Left(m', Last(frames'), k) /\ thread' = "loop"
    <3>1. k = 6
      BY <1>1, <2>2
    <3> QED
      BY <1>1, <2>2, <3>1 DEF Left
  <2> QED
    BY <1>6, <2>1, <2>2 DEF LeavesInv
<1>8. Undisturbed
  <2>1. Len(frames') \in Nat
    BY <1>6 DEF Nested
  <2> QED
    BY <1>1, <1>3, <2>1 DEF Undisturbed
<1> QED
  BY <1>7, <1>8

LEMMA LeavesStep ==
    SessionInv /\ LeavesInv /\ [StartupNext]_startupVars /\ [Discipline /\ Giving]_dispatchVars
      => LeavesInv' /\ [Undisturbed]_dispatchVars
<1>1. CASE UNCHANGED dispatchVars
  BY <1>1 DEF dispatchVars, LeavesInv, At
<1>2. CASE Giving
  BY <1>2, LeavingStep, OtherStep
<1> QED
  BY <1>1, <1>2

\* When an interrupt ends, the program has every register and every word of its stack,
\* however deep the interrupts nested and wherever they came: if each handler gives back
\* what it was called with (rom.a, cpu.c).
THEOREM TransparentHolds == StartupSpec /\ Disciplined => Transparent
<1>1. StartupInit => LeavesInv
  <2> SUFFICES ASSUME StartupInit PROVE LeavesInv
    OBVIOUS
  <2>1. frames = <<>> /\ thread = "idle"
    BY DEF StartupInit
  <2>2. frames \in Seq({}) /\ DOMAIN frames = {}
    BY <2>1
  <2> QED
    BY <2>1, <2>2 DEF LeavesInv, Nested, At
<1>2. Disciplined <=> [][Discipline /\ Giving]_dispatchVars
  BY DEF Disciplined
<1>3. Transparent <=> [][Undisturbed]_dispatchVars
  BY DEF Transparent
<1> QED
  BY <1>1, <1>2, <1>3, LeavesStep, SessionInvariant, PTL DEF StartupSpec
=============================================================================
