---------------------------- MODULE DebuggerProof ----------------------------
(***************************************************************************)
(* Proofs about the lexer of the debugger's commands: for every line, its  *)
(* tokens are where they should be and what they should be.                *)
(***************************************************************************)
EXTENDS Debugger, FoldProof, SequenceTheorems

(***************************************************************************)
(* Characters.                                                             *)
(***************************************************************************)
Decimals == {"0", "1", "2", "3", "4", "5", "6", "7", "8", "9"}
Hexadecimals == Decimals \union {"a", "b", "c", "d", "e", "f"}

LEMMA HexDigitsAre == DOMAIN DigitValue = Hexadecimals
<1>1. ToSet(HexDigits) = {HexDigits[k] : k \in 1 .. 16}
  BY DEF ToSet, HexDigits
<1>2. {HexDigits[k] : k \in 1 .. 16} = Hexadecimals
  <2>1. ASSUME NEW c \in Hexadecimals PROVE \E k \in 1 .. 16 : HexDigits[k] = c
    BY DEF Hexadecimals, Decimals, HexDigits
  <2>2. ASSUME NEW k \in 1 .. 16 PROVE HexDigits[k] \in Hexadecimals
    BY DEF Hexadecimals, Decimals, HexDigits
  <2> QED
    BY <2>1, <2>2
<1> QED
  BY <1>1, <1>2 DEF DigitValue

\* A digit has the value of its place.
LEMMA ValueOfDigit ==
    ASSUME NEW k \in 1 .. 16
    PROVE  DigitValue[HexDigits[k]] = k - 1
<1>1. HexDigits[k] \in ToSet(HexDigits)
  BY DEF ToSet, HexDigits
<1>2. \A j \in 1 .. 16 : HexDigits[j] = HexDigits[k] => j = k
  BY DEF HexDigits
<1>3. (CHOOSE j \in 1 .. 16 : HexDigits[j] = HexDigits[k]) = k
  BY <1>2
<1> QED
  BY <1>1, <1>3 DEF DigitValue

LEMMA Digits ==
    ASSUME NEW c
    PROVE  /\ is_hexdigit(c) <=> c \in Hexadecimals
           /\ is_digit(c) <=> c \in Decimals
           /\ is_hexdigit(c) => DigitValue[c] \in Nat
<1>1. is_hexdigit(c) <=> c \in Hexadecimals
  BY HexDigitsAre DEF is_hexdigit
<1>2. ASSUME c \in Hexadecimals
      PROVE  DigitValue[c] \in Nat /\ (DigitValue[c] < 10 <=> c \in Decimals)
  <2>1. PICK k \in 1 .. 16 : c = HexDigits[k]
    BY <1>2 DEF Hexadecimals, Decimals, HexDigits
  <2>2. DigitValue[c] = k - 1
    BY <2>1, ValueOfDigit
  <2>3. k <= 10 <=> HexDigits[k] \in Decimals
    BY DEF Decimals, HexDigits
  <2> QED
    BY <2>1, <2>2, <2>3
<1>3. Decimals \subseteq Hexadecimals
  BY DEF Hexadecimals
<1> QED
  BY <1>1, <1>2, <1>3 DEF is_digit

\* What starts a token of one type starts none of another.
LEMMA Characters ==
    ASSUME NEW c
    PROVE  /\ is_alpha(c) => /\ ~is_digit(c) /\ ~is_whitespace(c)
                             /\ c \notin {",", ":"} /\ is_alphanum(c)
           /\ is_digit(c) => /\ ~is_whitespace(c) /\ c \notin {",", ":", "x"}
                             /\ is_alphanum(c) /\ is_hexdigit(c)
           /\ is_hexdigit(c) => is_alphanum(c) /\ c # "x"
           /\ is_alphanum(c) => ~is_whitespace(c)
           /\ c \in {",", ":"} => ~is_whitespace(c) /\ ~is_alphanum(c)
           /\ ~is_alphanum("x") => FALSE
           /\ is_digit("0")
<1>1. \A d : is_digit(d) <=> d \in Decimals
  BY Digits
<1>2. \A d : is_hexdigit(d) <=> d \in Hexadecimals
  BY Digits
<1> QED
  BY <1>1, <1>2 DEF Decimals, Hexadecimals, is_alpha, is_alphanum, is_whitespace

(***************************************************************************)
(* The end of a run of characters.                                         *)
(***************************************************************************)
\* e is the first place from i on that is not in Good or is past n.
Reaches(e, i, n, Good) ==
    /\ e \in i .. n + 1
    /\ \A j \in i .. e - 1 : j \in Good
    /\ e \in 1 .. n => e \notin Good

LEMMA FirstPast ==
    ASSUME NEW n \in Nat, NEW i \in 1 .. n + 1, NEW Good
    PROVE  Reaches(Min({j \in i .. n + 1 : j = n + 1 \/ j \notin Good}), i, n, Good)
<1> DEFINE S == {j \in i .. n + 1 : j = n + 1 \/ j \notin Good}
<1>1. S \in SUBSET Nat /\ n + 1 \in S
  OBVIOUS
<1>2. PICK e \in S : \A j \in S : e <= j
  BY <1>1, LeastElement
<1>3. Min(S) = e
  <2>1. \A x \in S : (\A y \in S : x <= y) => x = e
    BY <1>1, <1>2
  <2> HIDE DEF S
  <2> QED
    BY <1>2, <2>1 DEF Min
<1>4. Reaches(e, i, n, Good)
  <2>1. \A j \in i .. e - 1 : j \notin S
    BY <1>2
  <2> QED
    BY <2>1 DEF Reaches
<1> QED
  BY <1>3, <1>4

\* e is where the characters from i on that pass Test end.
Ends(text, i, e, Test(_)) ==
    /\ e \in i .. Len(text) + 1
    /\ \A j \in i .. e - 1 : Test(text[j])
    /\ e <= Len(text) => ~Test(text[e])

LEMMA RunsEnd ==
    ASSUME NEW text \in Seq(STRING), NEW i \in 1 .. Len(text) + 1
    PROVE  /\ Ends(text, i, past(text, i, is_whitespace), is_whitespace)
           /\ Ends(text, i, past(text, i, not_whitespace), not_whitespace)
           /\ Ends(text, i, past(text, i, is_alphanum), is_alphanum)
           /\ Ends(text, i, past(text, i, is_digit), is_digit)
           /\ Ends(text, i, past(text, i, is_hexdigit), is_hexdigit)
<1> DEFINE n == Len(text)
<1>1. n \in Nat
  OBVIOUS
<1>2. Ends(text, i, past(text, i, is_whitespace), is_whitespace)
  <2> DEFINE Good == {j \in 1 .. n : is_whitespace(text[j])}
             e == past(text, i, is_whitespace)
  <2>1. \A j \in i .. n + 1 : (j = n + 1 \/ ~is_whitespace(text[j])) <=> (j = n + 1 \/ j \notin Good)
    BY <1>1
  <2>2. {j \in i .. n + 1 : j = n + 1 \/ ~is_whitespace(text[j])}
          = {j \in i .. n + 1 : j = n + 1 \/ j \notin Good}
    BY <2>1, Zenon
  <2>3. e = Min({j \in i .. n + 1 : j = n + 1 \/ j \notin Good})
    BY <2>2, Zenon DEF past
  <2> HIDE DEF e
  <2>4. Reaches(e, i, n, Good)
    BY <1>1, <2>3, FirstPast
  <2>5. \A j \in Good : is_whitespace(text[j])
    OBVIOUS
  <2>6. e \in 1 .. n => ~is_whitespace(text[e])
    BY <2>4 DEF Reaches
  <2> HIDE DEF Good
  <2>7. e \in i .. n + 1 /\ \A j \in i .. e - 1 : j \in Good
    BY <2>4 DEF Reaches
  <2>8. e <= n => e \in 1 .. n
    BY <1>1, <2>7
  <2> HIDE DEF n
  <2> QED
    BY <2>5, <2>6, <2>7, <2>8 DEF Ends, e, n
<1>3. Ends(text, i, past(text, i, not_whitespace), not_whitespace)
  <2> DEFINE Good == {j \in 1 .. n : not_whitespace(text[j])}
             e == past(text, i, not_whitespace)
  <2>1. \A j \in i .. n + 1 : (j = n + 1 \/ ~not_whitespace(text[j])) <=> (j = n + 1 \/ j \notin Good)
    BY <1>1
  <2>2. {j \in i .. n + 1 : j = n + 1 \/ ~not_whitespace(text[j])}
          = {j \in i .. n + 1 : j = n + 1 \/ j \notin Good}
    BY <2>1, Zenon
  <2>3. e = Min({j \in i .. n + 1 : j = n + 1 \/ j \notin Good})
    BY <2>2, Zenon DEF past
  <2> HIDE DEF e
  <2>4. Reaches(e, i, n, Good)
    BY <1>1, <2>3, FirstPast
  <2>5. \A j \in Good : not_whitespace(text[j])
    OBVIOUS
  <2>6. e \in 1 .. n => ~not_whitespace(text[e])
    BY <2>4 DEF Reaches
  <2> HIDE DEF Good
  <2>7. e \in i .. n + 1 /\ \A j \in i .. e - 1 : j \in Good
    BY <2>4 DEF Reaches
  <2>8. e <= n => e \in 1 .. n
    BY <1>1, <2>7
  <2> HIDE DEF n
  <2> QED
    BY <2>5, <2>6, <2>7, <2>8 DEF Ends, e, n
<1>4. Ends(text, i, past(text, i, is_alphanum), is_alphanum)
  <2> DEFINE Good == {j \in 1 .. n : is_alphanum(text[j])}
             e == past(text, i, is_alphanum)
  <2>1. \A j \in i .. n + 1 : (j = n + 1 \/ ~is_alphanum(text[j])) <=> (j = n + 1 \/ j \notin Good)
    BY <1>1
  <2>2. {j \in i .. n + 1 : j = n + 1 \/ ~is_alphanum(text[j])}
          = {j \in i .. n + 1 : j = n + 1 \/ j \notin Good}
    BY <2>1, Zenon
  <2>3. e = Min({j \in i .. n + 1 : j = n + 1 \/ j \notin Good})
    BY <2>2, Zenon DEF past
  <2> HIDE DEF e
  <2>4. Reaches(e, i, n, Good)
    BY <1>1, <2>3, FirstPast
  <2>5. \A j \in Good : is_alphanum(text[j])
    OBVIOUS
  <2>6. e \in 1 .. n => ~is_alphanum(text[e])
    BY <2>4 DEF Reaches
  <2> HIDE DEF Good
  <2>7. e \in i .. n + 1 /\ \A j \in i .. e - 1 : j \in Good
    BY <2>4 DEF Reaches
  <2>8. e <= n => e \in 1 .. n
    BY <1>1, <2>7
  <2> HIDE DEF n
  <2> QED
    BY <2>5, <2>6, <2>7, <2>8 DEF Ends, e, n
<1>5. Ends(text, i, past(text, i, is_digit), is_digit)
  <2> DEFINE Good == {j \in 1 .. n : is_digit(text[j])}
             e == past(text, i, is_digit)
  <2>1. \A j \in i .. n + 1 : (j = n + 1 \/ ~is_digit(text[j])) <=> (j = n + 1 \/ j \notin Good)
    BY <1>1
  <2>2. {j \in i .. n + 1 : j = n + 1 \/ ~is_digit(text[j])}
          = {j \in i .. n + 1 : j = n + 1 \/ j \notin Good}
    BY <2>1, Zenon
  <2>3. e = Min({j \in i .. n + 1 : j = n + 1 \/ j \notin Good})
    BY <2>2, Zenon DEF past
  <2> HIDE DEF e
  <2>4. Reaches(e, i, n, Good)
    BY <1>1, <2>3, FirstPast
  <2>5. \A j \in Good : is_digit(text[j])
    OBVIOUS
  <2>6. e \in 1 .. n => ~is_digit(text[e])
    BY <2>4 DEF Reaches
  <2> HIDE DEF Good
  <2>7. e \in i .. n + 1 /\ \A j \in i .. e - 1 : j \in Good
    BY <2>4 DEF Reaches
  <2>8. e <= n => e \in 1 .. n
    BY <1>1, <2>7
  <2> HIDE DEF n
  <2> QED
    BY <2>5, <2>6, <2>7, <2>8 DEF Ends, e, n
<1>6. Ends(text, i, past(text, i, is_hexdigit), is_hexdigit)
  <2> DEFINE Good == {j \in 1 .. n : is_hexdigit(text[j])}
             e == past(text, i, is_hexdigit)
  <2>1. \A j \in i .. n + 1 : (j = n + 1 \/ ~is_hexdigit(text[j])) <=> (j = n + 1 \/ j \notin Good)
    BY <1>1
  <2>2. {j \in i .. n + 1 : j = n + 1 \/ ~is_hexdigit(text[j])}
          = {j \in i .. n + 1 : j = n + 1 \/ j \notin Good}
    BY <2>1, Zenon
  <2>3. e = Min({j \in i .. n + 1 : j = n + 1 \/ j \notin Good})
    BY <2>2, Zenon DEF past
  <2> HIDE DEF e
  <2>4. Reaches(e, i, n, Good)
    BY <1>1, <2>3, FirstPast
  <2>5. \A j \in Good : is_hexdigit(text[j])
    OBVIOUS
  <2>6. e \in 1 .. n => ~is_hexdigit(text[e])
    BY <2>4 DEF Reaches
  <2> HIDE DEF Good
  <2>7. e \in i .. n + 1 /\ \A j \in i .. e - 1 : j \in Good
    BY <2>4 DEF Reaches
  <2>8. e <= n => e \in 1 .. n
    BY <1>1, <2>7
  <2> HIDE DEF n
  <2> QED
    BY <2>5, <2>6, <2>7, <2>8 DEF Ends, e, n
<1> QED
  BY <1>2, <1>3, <1>4, <1>5, <1>6

(***************************************************************************)
(* The value of a sequence of digits.                                      *)
(***************************************************************************)
Digitals == Seq(Hexadecimals)

LEMMA AllDigits ==
    ASSUME NEW s \in Seq(STRING), \A i \in 1 .. Len(s) : s[i] \in Hexadecimals
    PROVE  s \in Digitals
<1>1. s \in [1 .. Len(s) -> Hexadecimals] /\ Len(s) \in Nat
  OBVIOUS
<1> QED
  BY <1>1, SeqDef DEF Digitals

NumberRun(h, radix, digits) ==
    /\ h[0] = 0 /\ h[Len(digits)] = number(radix, digits)
    /\ \A k \in 1 .. Len(digits) : h[k] = radix * h[k - 1] + DigitValue[digits[k]]

\* The values that read_decnumber and read_hexnumber go through, digit by digit.
LEMMA NumberTrace ==
    ASSUME NEW radix \in Nat, NEW digits \in Digitals
    PROVE  \E h \in [0 .. Len(digits) -> Nat] : NumberRun(h, radix, digits)
<1> DEFINE n == Len(digits)
           Step(v, k) == radix * v + DigitValue[digits[k]]
           Folds(g) == g = [T \in SUBSET DOMAIN digits |->
                              IF T = {} THEN 0 ELSE Step(g[T \ {Max(T)}], Max(T))]
           result == (CHOOSE g : Folds(g))[DOMAIN digits]
<1>1. n \in Nat /\ DOMAIN digits = 1 .. n /\ 0 \in Nat
  BY DEF Digitals
<1>2. number(radix, digits) = result
  BY Zenon DEF number, FoldLeft, MapThenFoldSet
<1>3. \A v \in Nat, k \in 1 .. n : Step(v, k) \in Nat
  <2>1. \A k \in 1 .. n : DigitValue[digits[k]] \in Nat
    BY <1>1, Digits DEF Digitals
  <2> QED
    BY <2>1
<1>d. \A v, k : Step(v, k) = radix * v + DigitValue[digits[k]]
  OBVIOUS
<1> HIDE DEF Step
<1> DEFINE F == [a \in Nat \X (1 .. n) |-> Step(a[1], a[2])]
<1>4. F \in [Nat \X (1 .. n) -> Nat]
  BY <1>3
<1>5. \A v \in Nat, k \in 1 .. n : F[<<v, k>>] = Step(v, k)
  OBVIOUS
<1> HIDE DEF F
<1>6. \E g : Folds(g)
  <2>1. PICK g \in [SUBSET (1 .. n) -> Nat] : Folded(g, 0, n, F)
    BY <1>1, <1>4, FoldExists
  <2>2. ASSUME NEW T \in SUBSET (1 .. n), T # {}
        PROVE  F[g[T \ {Max(T)}], Max(T)] = Step(g[T \ {Max(T)}], Max(T))
    <3>1. Max(T) \in 1 .. n /\ g[T \ {Max(T)}] \in Nat
      BY <1>1, <2>2, MaxIsElement
    <3> QED
      BY <1>5, <3>1
  <2>3. Folds(g)
    BY <1>1, <2>1, <2>2 DEF Folded
  <2> QED
    BY <2>3
<1> DEFINE g == CHOOSE f : Folds(f)
<1>7. Folds(g) /\ result = g[1 .. n]
  BY <1>1, <1>6, Zenon
<1> HIDE DEF g, result, n
<1>8. Steps(g, Nat, 0, n, F)
  <2>1. g[{}] = 0
    BY <1>1, <1>7
  <2>2. ASSUME NEW T \in SUBSET (1 .. n), T # {}, g[T \ {Max(T)}] \in Nat
        PROVE  g[T] = F[<<g[T \ {Max(T)}], Max(T)>>]
    <3>1. Max(T) \in 1 .. n
      BY <1>1, <2>2, MaxIsElement
    <3>2. g[T] = Step(g[T \ {Max(T)}], Max(T))
      BY <1>1, <1>7, <2>2
    <3> QED
      BY <1>5, <2>2, <3>1, <3>2
  <2> HIDE DEF Folds
  <2> QED
    BY <2>1, <2>2, Zenon DEF Steps
<1> HIDE DEF Folds
<1>9. PICK h \in [0 .. n -> Nat] : Runs(h, 0, n, F, g[1 .. n])
  BY <1>1, <1>4, <1>8, FoldRun
<1>10. ASSUME NEW k \in 1 .. n PROVE h[k] = Step(h[k - 1], k)
  <2>1. h[k - 1] \in Nat
    BY <1>1
  <2> QED
    BY <1>5, <1>9, <2>1 DEF Runs
<1>11. NumberRun(h, radix, digits)
  BY <1>2, <1>7, <1>9, <1>10, <1>d DEF Runs, NumberRun, n
<1> QED
  BY <1>11 DEF n

LEMMA NumberNat ==
    ASSUME NEW radix \in Nat, NEW digits \in Digitals
    PROVE  /\ number(radix, digits) \in Nat
           /\ Len(digits) = 0 => number(radix, digits) = 0
<1>1. PICK h \in [0 .. Len(digits) -> Nat] : NumberRun(h, radix, digits)
  BY NumberTrace
<1>2. Len(digits) \in 0 .. Len(digits)
  BY DEF Digitals
<1> QED
  BY <1>1, <1>2 DEF NumberRun

\* A digit more: the value so far times the radix, and the digit.
LEMMA NumberStep ==
    ASSUME NEW radix \in Nat, NEW d \in Digitals, NEW e \in Digitals,
           Len(e) = Len(d) + 1, \A k \in 1 .. Len(d) : e[k] = d[k]
    PROVE  number(radix, e) = radix * number(radix, d) + DigitValue[e[Len(e)]]
<1>1. PICK h \in [0 .. Len(d) -> Nat] : NumberRun(h, radix, d)
  BY NumberTrace
<1>2. PICK j \in [0 .. Len(e) -> Nat] : NumberRun(j, radix, e)
  BY NumberTrace
<1> DEFINE n == Len(d)
           P == { k \in 0 .. n : j[k] = h[k] }
<1>3. n \in Nat /\ Len(e) = n + 1
  BY DEF Digitals
<1>4. 0 \in P
  BY <1>1, <1>2, <1>3 DEF NumberRun
<1>5. ASSUME NEW k \in 0 .. n - 1, k \in P PROVE k + 1 \in P
  <2>1. k + 1 \in 1 .. n /\ k + 1 \in 1 .. Len(e) /\ (k + 1) - 1 = k /\ k + 1 \in 0 .. n
    BY <1>3
  <2>2. /\ h[k + 1] = radix * h[k] + DigitValue[d[k + 1]]
        /\ j[k + 1] = radix * j[k] + DigitValue[e[k + 1]]
    BY <1>1, <1>2, <2>1 DEF NumberRun
  <2> QED
    BY <1>5, <2>1, <2>2
<1> HIDE DEF P
<1>6. n \in P
  <2>1. 0 .. n \subseteq P
    BY <1>3, <1>4, <1>5, RangeInduction
  <2> QED
    BY <1>3, <2>1
<1>7. j[n] = number(radix, d)
  BY <1>1, <1>6 DEF P, NumberRun
<1>8. j[n + 1] = radix * j[n] + DigitValue[e[n + 1]]
  <2>1. n + 1 \in 1 .. Len(e) /\ (n + 1) - 1 = n
    BY <1>3
  <2> QED
    BY <1>2, <2>1 DEF NumberRun
<1> QED
  BY <1>2, <1>3, <1>7, <1>8 DEF NumberRun

\* The powers of a radix, as Positional chooses them.
Powers(p, radix, n) == p = [k \in 0 .. n |-> IF k = 0 THEN 1 ELSE radix * p[k - 1]]

LEMMA PowersExist ==
    ASSUME NEW radix \in Nat, NEW n \in Nat
    PROVE  \E p : Powers(p, radix, n)
<1> DEFINE Obeys(p, k) == p[0] = 1 /\ \A i \in 1 .. k : p[i] = radix * p[i - 1]
           P == { k \in 0 .. n : \E p \in [0 .. k -> Nat] : Obeys(p, k) }
<1>1. 0 \in P
  <2>1. [k \in 0 .. 0 |-> 1] \in [0 .. 0 -> Nat] /\ Obeys([k \in 0 .. 0 |-> 1], 0)
    OBVIOUS
  <2>2. 0 \in 0 .. n
    OBVIOUS
  <2> HIDE DEF Obeys
  <2> QED
    BY <2>1, <2>2
<1>2. ASSUME NEW k \in 0 .. n - 1, k \in P PROVE k + 1 \in P
  <2>1. PICK p \in [0 .. k -> Nat] : Obeys(p, k)
    BY <1>2
  <2> DEFINE q == [i \in 0 .. k + 1 |-> IF i = k + 1 THEN radix * p[k] ELSE p[i]]
  <2>2. p[k] \in Nat /\ radix * p[k] \in Nat /\ k + 1 \in 0 .. n
    OBVIOUS
  <2>3. q \in [0 .. k + 1 -> Nat]
    BY <2>2
  <2>4. q[k + 1] = radix * p[k] /\ \A i \in 0 .. k : q[i] = p[i]
    OBVIOUS
  <2> HIDE DEF q
  <2>5. ASSUME NEW i \in 1 .. k + 1 PROVE q[i] = radix * q[i - 1]
    <3>1. CASE i = k + 1
      BY <2>4, <3>1
    <3>2. CASE i # k + 1
      <4>1. i \in 1 .. k /\ i \in 0 .. k /\ i - 1 \in 0 .. k
        BY <3>2
      <4> QED
        BY <2>1, <2>4, <4>1
    <3> QED
      BY <3>1, <3>2
  <2>6. Obeys(q, k + 1)
    BY <2>1, <2>4, <2>5
  <2> HIDE DEF Obeys
  <2> QED
    BY <2>2, <2>3, <2>6
<1> HIDE DEF P
<1>3. n \in P
  <2>1. 0 .. n \subseteq P
    BY <1>1, <1>2, RangeInduction
  <2> QED
    BY <2>1
<1>4. PICK p \in [0 .. n -> Nat] : Obeys(p, n)
  BY <1>3 DEF P
<1>5. \A k \in 0 .. n : p[k] = IF k = 0 THEN 1 ELSE radix * p[k - 1]
  BY <1>4
<1>6. Powers(p, radix, n)
  BY <1>5 DEF Powers
<1> QED
  BY <1>6

LEMMA PowersAre ==
    ASSUME NEW radix \in Nat, NEW n \in Nat, NEW p, Powers(p, radix, n)
    PROVE  /\ p \in [0 .. n -> Nat] /\ p[0] = 1
           /\ \A k \in 1 .. n : p[k] = radix * p[k - 1]
<1> DEFINE P == { k \in 0 .. n : p[k] \in Nat }
<1>1. p[0] = 1 /\ \A k \in 1 .. n : p[k] = radix * p[k - 1]
  BY DEF Powers
<1>2. 0 \in P
  BY <1>1
<1>3. ASSUME NEW k \in 0 .. n - 1, k \in P PROVE k + 1 \in P
  <2>1. k + 1 \in 1 .. n /\ (k + 1) - 1 = k /\ k + 1 \in 0 .. n
    OBVIOUS
  <2>2. p[k + 1] = radix * p[k]
    BY <1>1, <2>1
  <2> QED
    BY <1>3, <2>1, <2>2
<1>4. 0 .. n \subseteq P
  <2> HIDE DEF P
  <2> QED
    BY <1>2, <1>3, RangeInduction
<1>5. p = [k \in 0 .. n |-> p[k]]
  BY DEF Powers
<1> QED
  BY <1>1, <1>4, <1>5

LEMMA Distribute ==
    ASSUME NEW r \in Nat, NEW v \in Nat, NEW c \in Nat, NEW q \in Nat
    PROVE  (r * v + c) * q = v * (r * q) + c * q
OBVIOUS

\* f has the values of the digits at their places, p the powers of the radix.
Placed(f, w, first, p) ==
    \A k \in first .. Len(w) :
      w[k] \in Hexadecimals /\ f[k] = DigitValue[w[k]] * p[Len(w) - k]

\* Horner's rule: the digits from first on have the sum of their values at their places.
LEMMA Horner ==
    ASSUME NEW radix \in Nat, NEW w \in Seq(STRING), NEW first \in 1 .. Len(w) + 1,
           NEW p, Powers(p, radix, Len(w)),
           NEW f \in [1 .. Len(w) -> Nat], Placed(f, w, first, p),
           NEW g \in [SUBSET (1 .. Len(w)) -> Nat], Sums(g, Len(w), f)
    PROVE  number(radix, SubSeq(w, first, Len(w))) = g[first .. Len(w)]
<1> DEFINE n == Len(w)
           last(k) == first + k - 1
           d(k) == SubSeq(w, first, last(k))
           P == { k \in 0 .. n + 1 - first :
                    number(radix, d(k)) * p[n - last(k)] = g[first .. last(k)] }
<1>1. n \in Nat /\ n + 1 - first \in Nat /\ first \in Nat \ {0}
  OBVIOUS
<1>2. p \in [0 .. n -> Nat] /\ p[0] = 1 /\ \A k \in 1 .. n : p[k] = radix * p[k - 1]
  BY <1>1, PowersAre
<1>p. \A k \in first .. n : w[k] \in Hexadecimals /\ f[k] = DigitValue[w[k]] * p[n - k]
  BY DEF Placed
<1>3. ASSUME NEW k \in 0 .. n + 1 - first
      PROVE  /\ last(k) \in first - 1 .. n /\ last(k) \in Nat
             /\ d(k) \in Digitals /\ Len(d(k)) = k
             /\ \A i \in 1 .. k : d(k)[i] = w[first + i - 1]
  <2>1. last(k) \in first - 1 .. n /\ last(k) \in Nat
    BY <1>1
  <2>2. Len(d(k)) = k /\ \A i \in 1 .. k : d(k)[i] = w[first + i - 1]
    BY <1>1, <2>1, SubSeqProperties
  <2>3. \A i \in 1 .. k : d(k)[i] \in Hexadecimals
    BY <1>1, <1>p, <2>2
  <2>4. d(k) \in Seq(STRING)
    BY <1>1, <2>1, SubSeqProperties
  <2>5. d(k) \in Digitals
    <3> HIDE DEF d
    <3> QED
      BY <2>2, <2>3, <2>4, AllDigits
  <2> QED
    BY <2>1, <2>2, <2>5
<1>4. 0 \in P
  <2>1. 0 \in 0 .. n + 1 - first /\ first .. last(0) = {}
    BY <1>1
  <2>2. number(radix, d(0)) = 0 /\ g[first .. last(0)] = 0 /\ p[n - last(0)] \in Nat
    <3>1. n - last(0) \in 0 .. n
      BY <1>1
    <3>2. d(0) \in Digitals /\ Len(d(0)) = 0
      BY <1>3, <2>1
    <3> QED
      BY <1>2, <2>1, <3>1, <3>2, NumberNat DEF Sums
  <2> HIDE DEF d, last, n
  <2> QED
    BY <2>1, <2>2
<1>5. ASSUME NEW k \in 0 .. n - first, k \in P PROVE k + 1 \in P
  <2> DEFINE l == last(k)
             v == number(radix, d(k))
             c == DigitValue[w[l + 1]]
  <2>1. k \in 0 .. n + 1 - first /\ k + 1 \in 0 .. n + 1 - first
    BY <1>1
  <2>2. last(k + 1) = l + 1 /\ l + 1 \in first .. n /\ l \in Nat
    BY <1>1
  <2>3. number(radix, d(k + 1)) = radix * v + c
    <3> DEFINE a == d(k)
               b == d(k + 1)
    <3>1. a \in Digitals /\ Len(a) = k /\ \A i \in 1 .. k : a[i] = w[first + i - 1]
      BY <1>3, <2>1
    <3>2. /\ b \in Digitals /\ Len(b) = k + 1
          /\ \A i \in 1 .. k + 1 : b[i] = w[first + i - 1]
      BY <1>3, <2>1
    <3> HIDE DEF a, b
    <3>3. k \in Nat /\ first + (k + 1) - 1 = l + 1
      BY <1>1
    <3>4. b[Len(b)] = w[l + 1] /\ \A i \in 1 .. Len(a) : b[i] = a[i]
      <4>1. k + 1 \in 1 .. k + 1 /\ \A i \in 1 .. k : i \in 1 .. k + 1
        BY <3>3
      <4> HIDE DEF l
      <4>2. b[k + 1] = w[l + 1]
        BY <3>2, <3>3, <4>1
      <4>3. \A i \in 1 .. k : b[i] = a[i]
        BY <3>1, <3>2, <4>1
      <4> QED
        BY <3>1, <3>2, <4>2, <4>3
    <3>5. number(radix, b) = radix * number(radix, a) + DigitValue[b[Len(b)]]
      BY <3>1, <3>2, <3>4, NumberStep
    <3> QED
      BY <3>4, <3>5 DEF a, b
  <2>4. v * p[n - l] = g[first .. l]
    BY <1>5
  <2>5. p[n - l] = radix * p[n - (l + 1)]
    <3>1. n - l \in 1 .. n /\ (n - l) - 1 = n - (l + 1)
      BY <1>1, <2>2
    <3> HIDE DEF l
    <3> QED
      BY <1>2, <3>1
  <2>6. g[first .. l + 1] = c * p[n - (l + 1)] + g[first .. l]
    <3>1. /\ first .. l + 1 \in SUBSET (1 .. n) /\ l + 1 \in first .. l + 1
          /\ (first .. l + 1) \ {l + 1} = first .. l
      <4>1. first \in 1 .. n /\ n \in Nat
        BY <1>1, <2>2
      <4> HIDE DEF l, n
      <4>2. \A i \in first .. l + 1 : i \in 1 .. n
        BY <2>2, <4>1
      <4>3. l + 1 \in first .. l + 1 /\ (first .. l + 1) \ {l + 1} = first .. l
        BY <2>2, <4>1
      <4> QED
        BY <4>2, <4>3
    <3>2. f[l + 1] = c * p[n - (l + 1)]
      BY <1>p, <2>2
    <3> DEFINE T == first .. l + 1
    <3>3. g[T] = f[l + 1] + g[T \ {l + 1}]
      <4> HIDE DEF T, l
      <4> QED
        BY <3>1, Zenon DEF Sums, T, n
    <3> QED
      BY <3>1, <3>2, <3>3
  <2>7. v \in Nat /\ c \in Nat /\ p[n - (l + 1)] \in Nat
    <3>1. v \in Nat
      BY <1>3, <2>1, NumberNat
    <3>2. c \in Nat
      BY <1>p, <2>2, Digits
    <3>3. n - (l + 1) \in 0 .. n
      BY <1>1, <2>2
    <3> QED
      BY <1>2, <3>1, <3>2, <3>3
  <2> DEFINE q == p[n - (l + 1)]
  <2>8. (radix * v + c) * q = v * (radix * q) + c * q
    <3>1. q \in Nat
      BY <2>7
    <3> HIDE DEF v, c, q
    <3> QED
      BY <2>7, <3>1, Distribute
  <2>9. number(radix, d(k + 1)) * p[n - last(k + 1)] = g[first .. last(k + 1)]
    <3>1. g[first .. l + 1] = c * q + v * (radix * q)
      BY <2>4, <2>5, <2>6
    <3>2. c * q \in Nat /\ v * (radix * q) \in Nat
      <4>1. q \in Nat
        BY <2>7
      <4> HIDE DEF v, c, q
      <4> QED
        BY <2>7, <4>1
    <3>3. number(radix, d(k + 1)) * p[n - last(k + 1)] = (radix * v + c) * q
      BY <2>2, <2>3
    <3>4. g[first .. last(k + 1)] = g[first .. l + 1]
      BY <2>2
    <3> DEFINE A == c * q
               B == v * (radix * q)
    <3>5. A \in Nat /\ B \in Nat /\ (radix * v + c) * q = B + A /\ g[first .. l + 1] = A + B
      BY <2>8, <3>1, <3>2
    <3> HIDE DEF A, B
    <3>6. A + B = B + A
      BY <3>5
    <3> QED
      BY <3>3, <3>4, <3>5, <3>6, Zenon
  <2> QED
    BY <2>1, <2>9
<1> HIDE DEF P
<1>6. n + 1 - first \in P
  <2>1. 0 .. n + 1 - first \subseteq P
    <3>1. \A k \in 0 .. (n + 1 - first) - 1 : k \in P => k + 1 \in P
      <4>1. \A k \in 0 .. (n + 1 - first) - 1 : k \in 0 .. n - first
        BY <1>1
      <4> QED
        BY <1>5, <4>1
    <3> QED
      BY <1>1, <1>4, <3>1, RangeInduction
  <2> QED
    BY <1>1, <2>1
<1>7. last(n + 1 - first) = n /\ n - n = 0
  BY <1>1
<1>8. number(radix, SubSeq(w, first, n)) * p[0] = g[first .. n]
  BY <1>6, <1>7 DEF P
<1>9. number(radix, SubSeq(w, first, n)) \in Nat
  <2>1. n + 1 - first \in 0 .. n + 1 - first
    BY <1>1
  <2> QED
    BY <1>3, <1>7, <2>1, NumberNat
<1> QED
  BY <1>2, <1>8, <1>9

\* The lexeme of a number: its radix, and the place of its first digit.
NumberWord(w, radix, first) ==
    /\ IF Len(w) > 1 /\ w[2] = "x" THEN radix = 16 /\ first = 3
                                   ELSE radix = 10 /\ first = 1
    /\ \A k \in first .. Len(w) : w[k] \in Hexadecimals

LEMMA PositionalIs ==
    ASSUME NEW w \in Seq(STRING), NEW radix \in Nat, NEW first \in 1 .. Len(w) + 1,
           NumberWord(w, radix, first)
    PROVE  Positional(w) = number(radix, SubSeq(w, first, Len(w)))
<1> DEFINE n == Len(w)
           hex == Len(w) > 1 /\ w[2] = "x"
           S == (IF hex THEN 3 ELSE 1) .. Len(w)
           p == CHOOSE p : Powers(p, IF hex THEN 16 ELSE 10, Len(w))
           Term(k) == DigitValue[w[k]] * p[Len(w) - k]
           Total(h) == h = [T \in SUBSET S |->
                            IF T = {} THEN 0
                            ELSE Term(CHOOSE x \in T : TRUE) + h[T \ {CHOOSE x \in T : TRUE}]]
           f == [k \in 1 .. n |-> IF k \in S THEN Term(k) ELSE 0]
<1>1. n \in Nat /\ S = first .. n /\ S \in SUBSET (1 .. n)
  BY DEF NumberWord
<1>2. Positional(w) = (CHOOSE h : Total(h))[S]
  BY Zenon DEF Positional, MapThenSumSet, MapThenFoldSet, Powers
<1>3. Powers(p, radix, n)
  <2>1. radix = IF hex THEN 16 ELSE 10
    BY DEF NumberWord
  <2>2. \E q : Powers(q, radix, n)
    BY <1>1, PowersExist
  <2> HIDE DEF hex
  <2> QED
    BY <2>1, <2>2, Zenon
<1> HIDE DEF p, hex
<1>4. p \in [0 .. n -> Nat]
  BY <1>1, <1>3, PowersAre
<1>5. ASSUME NEW k \in S PROVE Term(k) \in Nat
  <2>1. k \in first .. n
    BY <1>1
  <2>2. n - k \in 0 .. n /\ DigitValue[w[k]] \in Nat
    BY <1>1, <2>1, Digits DEF NumberWord
  <2>3. p[n - k] \in Nat
    BY <1>4, <2>2
  <2> QED
    BY <2>2, <2>3
<1> HIDE DEF S
<1>6. f \in [1 .. n -> Nat] /\ \A k \in S : f[k] = Term(k)
  <2> HIDE DEF Term
  <2>1. f \in [1 .. n -> Nat]
    BY <1>5
  <2>2. \A k \in S : f[k] = Term(k)
    BY <1>1
  <2> QED
    BY <2>1, <2>2
<1>7. PICK g \in [SUBSET (1 .. n) -> Nat] : Sums(g, n, f)
  <2> HIDE DEF f
  <2> QED
    BY <1>1, <1>6, SumExists
<1>8. (\E h : Summed(h, S, f)) /\ \A h : Summed(h, S, f) => h[S] = g[S]
  <2>1. f \in [1 .. n -> Nat] /\ S \in SUBSET (1 .. n)
    BY <1>1, <1>6
  <2> HIDE DEF f, S, n, Term, Total
  <2> QED
    BY <1>1, <1>7, <2>1, SumChosen, Zenon
<1>9. ASSUME NEW h PROVE Total(h) <=> Summed(h, S, f)
  <2>1. ASSUME NEW T \in SUBSET S, T # {}
        PROVE  Term(CHOOSE x \in T : TRUE) = f[CHOOSE x \in T : TRUE]
    <3>1. (CHOOSE x \in T : TRUE) \in S
      BY <2>1
    <3> HIDE DEF f, Term
    <3> QED
      BY <1>6, <3>1
  <2> HIDE DEF f, Term
  <2>2. [T \in SUBSET S |->
           IF T = {} THEN 0
           ELSE Term(CHOOSE x \in T : TRUE) + h[T \ {CHOOSE x \in T : TRUE}]]
          = [T \in SUBSET S |->
               IF T = {} THEN 0
               ELSE f[CHOOSE x \in T : TRUE] + h[T \ {CHOOSE x \in T : TRUE}]]
    BY <2>1
  <2> QED
    BY <2>2, Zenon DEF Summed
<1>10. (CHOOSE h : Total(h))[S] = g[S]
  <2>1. Summed(CHOOSE h : Total(h), S, f)
    <3> HIDE DEF Total
    <3> QED
      BY <1>8, <1>9, Zenon
  <2> HIDE DEF Total
  <2> QED
    BY <1>8, <2>1, Zenon
<1>11. number(radix, SubSeq(w, first, Len(w))) = g[first .. Len(w)]
  <2>1. Placed(f, w, first, p)
    <3> HIDE DEF f
    <3> QED
      BY <1>1, <1>6 DEF Placed, NumberWord
  <2>2. f \in [1 .. Len(w) -> Nat] /\ Powers(p, radix, Len(w)) /\ Sums(g, Len(w), f)
    BY <1>3, <1>6, <1>7
  <2> HIDE DEF f, Term, Total
  <2> QED
    BY <2>1, <2>2, Horner
<1> QED
  BY <1>1, <1>2, <1>10, <1>11

(***************************************************************************)
(* One token.                                                              *)
(***************************************************************************)
LEMMA Languages ==
    ASSUME NEW w
    PROVE  /\ InLanguage("IDENTIFIER", w) <=>
                is_alpha(w[1]) /\ \A k \in 2 .. Len(w) : is_alphanum(w[k])
           /\ InLanguage("NUMBER", w) <=>
                \/ \A k \in 1 .. Len(w) : is_digit(w[k])
                \/ /\ Len(w) > 1 /\ w[1] = "0" /\ w[2] = "x"
                   /\ \A k \in 3 .. Len(w) : is_hexdigit(w[k])
           /\ InLanguage("COMMA", w) <=> w = <<",">>
           /\ InLanguage("COLON", w) <=> w = <<":">>
           /\ InLanguage("UNKNOWN", w) <=>
                /\ \A k \in 1 .. Len(w) : not_whitespace(w[k])
                /\ ~is_alphanum(w[1]) /\ w[1] \notin {",", ":"}
BY DEF InLanguage

\* w is the n characters of text from s on.
Word_(w, text, s, n) ==
    w \in Seq(STRING) /\ Len(w) = n /\ \A k \in 1 .. n : w[k] = text[s + k - 1]

LEMMA Lexemes ==
    ASSUME NEW text \in Seq(STRING), NEW s \in 1 .. Len(text),
           NEW e \in s + 1 .. Len(text) + 1
    PROVE  /\ Word_(SubSeq(text, s, e - 1), text, s, e - s)
           /\ e <= Len(text) =>
                Word_(Append(SubSeq(text, s, e - 1), text[e]), text, s, e - s + 1)
<1> DEFINE w == SubSeq(text, s, e - 1)
<1>1. Word_(w, text, s, e - s)
  BY SubSeqProperties DEF Word_
<1>2. ASSUME e <= Len(text) PROVE Word_(Append(w, text[e]), text, s, e - s + 1)
  <2>1. text[e] \in STRING /\ e - s \in Nat
    BY <1>2
  <2> HIDE DEF w
  <2>2. /\ Append(w, text[e]) \in Seq(STRING) /\ Len(Append(w, text[e])) = e - s + 1
        /\ \A k \in 1 .. e - s : Append(w, text[e])[k] = w[k]
        /\ Append(w, text[e])[e - s + 1] = text[e]
    BY <1>1, <2>1, AppendProperties DEF Word_
  <2>3. \A k \in 1 .. e - s + 1 : k \in 1 .. e - s \/ (k = e - s + 1 /\ s + k - 1 = e)
    OBVIOUS
  <2> QED
    BY <1>1, <2>2, <2>3 DEF Word_
<1> QED
  BY <1>1, <1>2

\* A token that stands where it should and is what it should be.
StandsAt(text, s, t) ==
    /\ t.type # "EOF" /\ t.start = s /\ t.end \in s + 1 .. Len(text) + 1
    /\ \A j \in s .. t.end - 1 : ~is_whitespace(text[j])
    /\ ExactToken(text, t)

LEMMA Identifiers ==
    ASSUME NEW text \in Seq(STRING), NEW s \in 1 .. Len(text), is_alpha(text[s])
    PROVE  StandsAt(text, s, token("IDENTIFIER", s, past(text, s, is_alphanum)))
<1> DEFINE e == past(text, s, is_alphanum)
           t == token("IDENTIFIER", s, e)
           w == SubSeq(text, s, e - 1)
<1>1. Ends(text, s, e, is_alphanum)
  BY RunsEnd
<1> HIDE DEF e
<1>2. is_alphanum(text[s])
  BY Characters
<1>3. /\ e \in s + 1 .. Len(text) + 1 /\ \A j \in s .. e - 1 : is_alphanum(text[j])
      /\ e <= Len(text) => ~is_alphanum(text[e])
  BY <1>1, <1>2 DEF Ends
<1>4. t.type = "IDENTIFIER" /\ t.start = s /\ t.end = e /\ lexeme(text, t) = w
  BY DEF token, lexeme
<1>5. /\ Word_(w, text, s, e - s)
      /\ e <= Len(text) => Word_(Append(w, text[e]), text, s, e - s + 1)
  BY <1>3, Lexemes
<1> HIDE DEF w, t
<1>6. InLanguage("IDENTIFIER", w)
  <2>1. w[1] = text[s] /\ Len(w) = e - s
    BY <1>3, <1>5 DEF Word_
  <2>2. \A k \in 2 .. Len(w) : w[k] = text[s + k - 1] /\ s + k - 1 \in s .. e - 1
    BY <1>3, <1>5 DEF Word_
  <2> QED
    BY <1>3, <2>1, <2>2, Languages
<1>7. ASSUME e <= Len(text) PROVE ~InLanguage("IDENTIFIER", Append(w, text[e]))
  <2> DEFINE v == Append(w, text[e])
             k == e - s + 1
  <2>1. k \in 2 .. k /\ k \in 1 .. k /\ s + k - 1 = e
    BY <1>3
  <2>2. Len(v) = k /\ v[k] = text[e]
    BY <1>5, <1>7, <2>1 DEF Word_
  <2> HIDE DEF v, k
  <2>3. ~InLanguage("IDENTIFIER", v)
    BY <1>3, <1>7, <2>1, <2>2, Languages
  <2> QED
    BY <2>3 DEF v
<1>8. \A j \in s .. e - 1 : ~is_whitespace(text[j])
  BY <1>3, Characters
<1>9. StandsAt(text, s, t)
  BY <1>3, <1>4, <1>6, <1>7, <1>8 DEF StandsAt, ExactToken
<1> QED
  BY <1>9 DEF t, e

LEMMA Marks ==
    ASSUME NEW text \in Seq(STRING), NEW s \in 1 .. Len(text)
    PROVE  /\ text[s] = "," => StandsAt(text, s, token("COMMA", s, s + 1))
           /\ text[s] = ":" => StandsAt(text, s, token("COLON", s, s + 1))
<1> DEFINE w == SubSeq(text, s, (s + 1) - 1)
<1>1. s + 1 \in s + 1 .. Len(text) + 1 /\ (s + 1) - s = 1 /\ (s + 1) - s + 1 = 2
  OBVIOUS
<1>2. /\ Word_(w, text, s, 1)
      /\ s + 1 <= Len(text) => Word_(Append(w, text[s + 1]), text, s, 2)
  BY <1>1, Lexemes
<1> HIDE DEF w
<1>3. \A c \in STRING : text[s] = c => w = <<c>>
  <2>1. w \in Seq(STRING) /\ Len(w) = 1 /\ w[1] = text[s]
    BY <1>2 DEF Word_
  <2>2. w = <<w[1]>>
    BY <2>1
  <2> QED
    BY <2>1, <2>2
<1>4. ASSUME s + 1 <= Len(text), NEW c PROVE Append(w, text[s + 1]) # <<c>>
  BY <1>2, <1>4 DEF Word_
<1>5. \A j \in s .. (s + 1) - 1 : j = s
  OBVIOUS
<1>6. ASSUME NEW type, NEW c \in STRING, c \in {",", ":"}, text[s] = c, type \in {"COMMA", "COLON"},
             \A v : InLanguage(type, v) <=> v = <<c>>
      PROVE  StandsAt(text, s, token(type, s, s + 1))
  <2> DEFINE t == token(type, s, s + 1)
  <2>1. /\ t.type = type /\ t.start = s /\ t.end = s + 1 /\ lexeme(text, t) = w
        /\ type # "EOF" /\ type # "NUMBER"
    BY <1>6 DEF token, lexeme, w
  <2> HIDE DEF t
  <2>2. InLanguage(type, w)
    <3>1. w = <<c>>
      BY <1>3, <1>6, Zenon
    <3> QED
      BY <1>6, <3>1, Zenon
  <2>3. s + 1 <= Len(text) => ~InLanguage(type, Append(w, text[s + 1]))
    BY <1>4, <1>6
  <2>4. \A j \in s .. (s + 1) - 1 : ~is_whitespace(text[j])
    BY <1>5, <1>6, Characters
  <2>5. ExactToken(text, t)
    BY <2>1, <2>2, <2>3, Zenon DEF ExactToken
  <2> QED
    BY <1>1, <2>1, <2>4, <2>5 DEF StandsAt, t
<1>7. ASSUME text[s] = "," PROVE StandsAt(text, s, token("COMMA", s, s + 1))
  <2>1. "COMMA" \in {"COMMA", "COLON"} /\ "," \in {",", ":"}
    OBVIOUS
  <2>3. "," \in STRING
    <3>1. text[s] \in STRING
      OBVIOUS
    <3> QED
      BY <1>7, <3>1, Zenon
  <2>2. \A v : InLanguage("COMMA", v) <=> v = <<",">>
    BY Languages
  <2> QED
    BY <1>6, <1>7, <2>1, <2>2, <2>3, Zenon
<1>8. ASSUME text[s] = ":" PROVE StandsAt(text, s, token("COLON", s, s + 1))
  <2>1. "COLON" \in {"COMMA", "COLON"} /\ ":" \in {",", ":"}
    OBVIOUS
  <2>3. ":" \in STRING
    <3>1. text[s] \in STRING
      OBVIOUS
    <3> QED
      BY <1>8, <3>1, Zenon
  <2>2. \A v : InLanguage("COLON", v) <=> v = <<":">>
    BY Languages
  <2> QED
    BY <1>6, <1>8, <2>1, <2>2, <2>3, Zenon
<1> QED
  BY <1>7, <1>8

\* A character that starts no word, no number and no mark.
Other(c) == ~is_whitespace(c) /\ ~is_alphanum(c) /\ c \notin {",", ":"}

LEMMA Others ==
    ASSUME NEW text \in Seq(STRING), NEW s \in 1 .. Len(text), Other(text[s])
    PROVE  StandsAt(text, s, token("UNKNOWN", s, past(text, s, not_whitespace)))
<1> DEFINE e == past(text, s, not_whitespace)
           t == token("UNKNOWN", s, e)
           w == SubSeq(text, s, e - 1)
<1>1. Ends(text, s, e, not_whitespace)
  BY RunsEnd
<1> HIDE DEF e
<1>2. not_whitespace(text[s])
  BY DEF Other, not_whitespace
<1>3. /\ e \in s + 1 .. Len(text) + 1 /\ \A j \in s .. e - 1 : not_whitespace(text[j])
      /\ e <= Len(text) => ~not_whitespace(text[e])
  BY <1>1, <1>2 DEF Ends
<1>4. t.type = "UNKNOWN" /\ t.start = s /\ t.end = e /\ lexeme(text, t) = w
  BY DEF token, lexeme
<1>5. /\ Word_(w, text, s, e - s)
      /\ e <= Len(text) => Word_(Append(w, text[e]), text, s, e - s + 1)
  BY <1>3, Lexemes
<1> HIDE DEF w, t
<1>6. InLanguage("UNKNOWN", w)
  <2>1. w[1] = text[s] /\ Len(w) = e - s
    BY <1>3, <1>5 DEF Word_
  <2>2. \A k \in 1 .. Len(w) : w[k] = text[s + k - 1] /\ s + k - 1 \in s .. e - 1
    BY <1>3, <1>5 DEF Word_
  <2> QED
    BY <1>3, <2>1, <2>2, Languages DEF Other
<1>7. ASSUME e <= Len(text) PROVE ~InLanguage("UNKNOWN", Append(w, text[e]))
  <2> DEFINE v == Append(w, text[e])
             k == e - s + 1
  <2>1. k \in 1 .. k /\ s + k - 1 = e
    BY <1>3
  <2>2. Len(v) = k /\ v[k] = text[e]
    BY <1>5, <1>7, <2>1 DEF Word_
  <2> HIDE DEF v, k
  <2>3. ~InLanguage("UNKNOWN", v)
    BY <1>3, <1>7, <2>1, <2>2, Languages
  <2> QED
    BY <2>3 DEF v
<1>8. \A j \in s .. e - 1 : ~is_whitespace(text[j])
  BY <1>3 DEF not_whitespace
<1>9. StandsAt(text, s, t)
  BY <1>3, <1>4, <1>6, <1>7, <1>8 DEF StandsAt, ExactToken
<1> QED
  BY <1>9 DEF t, e

\* The lexeme of a number written in digits of radix, from the first one on: the value
\* that is read is the one it denotes.
LEMMA NumberValue ==
    ASSUME NEW text \in Seq(STRING), NEW s \in 1 .. Len(text),
           NEW e \in s + 1 .. Len(text) + 1, NEW radix \in Nat, NEW first \in 1 .. e - s + 1,
           NumberWord(SubSeq(text, s, e - 1), radix, first)
    PROVE  number(radix, SubSeq(text, s + first - 1, e - 1))
             = Positional(SubSeq(text, s, e - 1))
<1> DEFINE w == SubSeq(text, s, e - 1)
<1>1. w \in Seq(STRING) /\ Len(w) = e - s /\ \A k \in 1 .. e - s : w[k] = text[s + k - 1]
  BY Lexemes DEF Word_
<1>2. Positional(w) = number(radix, SubSeq(w, first, Len(w)))
  <2> HIDE DEF w
  <2>1. first \in 1 .. Len(w) + 1
    BY <1>1
  <2> QED
    BY <1>1, <2>1, PositionalIs DEF w
<1>3. SubSeq(w, first, Len(w)) = SubSeq(text, s + first - 1, e - 1)
  <2> DEFINE a == SubSeq(w, first, Len(w))
             b == SubSeq(text, s + first - 1, e - 1)
             n == e - s + 1 - first
  <2> HIDE DEF w
  <2>1. /\ n \in Nat /\ first \in Nat \ {0} /\ s + first - 1 \in 1 .. Len(text) + 1
        /\ e - 1 \in s + first - 2 .. Len(text)
    OBVIOUS
  <2>2. a \in Seq(STRING) /\ Len(a) = n /\ \A k \in 1 .. n : a[k] = w[first + k - 1]
    BY <1>1, <2>1, SubSeqProperties
  <2>3. b \in Seq(STRING) /\ Len(b) = n /\ \A k \in 1 .. n : b[k] = text[(s + first - 1) + k - 1]
    BY <1>1, <2>1, SubSeqProperties
  <2> HIDE DEF a, b
  <2>4. ASSUME NEW k \in 1 .. n PROVE a[k] = b[k]
    <3>1. first + k - 1 \in 1 .. e - s /\ s + (first + k - 1) - 1 = (s + first - 1) + k - 1
      BY <2>1
    <3>2. w[first + k - 1] = text[s + (first + k - 1) - 1]
      BY <1>1, <3>1
    <3> HIDE DEF n
    <3> QED
      BY <2>2, <2>3, <3>1, <3>2
  <2>5. a = b
    BY <2>2, <2>3, <2>4, SeqEqual
  <2> QED
    BY <2>5 DEF a, b
<1> QED
  BY <1>2, <1>3

\* A number's token, when its digits, of radix, start at first and end before e.
LEMMA NumberStands ==
    ASSUME NEW text \in Seq(STRING), NEW s \in 1 .. Len(text),
           NEW e \in s + 1 .. Len(text) + 1, NEW radix \in Nat, NEW first \in 1 .. e - s + 1,
           NumberWord(SubSeq(text, s, e - 1), radix, first),
           InLanguage("NUMBER", SubSeq(text, s, e - 1)),
           e <= Len(text) => ~InLanguage("NUMBER", Append(SubSeq(text, s, e - 1), text[e])),
           \A j \in s .. e - 1 : is_alphanum(text[j]),
           NEW value, value = number(radix, SubSeq(text, s + first - 1, e - 1))
    PROVE  StandsAt(text, s, [token("NUMBER", s, e) EXCEPT !.value = value])
<1> DEFINE t == [token("NUMBER", s, e) EXCEPT !.value = value]
           w == SubSeq(text, s, e - 1)
<1>1. /\ t.type = "NUMBER" /\ t.start = s /\ t.end = e /\ t.value = value
      /\ lexeme(text, t) = w
  BY DEF token, lexeme
<1>2. value = Positional(w)
  BY NumberValue
<1> HIDE DEF t, w
<1>3. ExactToken(text, t)
  BY <1>1, <1>2 DEF ExactToken, w
<1>4. \A j \in s .. e - 1 : ~is_whitespace(text[j])
  BY Characters
<1>5. StandsAt(text, s, t)
  BY <1>1, <1>3, <1>4 DEF StandsAt
<1> QED
  BY <1>5 DEF t

LEMMA Decimal ==
    ASSUME NEW text \in Seq(STRING), NEW s \in 1 .. Len(text), is_digit(text[s]),
           ~(text[s] = "0" /\ s < Len(text) /\ text[s + 1] = "x")
    PROVE  StandsAt(text, s, read_number(text, s))
<1> DEFINE e == past(text, s, is_digit)
           w == SubSeq(text, s, e - 1)
           value == number(10, SubSeq(text, s, e - 1))
<1>1. Ends(text, s, e, is_digit)
  BY RunsEnd
<1>2. read_number(text, s) = [token("NUMBER", s, e) EXCEPT !.value = value]
  BY Zenon DEF read_number
<1> HIDE DEF e
<1>3. /\ e \in s + 1 .. Len(text) + 1 /\ \A j \in s .. e - 1 : is_digit(text[j])
      /\ e <= Len(text) => ~is_digit(text[e])
  BY <1>1 DEF Ends
<1>4. /\ Word_(w, text, s, e - s)
      /\ e <= Len(text) => Word_(Append(w, text[e]), text, s, e - s + 1)
  BY <1>3, Lexemes
<1>5. s + 1 - 1 = s /\ 10 \in Nat /\ 1 \in 1 .. e - s + 1
  BY <1>3
<1> HIDE DEF w, value
<1>6. Len(w) = e - s /\ \A k \in 1 .. Len(w) : is_digit(w[k])
  <2>1. \A k \in 1 .. e - s : w[k] = text[s + k - 1] /\ s + k - 1 \in s .. e - 1
    BY <1>3, <1>4 DEF Word_
  <2> QED
    BY <1>3, <1>4, <2>1 DEF Word_
<1>7. NumberWord(w, 10, 1)
  <2>1. ~(Len(w) > 1 /\ w[2] = "x")
    <3>1. ASSUME Len(w) > 1 PROVE 2 \in 1 .. Len(w)
      BY <1>3, <1>6, <3>1
    <3>2. ~is_digit("x")
      BY Characters
    <3> QED
      BY <1>6, <3>1, <3>2
  <2>2. \A k \in 1 .. Len(w) : w[k] \in Hexadecimals
    BY <1>6, Characters, Digits
  <2> QED
    BY <2>1, <2>2 DEF NumberWord
<1>8. InLanguage("NUMBER", w)
  BY <1>6, Languages
<1>9. ASSUME e <= Len(text) PROVE ~InLanguage("NUMBER", Append(w, text[e]))
  <2> DEFINE v == Append(w, text[e])
             k == e - s + 1
  <2>1. k \in 1 .. k /\ s + k - 1 = e /\ k >= 2 /\ 1 \in 1 .. k /\ 2 \in 1 .. k
    BY <1>3
  <2>2. Len(v) = k /\ v[k] = text[e] /\ v[1] = text[s] /\ v[2] = text[s + 1]
    BY <1>4, <1>9, <2>1 DEF Word_
  <2> HIDE DEF v, k
  <2>3. ~ \A j \in 1 .. Len(v) : is_digit(v[j])
    BY <1>3, <1>9, <2>1, <2>2
  <2>4. ~(v[1] = "0" /\ v[2] = "x")
    <3>1. s < Len(text)
      BY <1>3, <1>9
    <3> QED
      BY <2>2, <3>1
  <2>5. ~InLanguage("NUMBER", v)
    BY <2>3, <2>4, Languages
  <2> QED
    BY <2>5 DEF v
<1>10. \A j \in s .. e - 1 : is_alphanum(text[j])
  BY <1>3, Characters
<1>11. value = number(10, SubSeq(text, s + 1 - 1, e - 1))
  BY <1>5 DEF value
<1>12. StandsAt(text, s, [token("NUMBER", s, e) EXCEPT !.value = value])
  BY <1>3, <1>5, <1>7, <1>8, <1>9, <1>10, <1>11, NumberStands DEF w
<1> QED
  BY <1>2, <1>12

LEMMA Hexadecimal ==
    ASSUME NEW text \in Seq(STRING), NEW s \in 1 .. Len(text),
           text[s] = "0", s < Len(text), text[s + 1] = "x"
    PROVE  StandsAt(text, s, read_number(text, s))
<1> DEFINE e == past(text, s + 2, is_hexdigit)
           w == SubSeq(text, s, e - 1)
           value == number(16, SubSeq(text, s + 2, e - 1))
<1>1. Ends(text, s + 2, e, is_hexdigit)
  <2>1. s + 2 \in 1 .. Len(text) + 1
    OBVIOUS
  <2> QED
    BY <2>1, RunsEnd
<1>2. read_number(text, s) = [token("NUMBER", s, e) EXCEPT !.value = value]
  BY Zenon DEF read_number
<1> HIDE DEF e
<1>3. /\ e \in s + 2 .. Len(text) + 1 /\ \A j \in s + 2 .. e - 1 : is_hexdigit(text[j])
      /\ e <= Len(text) => ~is_hexdigit(text[e])
  BY <1>1 DEF Ends
<1>4. /\ Word_(w, text, s, e - s)
      /\ e <= Len(text) => Word_(Append(w, text[e]), text, s, e - s + 1)
  <2>1. e \in s + 1 .. Len(text) + 1
    BY <1>3
  <2> QED
    BY <2>1, Lexemes
<1>5. s + 3 - 1 = s + 2 /\ 16 \in Nat /\ 3 \in 1 .. e - s + 1 /\ e \in s + 1 .. Len(text) + 1
  BY <1>3
<1> HIDE DEF w, value
<1>6. /\ Len(w) = e - s /\ Len(w) > 1 /\ w[1] = "0" /\ w[2] = "x"
      /\ \A k \in 3 .. Len(w) : is_hexdigit(w[k])
  <2>1. \A k \in 3 .. e - s : w[k] = text[s + k - 1] /\ s + k - 1 \in s + 2 .. e - 1
    BY <1>3, <1>4 DEF Word_
  <2>2. Len(w) = e - s /\ e - s > 1 /\ w[1] = text[s] /\ w[2] = text[s + 1]
    BY <1>3, <1>4 DEF Word_
  <2> QED
    BY <1>3, <2>1, <2>2
<1>7. NumberWord(w, 16, 3)
  BY <1>6, Digits DEF NumberWord
<1>8. InLanguage("NUMBER", w)
  BY <1>6, Languages
<1>9. ASSUME e <= Len(text) PROVE ~InLanguage("NUMBER", Append(w, text[e]))
  <2> DEFINE v == Append(w, text[e])
             k == e - s + 1
  <2>1. k \in 1 .. k /\ s + k - 1 = e /\ k \in 3 .. k /\ 2 \in 1 .. k
    BY <1>3
  <2>2. Len(v) = k /\ v[k] = text[e] /\ v[2] = text[s + 1]
    BY <1>4, <1>9, <2>1 DEF Word_
  <2> HIDE DEF v, k
  <2>3. ~ \A j \in 3 .. Len(v) : is_hexdigit(v[j])
    BY <1>3, <1>9, <2>1, <2>2
  <2>4. ~ \A j \in 1 .. Len(v) : is_digit(v[j])
    <3>1. ~is_digit("x")
      BY Characters
    <3> QED
      BY <2>1, <2>2, <3>1
  <2>5. ~InLanguage("NUMBER", v)
    BY <2>3, <2>4, Languages
  <2> QED
    BY <2>5 DEF v
<1>10. \A j \in s .. e - 1 : is_alphanum(text[j])
  <2>1. \A j \in s .. e - 1 : j = s \/ j = s + 1 \/ j \in s + 2 .. e - 1
    BY <1>3
  <2>2. is_alphanum("0") /\ is_alphanum("x")
    BY Characters
  <2> QED
    BY <1>3, <2>1, <2>2, Characters
<1>11. value = number(16, SubSeq(text, s + 3 - 1, e - 1))
  BY <1>5 DEF value
<1>12. StandsAt(text, s, [token("NUMBER", s, e) EXCEPT !.value = value])
  BY <1>5, <1>7, <1>8, <1>9, <1>10, <1>11, NumberStands DEF w
<1> QED
  BY <1>2, <1>12

\* The token at or after position i.
Lexed(text, i, t) ==
    \/ t.type = "EOF" /\ \A j \in i .. Len(text) : is_whitespace(text[j])
    \/ /\ t.start \in i .. Len(text) /\ StandsAt(text, t.start, t)
       /\ \A j \in i .. t.start - 1 : is_whitespace(text[j])

LEMMA TokenAt ==
    ASSUME NEW text \in Seq(STRING), NEW s \in 1 .. Len(text), ~is_whitespace(text[s])
    PROVE  StandsAt(text, s, token_at(text, s))
<1> DEFINE c == text[s]
           t == token_at(text, s)
<1>1. s <= Len(text) /\ ~(s > Len(text))
  OBVIOUS
<1>2. CASE is_alpha(c)
  <2>1. ~is_digit(c) /\ c # ":" /\ c # ","
    BY <1>2, Characters
  <2>2. t = token("IDENTIFIER", s, past(text, s, is_alphanum))
    BY <1>1, <1>2, <2>1, Zenon DEF token_at
  <2> QED
    BY <1>2, <2>2, Identifiers
<1>3. CASE is_digit(c)
  <2>1. ~is_alpha(c) /\ c # ":" /\ c # ","
    BY <1>3, Characters
  <2>2. t = read_number(text, s)
    BY <1>1, <1>3, <2>1, Zenon DEF token_at
  <2>3. CASE c = "0" /\ s < Len(text) /\ text[s + 1] = "x"
    BY <2>2, <2>3, Hexadecimal
  <2>4. CASE ~(c = "0" /\ s < Len(text) /\ text[s + 1] = "x")
    BY <1>3, <2>2, <2>4, Decimal
  <2> QED
    BY <2>3, <2>4
<1>4. CASE c = ":"
  <2>1. ~is_alpha(c) /\ ~is_digit(c) /\ c # ","
    BY <1>4, Characters
  <2>2. t = token("COLON", s, s + 1)
    BY <1>1, <1>4, <2>1, Zenon DEF token_at
  <2> QED
    BY <1>4, <2>2, Marks
<1>5. CASE c = ","
  <2>1. ~is_alpha(c) /\ ~is_digit(c) /\ c # ":"
    BY <1>5, Characters
  <2>2. t = token("COMMA", s, s + 1)
    BY <1>1, <1>5, <2>1, Zenon DEF token_at
  <2> QED
    BY <1>5, <2>2, Marks
<1>6. CASE ~is_alpha(c) /\ ~is_digit(c) /\ c # ":" /\ c # ","
  <2>1. t = token("UNKNOWN", s, past(text, s, not_whitespace))
    BY <1>1, <1>6, Zenon DEF token_at
  <2>2. Other(c)
    BY <1>6 DEF Other, is_alphanum
  <2> QED
    BY <2>1, <2>2, Others
<1> QED
  BY <1>2, <1>3, <1>4, <1>5, <1>6

LEMMA NextToken ==
    ASSUME NEW text \in Seq(STRING), NEW i \in 1 .. Len(text) + 1
    PROVE  Lexed(text, i, lexer_next(text, i))
<1> DEFINE s == past(text, i, is_whitespace)
           t == lexer_next(text, i)
<1>1. Ends(text, i, s, is_whitespace)
  BY RunsEnd
<1>2. t = token_at(text, s)
  BY Zenon DEF lexer_next
<1> HIDE DEF t, s
<1>3. /\ s \in i .. Len(text) + 1 /\ \A j \in i .. s - 1 : is_whitespace(text[j])
      /\ s <= Len(text) => ~is_whitespace(text[s])
  BY <1>1 DEF Ends
<1>4. CASE s > Len(text)
  <2>1. s - 1 = Len(text) /\ ~(s <= Len(text))
    BY <1>3, <1>4
  <2>2. t = token("EOF", s, s)
    BY <1>2, <1>4, <2>1, Zenon DEF token_at
  <2>3. t.type = "EOF"
    BY <2>2 DEF token
  <2> QED
    BY <1>3, <2>1, <2>3 DEF Lexed, t
<1>5. CASE s <= Len(text)
  <2>1. s \in i .. Len(text) /\ s \in 1 .. Len(text)
    BY <1>3, <1>5
  <2>2. StandsAt(text, s, t)
    BY <1>2, <1>3, <1>5, <2>1, TokenAt
  <2> QED
    BY <1>3, <2>1, <2>2 DEF Lexed, StandsAt, t
<1> QED
  BY <1>3, <1>4, <1>5

(***************************************************************************)
(* The tokens of a line.                                                   *)
(***************************************************************************)
\* The tokens of a line are in a set of their own.
TokensOf(text) == {lexer_next(text, i) : i \in 1 .. Len(text) + 1}

\* ts are the tokens from position i on: each stands where it should, and every
\* character that is not blank, but none before i, is in exactly one.
Cuts(text, i, ts) ==
    /\ ts \in Seq(TokensOf(text))
    /\ \A k \in DOMAIN ts : StandsAt(text, ts[k].start, ts[k])
    /\ \A p \in DOMAIN text :
         IF p < i \/ is_whitespace(text[p])
         THEN \A k \in DOMAIN ts : p \notin ts[k].start .. ts[k].end - 1
         ELSE \E k \in DOMAIN ts : \A j \in DOMAIN ts :
                p \in ts[j].start .. ts[j].end - 1 <=> j = k

\* The tokens from i on are the next one and those from its end on.
LEMMA NothingLeft ==
    ASSUME NEW text \in Seq(STRING), NEW i \in 1 .. Len(text) + 1,
           \A j \in i .. Len(text) : is_whitespace(text[j])
    PROVE  Cuts(text, i, <<>>)
<1>1. \A p \in DOMAIN text : p < i \/ is_whitespace(text[p])
  OBVIOUS
<1>2. <<>> \in Seq(TokensOf(text)) /\ DOMAIN <<>> = {}
  OBVIOUS
<1> QED
  BY <1>1, <1>2 DEF Cuts

LEMMA OneMore ==
    ASSUME NEW text \in Seq(STRING), NEW i \in 1 .. Len(text), NEW t \in TokensOf(text),
           t.start \in i .. Len(text), StandsAt(text, t.start, t),
           \A j \in i .. t.start - 1 : is_whitespace(text[j]),
           NEW rest, Cuts(text, t.end, rest)
    PROVE  Cuts(text, i, <<t>> \o rest)
<1> DEFINE ts == <<t>> \o rest
<1>1. rest \in Seq(TokensOf(text)) /\ Len(rest) \in Nat /\ DOMAIN rest = 1 .. Len(rest)
  BY DEF Cuts
<1>2. /\ ts \in Seq(TokensOf(text)) /\ Len(ts) = Len(rest) + 1
      /\ DOMAIN ts = 1 .. Len(rest) + 1
      /\ ts[1] = t /\ \A k \in 1 .. Len(rest) : ts[k + 1] = rest[k]
  BY <1>1
<1> HIDE DEF ts
<1>3. \A k \in DOMAIN ts : k = 1 \/ (k - 1 \in DOMAIN rest /\ ts[k] = rest[k - 1])
  <2>1. ASSUME NEW k \in DOMAIN ts, k # 1 PROVE k - 1 \in DOMAIN rest /\ ts[k] = rest[k - 1]
    <3>1. k - 1 \in 1 .. Len(rest) /\ (k - 1) + 1 = k
      BY <1>1, <1>2, <2>1
    <3> QED
      BY <1>1, <1>2, <3>1
  <2> QED
    BY <2>1
<1>4. t.end \in t.start + 1 .. Len(text) + 1
  BY DEF StandsAt
<1>5. \A k \in DOMAIN ts : StandsAt(text, ts[k].start, ts[k])
  BY <1>2, <1>3 DEF Cuts
<1>6. ASSUME NEW p \in DOMAIN text
      PROVE  IF p < i \/ is_whitespace(text[p])
             THEN \A k \in DOMAIN ts : p \notin ts[k].start .. ts[k].end - 1
             ELSE \E k \in DOMAIN ts : \A j \in DOMAIN ts :
                    p \in ts[j].start .. ts[j].end - 1 <=> j = k
  <2>1. /\ p < t.end \/ is_whitespace(text[p]) =>
             \A k \in DOMAIN rest : p \notin rest[k].start .. rest[k].end - 1
        /\ ~(p < t.end \/ is_whitespace(text[p])) =>
             \E k \in DOMAIN rest : \A j \in DOMAIN rest :
                p \in rest[j].start .. rest[j].end - 1 <=> j = k
    BY DEF Cuts
  <2>2. p \in Nat /\ i \in Nat
    OBVIOUS
  <2>3. CASE p < i \/ is_whitespace(text[p])
    <3>1. p \notin t.start .. t.end - 1
      <4>1. \A j \in t.start .. t.end - 1 : ~is_whitespace(text[j])
        BY DEF StandsAt
      <4>2. p < i => p < t.start
        BY <2>2
      <4> QED
        BY <2>2, <2>3, <4>1, <4>2
    <3>2. p < t.end \/ is_whitespace(text[p])
      BY <1>4, <2>2, <2>3
    <3>3. ASSUME NEW k \in DOMAIN ts PROVE p \notin ts[k].start .. ts[k].end - 1
      BY <1>2, <1>3, <2>1, <3>1, <3>2
    <3> QED
      BY <2>3, <3>3
  <2>4. CASE ~(p < i \/ is_whitespace(text[p])) /\ p < t.end
    <3>1. p \in t.start .. t.end - 1
      BY <1>4, <2>2, <2>4
    <3>2. ASSUME NEW j \in DOMAIN ts PROVE p \in ts[j].start .. ts[j].end - 1 <=> j = 1
      BY <1>2, <1>3, <2>1, <2>4, <3>1
    <3>3. 1 \in DOMAIN ts
      BY <1>1, <1>2
    <3> QED
      BY <2>4, <3>2, <3>3
  <2>5. CASE ~(p < i \/ is_whitespace(text[p])) /\ ~(p < t.end)
    <3>1. PICK k \in DOMAIN rest : \A j \in DOMAIN rest :
                p \in rest[j].start .. rest[j].end - 1 <=> j = k
      BY <2>1, <2>5
    <3>2. p \notin t.start .. t.end - 1
      BY <1>4, <2>2, <2>5
    <3>3. k + 1 \in DOMAIN ts /\ k \in Nat \ {0}
      BY <1>1, <1>2
    <3>4. ASSUME NEW j \in DOMAIN ts PROVE p \in ts[j].start .. ts[j].end - 1 <=> j = k + 1
      <4>1. CASE j = 1
        BY <1>2, <3>2, <3>3, <4>1
      <4>2. CASE j # 1
        <5>1. j - 1 \in DOMAIN rest /\ ts[j] = rest[j - 1]
          BY <1>3, <4>2
        <5>2. p \in ts[j].start .. ts[j].end - 1 <=> j - 1 = k
          BY <3>1, <5>1
        <5>3. j - 1 = k <=> j = k + 1
          BY <1>2, <3>3
        <5> QED
          BY <5>2, <5>3
      <4> QED
        BY <4>1, <4>2
    <3> QED
      BY <2>5, <3>3, <3>4
  <2> QED
    BY <2>3, <2>4, <2>5
<1>7. Cuts(text, i, ts)
  BY <1>2, <1>5, <1>6, Zenon DEF Cuts
<1> QED
  BY <1>7 DEF ts

\* from obeys the equation of tokens from position b on, and everywhere.
Follows(text, f, i) ==
    f[i] = LET t == lexer_next(text, i)
           IN  IF t.type = "EOF" THEN <<>> ELSE <<t>> \o f[t.end]
Cutter(text, f) ==
    f = [i \in 1 .. Len(text) + 1 |->
           LET t == lexer_next(text, i)
           IN  IF t.type = "EOF" THEN <<>> ELSE <<t>> \o f[t.end]]

LEMMA TokenEnds ==
    ASSUME NEW text \in Seq(STRING), NEW i \in 1 .. Len(text) + 1,
           lexer_next(text, i).type # "EOF"
    PROVE  /\ i <= Len(text)
           /\ lexer_next(text, i).end \in i + 1 .. Len(text) + 1
<1> DEFINE t == lexer_next(text, i)
<1>1. Lexed(text, i, t)
  BY NextToken
<1> HIDE DEF t
<1>2. t.start \in i .. Len(text) /\ t.end \in t.start + 1 .. Len(text) + 1
  BY <1>1 DEF Lexed, StandsAt, t
<1>3. i <= Len(text) /\ t.end \in i + 1 .. Len(text) + 1
  BY <1>2
<1> QED
  BY <1>3 DEF t

LEMMA CutterExists ==
    ASSUME NEW text \in Seq(STRING)
    PROVE  \E f : Cutter(text, f)
<1> DEFINE n == Len(text)
           next(i) == lexer_next(text, i)
           S == Seq(TokensOf(text))
           All(f, b) == \A i \in b .. n + 1 : Follows(text, f, i)
           P == {k \in 0 .. n : \E f \in [n + 1 - k .. n + 1 -> S] : All(f, n + 1 - k)}
<1>1. n \in Nat
  OBVIOUS
<1>2. 0 \in P
  <2> DEFINE f == [i \in n + 1 .. n + 1 |-> <<>>]
  <2>1. f \in [n + 1 .. n + 1 -> S]
    OBVIOUS
  <2>2. f[n + 1] = <<>>
    BY <1>1
  <2> HIDE DEF f
  <2>3. next(n + 1).type = "EOF"
    <3>1. n + 1 \in 1 .. n + 1 /\ ~(n + 1 <= n)
      BY <1>1
    <3> QED
      BY <3>1, TokenEnds
  <2>4. Follows(text, f, n + 1)
    BY <2>2, <2>3 DEF Follows
  <2>5. \A i \in n + 1 .. n + 1 : i = n + 1
    BY <1>1
  <2>6. All(f, n + 1)
    BY <2>4, <2>5
  <2>7. n + 1 - 0 = n + 1 /\ 0 \in 0 .. n
    BY <1>1
  <2> HIDE DEF All, n, S
  <2> QED
    BY <2>1, <2>6, <2>7
<1>3. ASSUME NEW k \in 0 .. n - 1, k \in P PROVE k + 1 \in P
  <2> DEFINE b == n + 1 - k
             t == next(b - 1)
  <2>1. PICK f \in [b .. n + 1 -> S] : All(f, b)
    BY <1>3
  <2>2. /\ b \in 2 .. n + 1 /\ b - 1 \in 1 .. n + 1 /\ b - 1 = n + 1 - (k + 1)
        /\ k + 1 \in 0 .. n
    BY <1>1
  <2>3. t \in TokensOf(text)
    BY <2>2 DEF TokensOf
  <2>4. t.type # "EOF" => t.end \in b .. n + 1
    BY <2>2, TokenEnds
  <2> HIDE DEF b, t
  <2> DEFINE first == IF t.type = "EOF" THEN <<>> ELSE <<t>> \o f[t.end]
  <2>5. first \in S
    <3>1. CASE t.type = "EOF"
      BY <3>1
    <3>2. CASE t.type # "EOF"
      <4>1. f[t.end] \in S
        BY <2>1, <2>4, <3>2
      <4>2. <<t>> \o f[t.end] \in S
        BY <2>3, <4>1
      <4> QED
        BY <3>2, <4>2
    <3> QED
      BY <3>1, <3>2
  <2> DEFINE g == [i \in b - 1 .. n + 1 |-> IF i = b - 1 THEN first ELSE f[i]]
  <2>6. g \in [b - 1 .. n + 1 -> S]
    <3> HIDE DEF first, S, n
    <3>1. ASSUME NEW i \in b - 1 .. n + 1, i # b - 1 PROVE f[i] \in S
      <4>1. i \in b .. n + 1
        BY <2>2, <3>1
      <4> QED
        BY <2>1, <4>1
    <3> QED
      BY <2>5, <3>1
  <2>7. g[b - 1] = first /\ \A i \in b .. n + 1 : g[i] = f[i]
    <3> HIDE DEF first, S
    <3>1. b - 1 \in b - 1 .. n + 1 /\ \A i \in b .. n + 1 : i \in b - 1 .. n + 1 /\ i # b - 1
      BY <2>2
    <3> QED
      BY <3>1
  <2> HIDE DEF g
  <2>8. Follows(text, g, b - 1)
    <3>1. t.type # "EOF" => g[t.end] = f[t.end]
      BY <2>4, <2>7
    <3> QED
      BY <2>7, <3>1 DEF Follows, t
  <2>9. ASSUME NEW i \in b .. n + 1 PROVE Follows(text, g, i)
    <3>1. i \in 1 .. n + 1 /\ g[i] = f[i] /\ Follows(text, f, i)
      BY <2>1, <2>2, <2>7
    <3>2. next(i).type # "EOF" => next(i).end \in b .. n + 1
      <4>1. next(i).type # "EOF" => next(i).end \in i + 1 .. n + 1
        BY <3>1, TokenEnds
      <4> HIDE DEF next
      <4> QED
        BY <2>2, <4>1
    <3>3. next(i).type # "EOF" => g[next(i).end] = f[next(i).end]
      BY <2>7, <3>2
    <3> QED
      BY <3>1, <3>3 DEF Follows
  <2>10. \A i \in b - 1 .. n + 1 : i = b - 1 \/ i \in b .. n + 1
    BY <2>2
  <2>11. All(g, b - 1)
    BY <2>8, <2>9, <2>10
  <2> HIDE DEF All, n, S
  <2> QED
    BY <2>2, <2>6, <2>11
<1> HIDE DEF P
<1>4. 0 .. n \subseteq P
  <2> HIDE DEF n
  <2> QED
    BY <1>1, <1>2, <1>3, RangeInduction
<1>5. n \in P
  BY <1>1, <1>4
<1>6. n + 1 - n = 1
  BY <1>1
<1>7. PICK f \in [1 .. n + 1 -> S] : All(f, 1)
  <2> HIDE DEF All, S, n
  <2> QED
    BY <1>5, <1>6 DEF P
<1>8. Cutter(text, f)
  BY <1>7 DEF Follows, Cutter
<1> QED
  BY <1>8

LEMMA TokensAre ==
    ASSUME NEW text \in Seq(STRING)
    PROVE  \E f : Cutter(text, f) /\ tokens(text) = f[1]
<1> DEFINE f == CHOOSE f : Cutter(text, f)
<1>1. Cutter(text, f)
  BY CutterExists, Zenon
<1>2. tokens(text) = f[1]
  BY Zenon DEF tokens, Cutter
<1> QED
  BY <1>1, <1>2

LEMMA TokensCut ==
    ASSUME NEW text \in Seq(STRING)
    PROVE  Cuts(text, 1, tokens(text))
<1> DEFINE n == Len(text)
           next(i) == lexer_next(text, i)
<1>1. n \in Nat
  OBVIOUS
<1>2. PICK f : Cutter(text, f) /\ tokens(text) = f[1]
  BY TokensAre
<1>3. \A i \in 1 .. n + 1 : Follows(text, f, i)
  BY <1>2 DEF Cutter, Follows
<1> DEFINE P == {k \in 0 .. n : \A i \in n + 1 - k .. n + 1 : Cuts(text, i, f[i])}
<1>4. ASSUME NEW i \in 1 .. n + 1, \A j \in i + 1 .. n + 1 : Cuts(text, j, f[j])
      PROVE  Cuts(text, i, f[i])
  <2> DEFINE t == next(i)
  <2>1. Lexed(text, i, t)
    BY NextToken
  <2>2. f[i] = IF t.type = "EOF" THEN <<>> ELSE <<t>> \o f[t.end]
    BY <1>3 DEF Follows
  <2>3. t \in TokensOf(text)
    BY DEF TokensOf
  <2>4. t.type # "EOF" => i <= n /\ t.end \in i + 1 .. n + 1
    BY TokenEnds
  <2> HIDE DEF t
  <2>5. CASE t.type = "EOF"
    <3>1. \A j \in i .. Len(text) : is_whitespace(text[j])
      BY <2>1, <2>5 DEF Lexed, StandsAt
    <3> QED
      BY <2>2, <2>5, <3>1, NothingLeft
  <2>6. CASE t.type # "EOF"
    <3>1. /\ t.start \in i .. Len(text) /\ StandsAt(text, t.start, t)
          /\ \A j \in i .. t.start - 1 : is_whitespace(text[j])
      BY <2>1, <2>6 DEF Lexed
    <3>2. Cuts(text, t.end, f[t.end])
      BY <1>4, <2>4, <2>6
    <3>3. i \in 1 .. Len(text)
      BY <2>4, <2>6
    <3> QED
      BY <2>2, <2>3, <2>6, <3>1, <3>2, <3>3, OneMore
  <2> QED
    BY <2>5, <2>6
<1>5. 0 \in P
  <2>1. \A j \in n + 1 + 1 .. n + 1 : Cuts(text, j, f[j])
    BY <1>1
  <2>2. n + 1 \in 1 .. n + 1 /\ \A i \in n + 1 - 0 .. n + 1 : i = n + 1
    BY <1>1
  <2>3. 0 \in 0 .. n
    BY <1>1
  <2> HIDE DEF n
  <2> QED
    BY <1>4, <2>1, <2>2, <2>3
<1>6. ASSUME NEW k \in 0 .. n - 1, k \in P PROVE k + 1 \in P
  <2> DEFINE b == n + 1 - (k + 1)
  <2>1. b \in 1 .. n + 1 /\ b + 1 = n + 1 - k /\ k + 1 \in 0 .. n
    BY <1>1
  <2>2. \A j \in b + 1 .. n + 1 : Cuts(text, j, f[j])
    BY <1>6, <2>1
  <2>3. \A i \in b .. n + 1 : i = b \/ i \in b + 1 .. n + 1
    BY <2>1
  <2> HIDE DEF b, n
  <2>4. \A i \in b .. n + 1 : Cuts(text, i, f[i])
    BY <1>4, <2>1, <2>2, <2>3
  <2> QED
    BY <2>1, <2>4 DEF b
<1> HIDE DEF P
<1>7. 0 .. n \subseteq P
  <2> HIDE DEF n
  <2> QED
    BY <1>1, <1>5, <1>6, RangeInduction
<1>8. n \in P /\ 1 \in n + 1 - n .. n + 1
  BY <1>1, <1>7
<1>9. Cuts(text, 1, f[1])
  <2> HIDE DEF n
  <2> QED
    BY <1>8 DEF P
<1> QED
  BY <1>2, <1>9

(***************************************************************************)
(* The lexer cuts any line into its tokens (cpu_debugger, lexer_next).     *)
(***************************************************************************)
THEOREM LexerIsExact ==
    ASSUME NEW text \in Seq(STRING)
    PROVE  /\ Covers(text, tokens(text))
           /\ \A k \in DOMAIN tokens(text) : ExactToken(text, tokens(text)[k])
<1> DEFINE ts == tokens(text)
           Of(p) == {k \in DOMAIN ts : p \in ts[k].start .. ts[k].end - 1}
<1>1. Cuts(text, 1, ts)
  BY TokensCut
<1> HIDE DEF ts
<1>2. \A k \in DOMAIN ts : ExactToken(text, ts[k])
  BY <1>1 DEF Cuts, StandsAt
<1>3. ASSUME NEW p \in DOMAIN text
      PROVE  Cardinality(Of(p)) = IF is_whitespace(text[p]) THEN 0 ELSE 1
  <2>1. ~(p < 1)
    OBVIOUS
  <2>2. IF is_whitespace(text[p])
        THEN \A k \in DOMAIN ts : p \notin ts[k].start .. ts[k].end - 1
        ELSE \E k \in DOMAIN ts : \A j \in DOMAIN ts :
               p \in ts[j].start .. ts[j].end - 1 <=> j = k
    BY <1>1, <2>1 DEF Cuts
  <2>3. CASE is_whitespace(text[p])
    <3>1. Of(p) = {}
      BY <2>2, <2>3
    <3> QED
      BY <2>3, <3>1, FS_EmptySet
  <2>4. CASE ~is_whitespace(text[p])
    <3>1. PICK k \in DOMAIN ts : \A j \in DOMAIN ts :
               p \in ts[j].start .. ts[j].end - 1 <=> j = k
      BY <2>2, <2>4
    <3>2. Of(p) = {k}
      BY <3>1
    <3>3. Cardinality({k}) = 1
      BY FS_Singleton
    <3> QED
      BY <2>4, <3>2, <3>3
  <2> QED
    BY <2>3, <2>4
<1>4. Covers(text, ts)
  BY <1>3 DEF Covers
<1> QED
  BY <1>2, <1>4 DEF ts
=============================================================================
