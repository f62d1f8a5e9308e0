------------------------------ MODULE CpuProof ------------------------------
(***************************************************************************)
(* Proofs about Cpu.tla, for every size of a word, number of registers,    *)
(* memory and set of instructions.                                         *)
(***************************************************************************)
EXTENDS Cpu, FoldProof

(***************************************************************************)
(* Words.                                                                  *)
(***************************************************************************)
LEMMA PowersPositive == \A k \in 0 .. Width : 2^k \in Nat \ {0}
<1> DEFINE P == { k \in 0 .. Width : 2^k \in Nat \ {0} }
<1>1. Width \in Nat
  BY CpuAssumption
<1>2. 0 \in P
  BY <1>1, PowerAssumption
<1>3. ASSUME NEW k \in 0 .. Width - 1, k \in P PROVE k + 1 \in P
  <2>1. 2^k \in Nat \ {0} /\ 2^(k + 1) = 2^k + 2^k
    BY <1>3, PowerAssumption
  <2>2. 2^(k + 1) \in Nat \ {0}
    BY <2>1
  <2> QED
    BY <1>1, <2>2
<1> HIDE DEF P
<1>4. 0 .. Width \subseteq P
  BY <1>1, <1>2, <1>3, RangeInduction
<1> QED
  BY <1>4 DEF P

LEMMA WordFacts ==
    /\ Modulus \in Nat \ {0} /\ Word = 0 .. Modulus - 1 /\ 0 \in Word
    /\ \A a \in Int : a % Modulus \in Word
    /\ \A a \in Word : a % Modulus = a
    /\ WORD_SIZE \in Nat \ {0} /\ {STACK_SIZE, ROM_ADDRESS, IDT_ADDRESS} \subseteq Word
    /\ {IDT, IR, SP, BP, PC, CS} \subseteq Registers
<1>1. Width \in 0 .. Width
  BY CpuAssumption
<1>2. Modulus \in Nat \ {0}
  BY <1>1, PowersPositive DEF Modulus
<1> HIDE DEF Modulus
<1>3. \A a \in Int : a % Modulus \in 0 .. Modulus - 1
  BY <1>2
<1> QED
  BY <1>2, <1>3, CpuAssumption DEF Word, Registers, Special

LEMMA WordInt == 0 \in Int /\ WORD_SIZE \in Int /\ \A v \in Word : v \in Int
BY WordFacts

LEMMA SmallMultiple ==
    ASSUME NEW M \in Nat \ {0}, NEW k \in Int, M * k < M, - M < M * k
    PROVE  k = 0
<1>1. CASE k >= 1
  <2>1. M * (k - 1) >= 0
    BY <1>1
  <2>2. M * (k - 1) = M * k - M
    OBVIOUS
  <2> QED
    BY <2>1, <2>2
<1>2. CASE k <= -1
  <2>1. M * (-1 - k) >= 0
    BY <1>2
  <2>2. M * (-1 - k) = - M - M * k
    OBVIOUS
  <2> QED
    BY <2>1, <2>2
<1> QED
  BY <1>1, <1>2

LEMMA Remainder ==
    ASSUME NEW M \in Nat \ {0}, NEW x \in 0 .. M - 1, NEW k \in Int
    PROVE  (x + M * k) % M = x
<1> DEFINE a == x + M * k
           u == a % M
           q == a \div M
<1>1. a \in Int /\ M * k \in Int
  OBVIOUS
<1>2. u \in 0 .. M - 1 /\ q \in Int /\ a = (M * q) + u
  BY <1>1
<1>3. M * (k - q) = M * k - M * q /\ M * q \in Int
  BY <1>2
<1> HIDE DEF u, q
<1>4. u - x = M * (k - q)
  BY <1>1, <1>2, <1>3
<1>5. k - q = 0
  <2>1. M * (k - q) < M /\ - M < M * (k - q) /\ k - q \in Int
    BY <1>2, <1>4
  <2> QED
    BY <2>1, SmallMultiple
<1>6. M * (k - q) = 0
  BY <1>5
<1> QED
  BY <1>2, <1>4, <1>6 DEF u

\* A step up the addresses undoes a step down, wherever they wrap around.
LEMMA DownAndUp ==
    ASSUME NEW x \in Word, NEW n \in Int
    PROVE  (((x - n) % Modulus) + n) % Modulus = x
<1> DEFINE u == (x - n) % Modulus
           q == (x - n) \div Modulus
<1>1. Modulus \in Nat \ {0} /\ x \in 0 .. Modulus - 1
  BY WordFacts
<1> HIDE DEF Modulus
<1>2. u \in Int /\ q \in Int /\ x - n = (Modulus * q) + u
  BY <1>1
<1>3. - q \in Int /\ Modulus * (- q) = - (Modulus * q) /\ Modulus * q \in Int
  BY <1>1, <1>2
<1> HIDE DEF u, q
<1>4. u + n = x + Modulus * (- q)
  BY <1>1, <1>2, <1>3
<1>5. (x + Modulus * (- q)) % Modulus = x
  BY <1>1, <1>3, Remainder
<1> QED
  BY <1>4, <1>5 DEF u

LEMMA UpAndDown ==
    ASSUME NEW x \in Word
    PROVE  (((x + WORD_SIZE) % Modulus) - WORD_SIZE) % Modulus = x
<1> DEFINE n == - WORD_SIZE
<1>1. n \in Int /\ x - n = x + WORD_SIZE
  BY WordInt
<1>2. \A a \in Int : a + n = a - WORD_SIZE
  BY WordInt
<1>3. (x + WORD_SIZE) % Modulus \in Int
  BY <1>1, WordInt, WordFacts
<1> HIDE DEF n
<1> QED
  BY <1>1, <1>2, <1>3, DownAndUp

\* The loop of bitwise sets one bit at a time, and stays below the bit it comes to.
LEMMA BitwiseWord == ASSUME NEW on, NEW x, NEW y PROVE bitwise(on, x, y) \in Word
<1> DEFINE q == [k \in 1 .. Width |-> k - 1]
           step(acc, k) == IF bit(x, k) + bit(y, k) \in on THEN acc + 2^k ELSE acc
           Folds(g) == g = [T \in SUBSET DOMAIN q |->
                              IF T = {} THEN 0 ELSE step(g[T \ {Max(T)}], q[Max(T)])]
<1>1. Width \in Nat /\ DOMAIN q = 1 .. Width /\ \A k \in 1 .. Width : q[k] = k - 1
  BY CpuAssumption
<1>2. bitwise(on, x, y) = (CHOOSE g : Folds(g))[DOMAIN q]
  BY Zenon DEF bitwise, FoldLeft, MapThenFoldSet
<1> HIDE DEF q
<1>3. \A k \in 1 .. Width : 2^(k - 1) \in Nat /\ 2^k = 2^(k - 1) + 2^(k - 1)
  <2> TAKE k \in 1 .. Width
  <2>1. k - 1 \in 0 .. Width - 1 /\ (k - 1) + 1 = k
    BY <1>1
  <2> QED
    BY <2>1, PowerAssumption
<1>4. \E g : Folds(g)
  <2> DEFINE F == [a \in Nat \X (1 .. Width) |-> step(a[1], q[a[2]])]
  <2>1. F \in [Nat \X (1 .. Width) -> Nat]
    BY <1>1, <1>3
  <2>2. \A acc \in Nat, k \in 1 .. Width : F[acc, k] = step(acc, q[k])
    OBVIOUS
  <2> HIDE DEF F
  <2>3. PICK g \in [SUBSET (1 .. Width) -> Nat] : Folded(g, 0, Width, F)
    <3>1. Width \in Nat /\ 0 \in Nat
      BY <1>1
    <3> QED
      BY <2>1, <3>1, FoldExists
  <2> HIDE DEF step
  <2>4. ASSUME NEW T \in SUBSET (1 .. Width), T # {}
        PROVE  F[g[T \ {Max(T)}], Max(T)] = step(g[T \ {Max(T)}], q[Max(T)])
    <3>1. Max(T) \in 1 .. Width /\ g[T \ {Max(T)}] \in Nat
      BY <1>1, <2>4, MaxIsElement
    <3> QED
      BY <2>2, <3>1
  <2>5. Folds(g)
    BY <1>1, <2>3, <2>4 DEF Folded
  <2> QED
    BY <2>5
<1>5. PICK g : Folds(g) /\ bitwise(on, x, y) = g[1 .. Width]
  BY <1>1, <1>2, <1>4
<1>6. /\ g[1 .. 0] = 0
      /\ \A k \in 1 .. Width : g[1 .. k] = step(g[1 .. k - 1], k - 1)
  <2> HIDE DEF step
  <2>1. ASSUME NEW k \in 1 .. Width PROVE g[1 .. k] = step(g[1 .. k - 1], k - 1)
    <3>1. /\ 1 .. k \in SUBSET (1 .. Width) /\ k \in 1 .. k /\ k \in Nat \ {0}
      BY <1>1
    <3>2. Max(1 .. k) = k /\ (1 .. k) \ {k} = 1 .. k - 1
      BY <3>1, MaxOfRange
    <3> QED
      BY <1>1, <1>5, <3>1, <3>2
  <2>2. 1 .. 0 = {}
    OBVIOUS
  <2> QED
    BY <1>5, <2>1, <2>2
<1> DEFINE P == { k \in 0 .. Width : g[1 .. k] \in 0 .. 2^k - 1 }
<1>7. 0 \in P
  BY <1>1, <1>6, PowerAssumption
<1>8. ASSUME NEW k \in 0 .. Width - 1, k \in P PROVE k + 1 \in P
  <2>1. k + 1 \in 1 .. Width /\ (k + 1) - 1 = k
    BY <1>1
  <2>2. g[1 .. k + 1] = step(g[1 .. k], k)
    BY <1>6, <2>1
  <2>3. 2^k \in Nat /\ 2^(k + 1) = 2^k + 2^k
    BY PowerAssumption
  <2> QED
    BY <1>8, <2>1, <2>2, <2>3
<1> HIDE DEF P
<1>9. Width \in P
  <2>1. 0 .. Width \subseteq P
    BY <1>1, <1>7, <1>8, RangeInduction
  <2> QED
    BY <1>1, <2>1
<1> QED
  BY <1>5, <1>9 DEF P, Word, Modulus

LEMMA AluWord ==
    ASSUME NEW op \in Arithmetic, NEW x \in Word, NEW y \in Word
    PROVE  alu(op, x, y) \in Word
<1>1. x \in Int /\ y \in Int
  BY WordFacts
<1>2. x + y \in Int /\ x - y \in Int /\ x * y \in Int
  BY <1>1
<1>3. (x + y) % Modulus \in Word /\ (x - y) % Modulus \in Word /\ (x * y) % Modulus \in Word
  BY <1>2, WordFacts
<1> QED
  BY <1>3, BitwiseWord DEF alu, Arithmetic

\* INC and DEC.
LEMMA CountWord ==
    ASSUME NEW op \in {"ADD", "SUB"}, NEW x \in Word
    PROVE  alu(op, x, 1) \in Word
<1>1. x + 1 \in Int /\ x - 1 \in Int
  BY WordFacts
<1>2. (x + 1) % Modulus \in Word /\ (x - 1) % Modulus \in Word
  BY <1>1, WordFacts
<1> QED
  BY <1>2 DEF alu

(***************************************************************************)
(* The parts the instructions are made of keep the machine's type.         *)
(***************************************************************************)
\* The machines that met no word that encodes no instruction: every instruction leads
\* from one of them to one of them.
Decoded == [reg : [Registers -> Word], mem : [Readable -> Word],
            ie : BOOLEAN, z : BOOLEAN, n : BOOLEAN,
            print_op : BOOLEAN, trap : BOOLEAN, running : BOOLEAN,
            panic : Panics \ {"UNIMPLEMENTED_OPCODE"}, fault : BOOLEAN]

LEMMA DecodedMachine ==
    \A s : s \in Decoded <=> s \in Machine /\ s.panic # "UNIMPLEMENTED_OPCODE"
BY DEF Decoded, Machine

LEMMA MachineFields ==
    ASSUME NEW s \in Decoded
    PROVE  /\ s.panic \in Panics /\ s.reg \in [Registers -> Word]
           /\ s.mem \in [Readable -> Word] /\ s.fault \in BOOLEAN
           /\ s.reg[PC] \in Word /\ s.reg[SP] \in Word /\ s.reg[CS] \in Word
<1>1. /\ s.panic \in Panics /\ s.reg \in [Registers -> Word] /\ s.mem \in [Readable -> Word]
      /\ s.fault \in BOOLEAN
  BY DEF Decoded
<1> QED
  BY <1>1, WordFacts

LEMMA PanickedType ==
    ASSUME NEW s \in Decoded, NEW e \in Panics \ {"OK", "UNIMPLEMENTED_OPCODE"}
    PROVE  /\ Panicked(s, e) \in Decoded /\ Panicked(s, e).panic = e /\ Panicked(s, e).fault
           /\ Panicked(s, e).reg = s.reg /\ Panicked(s, e).mem = s.mem
BY DEF Decoded, Panicked

LEMMA UnpanickedType ==
    ASSUME NEW s \in Decoded
    PROVE  LET t == [s EXCEPT !.panic = "OK"]
           IN  /\ t \in Decoded /\ t.panic = "OK" /\ t.fault = s.fault
               /\ t.reg = s.reg /\ t.mem = s.mem
               /\ s.panic = "OK" => t = s
BY DEF Decoded, Panics

LEMMA RegisterType ==
    ASSUME NEW s \in Decoded, NEW r \in Registers, NEW v \in Word
    PROVE  LET t == [s EXCEPT !.reg[r] = v]
           IN  /\ t \in Decoded /\ t.panic = s.panic /\ t.fault = s.fault
               /\ t.reg = [s.reg EXCEPT ![r] = v] /\ t.mem = s.mem
BY DEF Decoded

LEMMA MemoryType ==
    ASSUME NEW s \in Decoded, NEW a \in Readable, NEW v \in Word
    PROVE  LET t == [s EXCEPT !.mem[a] = v]
           IN  /\ t \in Decoded /\ t.panic = s.panic /\ t.fault = s.fault
               /\ t.reg = s.reg /\ t.mem = [s.mem EXCEPT ![a] = v]
BY DEF Decoded

\* No access was refused yet, and none was refused without a panic.
Clean(s) == s.panic = "OK" /\ ~s.fault
Sound(s) == s.fault => s.panic # "OK"

LEMMA LoadType ==
    ASSUME NEW s \in Decoded, NEW a
    PROVE  /\ load(s, a) \in Decoded /\ (Clean(s) => Sound(load(s, a)))
           /\ load(s, a).reg = s.reg /\ load(s, a).mem = s.mem
           /\ load(s, a).panic = "OK" => s.panic = "OK" /\ a \in Readable /\ s.mem[a] \in Word
           /\ a \in Readable => load(s, a) = s
           /\ a \notin Readable => load(s, a).panic # "OK"
<1>1. CASE a \in Readable
  BY <1>1, MachineFields DEF load, Clean, Sound
<1>2. CASE a \notin Readable
  <2>1. load(s, a) = Panicked(s, "CANNOT_READ_MEMORY")
    BY <1>2 DEF load
  <2>2. "CANNOT_READ_MEMORY" \in Panics \ {"OK", "UNIMPLEMENTED_OPCODE"}
    BY DEF Panics
  <2> QED
    BY <1>2, <2>1, <2>2, PanickedType DEF Sound
<1> QED
  BY <1>1, <1>2

LEMMA StoreType ==
    ASSUME NEW s \in Decoded, NEW a, NEW v \in Word
    PROVE  /\ store(s, a, v) \in Decoded /\ (Clean(s) => Sound(store(s, a, v)))
           /\ store(s, a, v).reg = s.reg
           /\ store(s, a, v).panic = "OK" =>
                /\ s.panic = "OK" /\ a \in Writable
                /\ store(s, a, v) = [s EXCEPT !.mem[a] = v]
<1>1. CASE a \in Writable
  <2>1. a \in Readable /\ store(s, a, v) = [s EXCEPT !.mem[a] = v]
    BY <1>1, CpuAssumption DEF store
  <2> QED
    BY <1>1, <2>1, MemoryType DEF Clean, Sound
<1>2. CASE a \notin Writable
  <2>1. store(s, a, v) = Panicked(s, "CANNOT_WRITE_MEMORY")
    BY <1>2 DEF store
  <2>2. "CANNOT_WRITE_MEMORY" \in Panics \ {"OK", "UNIMPLEMENTED_OPCODE"}
    BY DEF Panics
  <2> QED
    BY <2>1, <2>2, PanickedType DEF Sound
<1> QED
  BY <1>1, <1>2

LEMMA GetType ==
    ASSUME NEW s \in Decoded, NEW R
    PROVE  /\ cpu_register_get(s, R) \in Decoded
           /\ Clean(s) => Sound(cpu_register_get(s, R))
           /\ cpu_register_get(s, R).reg = s.reg /\ cpu_register_get(s, R).mem = s.mem
           /\ R \subseteq Registers <=> cpu_register_get(s, R).panic = "OK"
<1>1. CASE R \subseteq Registers
  <2>1. cpu_register_get(s, R) = [s EXCEPT !.panic = "OK"]
    BY <1>1 DEF cpu_register_get
  <2> QED
    BY <1>1, <2>1, UnpanickedType DEF Clean, Sound
<1>2. CASE ~ (R \subseteq Registers)
  <2>1. cpu_register_get(s, R) = Panicked(s, "INVALID_REGISTER")
    BY <1>2 DEF cpu_register_get
  <2>2. "INVALID_REGISTER" \in Panics \ {"OK", "UNIMPLEMENTED_OPCODE"}
    BY DEF Panics
  <2> QED
    BY <1>2, <2>1, <2>2, PanickedType DEF Sound
<1> QED
  BY <1>1, <1>2

LEMMA FlagsType ==
    ASSUME NEW s \in Decoded, NEW v \in Word
    PROVE  LET t == cpu_flags_update(s, v)
           IN  /\ t \in Decoded /\ t.panic = s.panic /\ t.fault = s.fault
               /\ t.reg = s.reg /\ t.mem = s.mem
<1>1. ASSUME NEW zero \in BOOLEAN, NEW negative \in BOOLEAN
      PROVE  LET t == [s EXCEPT !.z = zero, !.n = negative]
             IN  /\ t \in Decoded /\ t.panic = s.panic /\ t.fault = s.fault
                 /\ t.reg = s.reg /\ t.mem = s.mem
  BY DEF Decoded
<1>2. (v = 0) \in BOOLEAN /\ (v >= Modulus \div 2) \in BOOLEAN
  OBVIOUS
<1> QED
  BY <1>1, <1>2, Zenon DEF cpu_flags_update

LEMMA SetType ==
    ASSUME NEW s \in Decoded, NEW r, NEW v \in Word
    PROVE  /\ cpu_register_set(s, r, v) \in Decoded
           /\ Clean(s) => Sound(cpu_register_set(s, r, v))
           /\ cpu_register_set(s, r, v).panic = "OK" <=> r \in Registers
<1>1. CASE r \in Registers
  <2> DEFINE u == [s EXCEPT !.reg[r] = v]
             t == [u EXCEPT !.panic = "OK"]
  <2>1. u \in Decoded /\ u.fault = s.fault
    BY <1>1, RegisterType
  <2> HIDE DEF u
  <2>2. t \in Decoded /\ t.panic = "OK" /\ t.fault = s.fault
    BY <2>1, UnpanickedType
  <2>3. t = [s EXCEPT !.reg[r] = v, !.panic = "OK"]
    BY DEF u
  <2> HIDE DEF t
  <2>4. cpu_register_set(s, r, v) = cpu_flags_update(t, v)
    BY <1>1, <2>3 DEF cpu_register_set
  <2> QED
    BY <1>1, <2>2, <2>4, FlagsType DEF Clean, Sound
<1>2. CASE r \notin Registers
  <2>1. cpu_register_set(s, r, v) = Panicked(s, "INVALID_REGISTER")
    BY <1>2 DEF cpu_register_set
  <2>2. "INVALID_REGISTER" \in Panics \ {"OK", "UNIMPLEMENTED_OPCODE"}
    BY DEF Panics
  <2> QED
    BY <1>2, <2>1, <2>2, PanickedType DEF Sound
<1> QED
  BY <1>1, <1>2

LEMMA JumpType ==
    ASSUME NEW s \in Decoded, NEW a \in Int
    PROVE  /\ jump(s, a) \in Decoded /\ jump(s, a).mem = s.mem
           /\ jump(s, a).panic = s.panic /\ jump(s, a).fault = s.fault
           /\ jump(s, a).reg = [s.reg EXCEPT ![PC] = a % Modulus]
<1>1. PC \in Registers /\ a % Modulus \in Word
  BY WordFacts
<1> QED
  BY <1>1, RegisterType DEF jump

\* The word above or below an address.
LEMMA NextWord ==
    ASSUME NEW a \in Word
    PROVE  (a + WORD_SIZE) % Modulus \in Word /\ (a - WORD_SIZE) % Modulus \in Word
<1>1. a + WORD_SIZE \in Int /\ a - WORD_SIZE \in Int
  BY WordFacts
<1> QED
  BY <1>1, WordFacts

LEMMA PushType ==
    ASSUME NEW s \in Decoded, NEW v \in Word
    PROVE  LET a == (s.reg[SP] - WORD_SIZE) % Modulus
           IN  /\ push(s, v) \in Decoded /\ (Clean(s) => Sound(push(s, v)))
               /\ push(s, v).reg = [s.reg EXCEPT ![SP] = a] /\ a \in Word
               /\ push(s, v).panic = "OK" =>
                     /\ s.panic = "OK" /\ a \in Writable
                     /\ push(s, v) = [s EXCEPT !.reg[SP] = a, !.mem[a] = v]
<1> DEFINE a == (s.reg[SP] - WORD_SIZE) % Modulus
           t == [s EXCEPT !.reg[SP] = a]
<1>1. SP \in Registers /\ a \in Word
  BY WordFacts, MachineFields, NextWord
<1>2. push(s, v) = store(t, a, v)
  BY DEF push
<1>3. [t EXCEPT !.mem[a] = v] = [s EXCEPT !.reg[SP] = a, !.mem[a] = v]
  OBVIOUS
<1> HIDE DEF a
<1>4. t \in Decoded /\ t.panic = s.panic /\ t.fault = s.fault /\ t.reg = [s.reg EXCEPT ![SP] = a]
  BY <1>1, RegisterType
<1> HIDE DEF t
<1>5. /\ push(s, v) \in Decoded /\ (Clean(t) => Sound(push(s, v))) /\ push(s, v).reg = t.reg
      /\ push(s, v).panic = "OK" =>
                /\ t.panic = "OK" /\ a \in Writable
                /\ push(s, v) = [t EXCEPT !.mem[a] = v]
  BY <1>2, <1>4, StoreType
<1> QED
  BY <1>1, <1>3, <1>4, <1>5 DEF a, Clean

\* A fetch that succeeds read a word, from a machine that was not in panic.
LEMMA FetchType ==
    ASSUME NEW s \in Decoded
    PROVE  LET f == cpu_fetch(s)
           IN  /\ f \in Decoded /\ (Clean(s) => Sound(f)) /\ f.mem = s.mem
               /\ f.reg = [s.reg EXCEPT ![PC] = (@ + WORD_SIZE) % Modulus]
               /\ f.panic = "OK" =>
                     s.panic = "OK" /\ s.reg[PC] \in Readable /\ fetched(s) \in Word
               /\ s.panic # "OK" => f.panic # "OK"
               /\ s.reg[PC] \notin Readable => f.panic # "OK"
<1> DEFINE t == Then(s, load(s, s.reg[PC]))
           a == (s.reg[PC] + WORD_SIZE) % Modulus
<1>1. /\ t \in Decoded /\ (Clean(s) => Sound(t)) /\ t.mem = s.mem /\ t.reg = s.reg
      /\ t.panic = "OK" => s.panic = "OK" /\ s.reg[PC] \in Readable /\ fetched(s) \in Word
      /\ s.panic # "OK" => t.panic # "OK"
      /\ s.reg[PC] \notin Readable => t.panic # "OK"
  BY LoadType DEF Then, Clean, Sound, fetched
<1>2. PC \in Registers /\ a \in Word
  BY WordFacts, MachineFields, NextWord
<1>3. cpu_fetch(s) = [t EXCEPT !.reg[PC] = (@ + WORD_SIZE) % Modulus]
  BY DEF cpu_fetch
<1> HIDE DEF t
<1>4. cpu_fetch(s) = [t EXCEPT !.reg[PC] = a]
  BY <1>1, <1>3
<1> HIDE DEF a
<1>5. /\ cpu_fetch(s) \in Decoded
      /\ cpu_fetch(s).panic = t.panic /\ cpu_fetch(s).fault = t.fault
      /\ cpu_fetch(s).mem = t.mem /\ cpu_fetch(s).reg = [t.reg EXCEPT ![PC] = a]
  BY <1>1, <1>2, <1>4, RegisterType
<1> QED
  BY <1>1, <1>5 DEF a, Sound

(***************************************************************************)
(* The instructions: from a machine, each gives a machine, and from a      *)
(* clean one a machine where no access was refused without a panic.        *)
(***************************************************************************)
Safe(s, t) == t \in Decoded /\ (Clean(s) => Sound(t))

LEMMA ThenSafe ==
    ASSUME NEW s, NEW f, NEW t, Safe(s, f), f.panic = "OK" => Safe(f, t)
    PROVE  Safe(s, Then(f, t))
BY DEF Safe, Then, Clean, Sound

LEMMA PartsSafe ==
    ASSUME NEW s \in Decoded
    PROVE  /\ Safe(s, s) /\ Safe(s, cpu_fetch(s))
           /\ \A R : Safe(s, cpu_register_get(s, R))
           /\ \A r, v : v \in Word => Safe(s, cpu_register_set(s, r, v))
           /\ \A v \in Word : Safe(s, cpu_flags_update(s, v)) /\ Safe(s, push(s, v))
           /\ \A a : Safe(s, load(s, a))
           /\ \A a, v : v \in Word => Safe(s, store(s, a, v))
           /\ \A a \in Int : Safe(s, jump(s, a))
<1>1. Safe(s, s)
  BY DEF Safe, Clean, Sound
<1>2. Safe(s, cpu_fetch(s))
  BY FetchType DEF Safe
<1>3. \A R : Safe(s, cpu_register_get(s, R))
  BY GetType DEF Safe
<1>4. \A r, v : v \in Word => Safe(s, cpu_register_set(s, r, v))
  BY SetType DEF Safe
<1>5. \A v \in Word : Safe(s, cpu_flags_update(s, v)) /\ Safe(s, push(s, v))
  BY FlagsType, PushType DEF Safe, Clean, Sound
<1>6. \A a : Safe(s, load(s, a))
  BY LoadType DEF Safe
<1>7. \A a, v : v \in Word => Safe(s, store(s, a, v))
  BY StoreType DEF Safe
<1>8. ASSUME NEW a \in Int PROVE Safe(s, jump(s, a))
  <2>1. /\ jump(s, a) \in Decoded /\ jump(s, a).panic = s.panic
        /\ jump(s, a).fault = s.fault
    BY JumpType
  <2> QED
    BY <2>1 DEF Safe, Clean, Sound
<1> QED
  BY <1>1, <1>2, <1>3, <1>4, <1>5, <1>6, <1>7, <1>8

\* What a fetch or a register gives an instruction is a word.
LEMMA Operand ==
    ASSUME NEW s \in Decoded
    PROVE  /\ cpu_fetch(s) \in Decoded
           /\ cpu_fetch(s).panic = "OK" => fetched(s) \in Word /\ fetched(s) \in Int
           /\ \A R : cpu_register_get(s, R) \in Decoded
           /\ \A R, r : cpu_register_get(s, R).panic = "OK" /\ r \in R =>
                          s.reg[r] \in Word /\ s.reg[r] \in Int
<1>1. \A v \in Word : v \in Int
  BY WordFacts
<1>2. /\ cpu_fetch(s) \in Decoded
      /\ cpu_fetch(s).panic = "OK" => fetched(s) \in Word
  BY FetchType
<1>3. \A R : cpu_register_get(s, R) \in Decoded
  BY GetType
<1>4. ASSUME NEW R, NEW r, cpu_register_get(s, R).panic = "OK", r \in R PROVE s.reg[r] \in Word
  <2>1. R \subseteq Registers
    BY <1>4, GetType
  <2> QED
    BY <1>4, <2>1, MachineFields
<1> QED
  BY <1>1, <1>2, <1>3, <1>4

LEMMA MovesSafe ==
    ASSUME NEW s \in Decoded, NEW r
    PROVE  Safe(s, op_mov_rw(s, r)) /\ Safe(s, op_mov_rr(s, r))
<1>1. Safe(s, op_mov_rw(s, r))
  BY Operand, PartsSafe, ThenSafe DEF op_mov_rw
<1>2. Safe(s, op_mov_rr(s, r))
  <2> DEFINE g == cpu_register_get(s, {r[2]})
  <2>1. g \in Decoded /\ Safe(s, g) /\ (g.panic = "OK" => s.reg[r[2]] \in Word)
    BY Operand, PartsSafe
  <2> HIDE DEF g
  <2>2. g.panic = "OK" => Safe(g, cpu_register_set(g, r[1], s.reg[r[2]]))
    BY <2>1, PartsSafe
  <2>3. op_mov_rr(s, r) = Then(g, cpu_register_set(g, r[1], s.reg[r[2]]))
    BY DEF op_mov_rr, g
  <2> QED
    BY <2>1, <2>2, <2>3, ThenSafe
<1> QED
  BY <1>1, <1>2

LEMMA AluSafe ==
    ASSUME NEW s \in Decoded, NEW r, NEW op \in Arithmetic
    PROVE  Safe(s, op_alu_rr(s, op, r)) /\ Safe(s, op_alu_rw(s, op, r))
<1>1. Safe(s, op_alu_rr(s, op, r))
  <2> DEFINE g == cpu_register_get(s, {r[1], r[2]})
             v == alu(op, s.reg[r[1]], s.reg[r[2]])
  <2>1. g \in Decoded /\ Safe(s, g)
        /\ (g.panic = "OK" => s.reg[r[1]] \in Word /\ s.reg[r[2]] \in Word)
    BY Operand, PartsSafe
  <2>2. g.panic = "OK" => v \in Word
    BY <2>1, AluWord
  <2>3. op_alu_rr(s, op, r) = Then(g, cpu_register_set(g, r[1], v))
    BY DEF op_alu_rr
  <2> HIDE DEF g, v
  <2>4. g.panic = "OK" => Safe(g, cpu_register_set(g, r[1], v))
    BY <2>1, <2>2, PartsSafe
  <2> QED
    BY <2>1, <2>3, <2>4, ThenSafe
<1>2. Safe(s, op_alu_rw(s, op, r))
  <2> DEFINE f == cpu_fetch(s)
             g == cpu_register_get(f, {r[1]})
             v == alu(op, f.reg[r[1]], fetched(s))
             t == Then(g, cpu_register_set(g, r[1], v))
  <2>1. f \in Decoded /\ Safe(s, f) /\ (f.panic = "OK" => fetched(s) \in Word)
    BY Operand, PartsSafe
  <2>2. op_alu_rw(s, op, r) = Then(f, t)
    BY DEF op_alu_rw
  <2> HIDE DEF f
  <2>3. g \in Decoded /\ Safe(f, g) /\ (g.panic = "OK" => f.reg[r[1]] \in Word)
    BY <2>1, Operand, PartsSafe
  <2>4. f.panic = "OK" /\ g.panic = "OK" => v \in Word
    BY <2>1, <2>3, AluWord
  <2> HIDE DEF g, v
  <2>5. f.panic = "OK" /\ g.panic = "OK" => Safe(g, cpu_register_set(g, r[1], v))
    BY <2>3, <2>4, PartsSafe
  <2>6. f.panic = "OK" => Safe(f, t)
    BY <2>3, <2>5, ThenSafe
  <2> HIDE DEF t
  <2> QED
    BY <2>1, <2>2, <2>6, ThenSafe
<1> QED
  BY <1>1, <1>2

LEMMA CountSafe ==
    ASSUME NEW s \in Decoded, NEW r, NEW op \in {"ADD", "SUB"}
    PROVE  Safe(s, op_count_r(s, op, r))
<1> DEFINE g == cpu_register_get(s, {r[1]})
           w == alu(op, s.reg[r[1]], 1)
<1>1. g \in Decoded /\ Safe(s, g) /\ (g.panic = "OK" => s.reg[r[1]] \in Word)
  BY Operand, PartsSafe
<1>2. g.panic = "OK" => w \in Word
  BY <1>1, CountWord
<1>3. op_count_r(s, op, r) = Then(g, cpu_register_set(g, r[1], w))
  BY DEF op_count_r
<1> HIDE DEF g, w
<1>4. g.panic = "OK" => Safe(g, cpu_register_set(g, r[1], w))
  BY <1>1, <1>2, PartsSafe
<1> QED
  BY <1>1, <1>3, <1>4, ThenSafe

LEMMA CompareSafe ==
    ASSUME NEW s \in Decoded, NEW r
    PROVE  Safe(s, op_cmp_rr(s, r)) /\ Safe(s, op_cmp_rw(s, r))
<1>s. "SUB" \in Arithmetic
  BY DEF Arithmetic
<1>1. Safe(s, op_cmp_rr(s, r))
  <2> DEFINE g == cpu_register_get(s, {r[1], r[2]})
             v == alu("SUB", s.reg[r[1]], s.reg[r[2]])
  <2>1. g \in Decoded /\ Safe(s, g)
        /\ (g.panic = "OK" => s.reg[r[1]] \in Word /\ s.reg[r[2]] \in Word)
    BY Operand, PartsSafe
  <2>2. g.panic = "OK" => v \in Word
    BY <1>s, <2>1, AluWord
  <2>3. op_cmp_rr(s, r) = Then(g, cpu_flags_update(g, v))
    BY DEF op_cmp_rr
  <2> HIDE DEF g, v
  <2>4. g.panic = "OK" => Safe(g, cpu_flags_update(g, v))
    BY <2>1, <2>2, PartsSafe
  <2> QED
    BY <2>1, <2>3, <2>4, ThenSafe
<1>2. Safe(s, op_cmp_rw(s, r))
  <2> DEFINE g == cpu_register_get(s, {r[1]})
             f == cpu_fetch(g)
             v == alu("SUB", s.reg[r[1]], fetched(s))
             t == Then(f, cpu_flags_update(f, v))
  <2>1. /\ g \in Decoded /\ Safe(s, g) /\ g.reg = s.reg /\ g.mem = s.mem
        /\ g.panic = "OK" => s.reg[r[1]] \in Word
    BY Operand, PartsSafe, GetType
  <2>2. op_cmp_rw(s, r) = Then(g, t)
    BY DEF op_cmp_rw
  <2>3. fetched(g) = fetched(s)
    BY <2>1 DEF fetched
  <2> HIDE DEF g
  <2>4. f \in Decoded /\ Safe(g, f) /\ (f.panic = "OK" => fetched(s) \in Word)
    BY <2>1, <2>3, Operand, PartsSafe
  <2>5. g.panic = "OK" /\ f.panic = "OK" => v \in Word
    BY <1>s, <2>1, <2>4, AluWord
  <2> HIDE DEF f, v
  <2>6. g.panic = "OK" /\ f.panic = "OK" => Safe(f, cpu_flags_update(f, v))
    BY <2>4, <2>5, PartsSafe
  <2>7. g.panic = "OK" => Safe(g, t)
    BY <2>4, <2>6, ThenSafe
  <2> HIDE DEF t
  <2> QED
    BY <2>1, <2>2, <2>7, ThenSafe
<1> QED
  BY <1>1, <1>2

LEMMA StoresSafe ==
    ASSUME NEW s \in Decoded, NEW r
    PROVE  Safe(s, op_stor_rr(s, r)) /\ Safe(s, op_stor_rw(s, r))
<1>1. Safe(s, op_stor_rr(s, r))
  <2> DEFINE g == cpu_register_get(s, {r[1], r[2]})
  <2>1. g \in Decoded /\ Safe(s, g) /\ (g.panic = "OK" => s.reg[r[2]] \in Word)
    BY Operand, PartsSafe
  <2>2. op_stor_rr(s, r) = Then(g, store(g, s.reg[r[1]], s.reg[r[2]]))
    BY DEF op_stor_rr
  <2> HIDE DEF g
  <2>3. g.panic = "OK" => Safe(g, store(g, s.reg[r[1]], s.reg[r[2]]))
    BY <2>1, PartsSafe
  <2> QED
    BY <2>1, <2>2, <2>3, ThenSafe
<1>2. Safe(s, op_stor_rw(s, r))
  <2> DEFINE f == cpu_fetch(s)
             g == cpu_register_get(f, {r[1]})
             t == Then(g, store(g, fetched(s), f.reg[r[1]]))
  <2>1. f \in Decoded /\ Safe(s, f)
    BY Operand, PartsSafe
  <2>2. op_stor_rw(s, r) = Then(f, t)
    BY DEF op_stor_rw
  <2> HIDE DEF f
  <2>3. g \in Decoded /\ Safe(f, g) /\ (g.panic = "OK" => f.reg[r[1]] \in Word)
    BY <2>1, Operand, PartsSafe
  <2> HIDE DEF g
  <2>4. g.panic = "OK" => Safe(g, store(g, fetched(s), f.reg[r[1]]))
    BY <2>3, PartsSafe
  <2>5. Safe(f, t)
    BY <2>3, <2>4, ThenSafe
  <2> HIDE DEF t
  <2> QED
    BY <2>1, <2>2, <2>5, ThenSafe
<1> QED
  BY <1>1, <1>2

LEMMA ReadIntoSafe ==
    ASSUME NEW s \in Decoded, NEW r, NEW a
    PROVE  Safe(s, read_into(s, r, a))
<1> DEFINE l == load(s, a)
<1>1. l \in Decoded /\ Safe(s, l) /\ (l.panic = "OK" => s.mem[a] \in Word)
  BY LoadType, PartsSafe
<1>2. read_into(s, r, a) = Then(l, cpu_register_set(l, r, s.mem[a]))
  BY DEF read_into
<1> HIDE DEF l
<1>3. l.panic = "OK" => Safe(l, cpu_register_set(l, r, s.mem[a]))
  BY <1>1, PartsSafe
<1> QED
  BY <1>1, <1>2, <1>3, ThenSafe

LEMMA LoadsSafe ==
    ASSUME NEW s \in Decoded, NEW r
    PROVE  Safe(s, op_load_rr(s, r)) /\ Safe(s, op_load_rw(s, r)) /\ Safe(s, op_load_rrw(s, r))
<1>1. Safe(s, op_load_rr(s, r))
  BY Operand, PartsSafe, ReadIntoSafe, ThenSafe DEF op_load_rr
<1>2. Safe(s, op_load_rw(s, r))
  BY Operand, PartsSafe, ReadIntoSafe, ThenSafe DEF op_load_rw
<1>3. Safe(s, op_load_rrw(s, r))
  <2> DEFINE g == cpu_register_get(s, {r[2]})
             f == cpu_fetch(g)
             t == Then(f, read_into(f, r[1], (s.reg[r[2]] + fetched(s)) % Modulus))
  <2>1. g \in Decoded /\ Safe(s, g)
    BY Operand, PartsSafe
  <2>2. op_load_rrw(s, r) = Then(g, t)
    BY DEF op_load_rrw
  <2> HIDE DEF g
  <2>3. f \in Decoded /\ Safe(g, f)
    BY <2>1, Operand, PartsSafe
  <2> HIDE DEF f
  <2>4. Safe(g, t)
    BY <2>3, ReadIntoSafe, ThenSafe
  <2> HIDE DEF t
  <2> QED
    BY <2>1, <2>2, <2>4, ThenSafe
<1> QED
  BY <1>1, <1>2, <1>3

LEMMA JumpsSafe ==
    ASSUME NEW s \in Decoded, NEW form
    PROVE  Safe(s, op_j(s, form)) /\ \A taken \in BOOLEAN : Safe(s, op_jif(s, form, taken))
<1>b. base(s, form) \in Int
  BY MachineFields, WordInt DEF base
<1>1. Safe(s, op_j(s, form))
  <2> DEFINE f == cpu_fetch(s)
             a == base(s, form) + fetched(s)
  <2>1. f \in Decoded /\ Safe(s, f) /\ (f.panic = "OK" => a \in Int)
    BY <1>b, Operand, PartsSafe
  <2>2. op_j(s, form) = Then(f, jump(f, a))
    BY DEF op_j
  <2> HIDE DEF f, a
  <2>3. f.panic = "OK" => Safe(f, jump(f, a))
    BY <2>1, PartsSafe
  <2> QED
    BY <2>1, <2>2, <2>3, ThenSafe
<1>2. Safe(s, jump(s, s.reg[PC] + WORD_SIZE))
  <2>1. s.reg[PC] + WORD_SIZE \in Int
    BY MachineFields, WordInt
  <2> QED
    BY <2>1, PartsSafe
<1> QED
  BY <1>1, <1>2 DEF op_jif

LEMMA CallSafe ==
    ASSUME NEW s \in Decoded, NEW a \in Int
    PROVE  Safe(s, call(s, a))
<1> DEFINE p == push(s, s.reg[PC])
<1>1. p \in Decoded /\ Safe(s, p)
  BY MachineFields, PushType, PartsSafe
<1>2. call(s, a) = Then(p, jump(p, a))
  BY DEF call
<1> HIDE DEF p
<1>3. Safe(p, jump(p, a))
  BY <1>1, PartsSafe
<1> QED
  BY <1>1, <1>2, <1>3, ThenSafe

LEMMA CallsSafe ==
    ASSUME NEW s \in Decoded, NEW form, NEW r
    PROVE  Safe(s, op_call(s, form)) /\ Safe(s, op_call_r(s, r))
<1>1. Safe(s, op_call(s, form))
  <2> DEFINE f == cpu_fetch(s)
             a == base(s, form) + fetched(s)
  <2>1. base(s, form) \in Int
    BY MachineFields, WordInt DEF base
  <2>2. f \in Decoded /\ Safe(s, f) /\ (f.panic = "OK" => a \in Int)
    BY <2>1, Operand, PartsSafe
  <2>3. op_call(s, form) = Then(f, call(f, a))
    BY DEF op_call
  <2> HIDE DEF f, a
  <2>4. f.panic = "OK" => Safe(f, call(f, a))
    BY <2>2, CallSafe
  <2> QED
    BY <2>2, <2>3, <2>4, ThenSafe
<1>2. Safe(s, op_call_r(s, r))
  <2> DEFINE g == cpu_register_get(s, {r[1]})
             a == s.reg[r[1]]
  <2>1. g \in Decoded /\ Safe(s, g) /\ (g.panic = "OK" => a \in Int)
    BY Operand, PartsSafe
  <2>2. op_call_r(s, r) = Then(g, call(g, a))
    BY DEF op_call_r
  <2> HIDE DEF g, a
  <2>3. g.panic = "OK" => Safe(g, call(g, a))
    BY <2>1, CallSafe
  <2> QED
    BY <2>1, <2>2, <2>3, ThenSafe
<1> QED
  BY <1>1, <1>2

LEMMA ReturnsSafe ==
    ASSUME NEW s \in Decoded
    PROVE  Safe(s, op_ret(s)) /\ Safe(s, op_iret(s))
<1>1. Safe(s, op_ret(s))
  <2> DEFINE a == s.reg[SP]
             b == (a + WORD_SIZE) % Modulus
             l == load(s, a)
             j == jump(l, s.mem[a])
             t == [j EXCEPT !.reg[SP] = b]
  <2>1. a \in Word /\ b \in Word /\ SP \in Registers
    BY MachineFields, NextWord, WordFacts
  <2>2. op_ret(s) = Then(l, t)
    BY DEF op_ret
  <2> HIDE DEF b
  <2>3. l \in Decoded /\ Safe(s, l) /\ (l.panic = "OK" => s.mem[a] \in Int)
    BY LoadType, PartsSafe, WordInt
  <2> HIDE DEF a, l
  <2>4. l.panic = "OK" => j \in Decoded /\ j.panic = l.panic /\ j.fault = l.fault
    BY <2>3, JumpType
  <2> HIDE DEF j
  <2>5. l.panic = "OK" => t \in Decoded /\ t.panic = l.panic /\ t.fault = l.fault
    BY <2>1, <2>4, RegisterType
  <2>6. l.panic = "OK" => Safe(l, t)
    BY <2>5 DEF Safe, Clean, Sound
  <2> HIDE DEF t
  <2> QED
    BY <2>2, <2>3, <2>6, ThenSafe
<1>2. Safe(s, op_iret(s))
  <2> DEFINE t == op_ret(s)
             u == [t EXCEPT !.ie = TRUE]
  <2>1. t \in Decoded /\ Safe(s, t)
    BY <1>1 DEF Safe
  <2>2. op_iret(s) = Then(t, u)
    BY DEF op_iret
  <2> HIDE DEF t
  <2>3. u \in Decoded /\ u.panic = t.panic /\ u.fault = t.fault
    BY <2>1 DEF Decoded
  <2>4. Safe(t, u)
    BY <2>3 DEF Safe, Clean, Sound
  <2> HIDE DEF u
  <2> QED
    BY <2>1, <2>2, <2>4, ThenSafe
<1> QED
  BY <1>1, <1>2

(***************************************************************************)
(* PUSH and POP, one register after the other.                             *)
(***************************************************************************)
LEMMA PushWordSafe ==
    ASSUME NEW s \in Decoded
    PROVE  Safe(s, op_push_w(s))
<1> DEFINE f == cpu_fetch(s)
<1>1. f \in Decoded /\ Safe(s, f) /\ (f.panic = "OK" => fetched(s) \in Word)
  BY Operand, PartsSafe
<1>2. op_push_w(s) = Then(f, push(f, fetched(s)))
  BY DEF op_push_w
<1> HIDE DEF f
<1>3. f.panic = "OK" => Safe(f, push(f, fetched(s)))
  BY <1>1, PartsSafe
<1> QED
  BY <1>1, <1>2, <1>3, ThenSafe

LEMMA PushOneSafe ==
    ASSUME NEW s \in Decoded, NEW r
    PROVE  Safe(s, push_register(s, r))
<1> DEFINE g == cpu_register_get(s, {r})
<1>1. g \in Decoded /\ Safe(s, g) /\ (g.panic = "OK" => s.reg[r] \in Word)
  BY Operand, PartsSafe
<1>2. push_register(s, r) = Then(g, push(g, s.reg[r]))
  BY DEF push_register
<1> HIDE DEF g
<1>3. g.panic = "OK" => Safe(g, push(g, s.reg[r]))
  BY <1>1, PartsSafe
<1> QED
  BY <1>1, <1>2, <1>3, ThenSafe

LEMMA PopOneSafe ==
    ASSUME NEW s \in Decoded, NEW r
    PROVE  Safe(s, pop_register(s, r))
<1> DEFINE a == s.reg[SP]
           b == (a + WORD_SIZE) % Modulus
           t == [s EXCEPT !.reg[SP] = b]
<1>1. a \in Word /\ b \in Word /\ SP \in Registers
  BY MachineFields, NextWord, WordFacts
<1>2. CASE s.panic = "CANNOT_READ_MEMORY" \/ a \notin Readable
  <2>1. pop_register(s, r) = load(s, a)
    BY <1>2 DEF pop_register
  <2> QED
    BY <2>1, PartsSafe
<1>3. CASE ~ (s.panic = "CANNOT_READ_MEMORY" \/ a \notin Readable)
  <2>1. pop_register(s, r) = cpu_register_set(t, r, s.mem[a])
    BY <1>3 DEF pop_register
  <2>2. s.mem[a] \in Word
    BY <1>3, MachineFields
  <2> HIDE DEF b
  <2>3. t \in Decoded /\ t.panic = s.panic /\ t.fault = s.fault
    BY <1>1, RegisterType
  <2> HIDE DEF t
  <2>4. Safe(t, cpu_register_set(t, r, s.mem[a]))
    BY <2>2, <2>3, PartsSafe
  <2> QED
    BY <2>1, <2>3, <2>4 DEF Safe, Clean
<1> QED
  BY <1>2, <1>3

PushRun(h, s, rs, n) ==
    /\ h \in [0 .. n -> Decoded] /\ h[0] = s /\ op_push(s, rs) = h[n]
    /\ \A k \in 1 .. n : h[k] = push_register(h[k - 1], rs[k])

\* The machines a PUSH goes through, register by register.
LEMMA PushTrace ==
    ASSUME NEW s \in Decoded, NEW n \in Nat, NEW rs, DOMAIN rs = 1 .. n
    PROVE  \E h : PushRun(h, s, rs, n)
<1> DEFINE Folds(g) == g = [T \in SUBSET DOMAIN rs |->
                              IF T = {} THEN s
                              ELSE push_register(g[T \ {Max(T)}], rs[Max(T)])]
<1>1. op_push(s, rs) = (CHOOSE g : Folds(g))[DOMAIN rs]
  BY Zenon DEF op_push, FoldLeft, MapThenFoldSet
<1>2. \E g : Folds(g)
  <2> DEFINE F == [a \in Decoded \X (1 .. n) |-> push_register(a[1], rs[a[2]])]
  <2>1. \A t \in Decoded : \A r : push_register(t, r) \in Decoded
    BY PushOneSafe DEF Safe
  <2>2. F \in [Decoded \X (1 .. n) -> Decoded]
    BY <2>1
  <2>3. \A t \in Decoded, k \in 1 .. n : F[t, k] = push_register(t, rs[k])
    OBVIOUS
  <2> HIDE DEF F
  <2>4. PICK g \in [SUBSET (1 .. n) -> Decoded] : Folded(g, s, n, F)
    BY <2>2, FoldExists
  <2>5. ASSUME NEW T \in SUBSET (1 .. n), T # {}
        PROVE  F[g[T \ {Max(T)}], Max(T)] = push_register(g[T \ {Max(T)}], rs[Max(T)])
    <3>1. Max(T) \in 1 .. n /\ g[T \ {Max(T)}] \in Decoded
      BY <2>5, MaxIsElement
    <3> QED
      BY <2>3, <3>1
  <2>6. Folds(g)
    BY <2>4, <2>5 DEF Folded
  <2> QED
    BY <2>6
<1>3. PICK g : Folds(g) /\ op_push(s, rs) = g[1 .. n]
  BY <1>1, <1>2
<1>4. g[1 .. 0] = s
  <2>1. 1 .. 0 = {}
    OBVIOUS
  <2> QED
    BY <1>3, <2>1
<1>5. ASSUME NEW k \in 1 .. n PROVE g[1 .. k] = push_register(g[1 .. k - 1], rs[k])
  <2>1. 1 .. k \in SUBSET (1 .. n) /\ k \in 1 .. k /\ k \in Nat \ {0}
    OBVIOUS
  <2>2. Max(1 .. k) = k /\ (1 .. k) \ {k} = 1 .. k - 1
    BY <2>1, MaxOfRange
  <2> QED
    BY <1>3, <2>1, <2>2
<1> DEFINE P == { k \in 0 .. n : g[1 .. k] \in Decoded }
<1>6. 0 \in P
  BY <1>4
<1>7. ASSUME NEW k \in 0 .. n - 1, k \in P PROVE k + 1 \in P
  <2>1. k + 1 \in 1 .. n /\ (k + 1) - 1 = k
    OBVIOUS
  <2>2. g[1 .. k + 1] = push_register(g[1 .. k], rs[k + 1])
    BY <1>5, <2>1
  <2> QED
    BY <1>7, <2>1, <2>2, PushOneSafe DEF Safe
<1>8. 0 .. n \subseteq P
  <2> HIDE DEF P
  <2> QED
    BY <1>6, <1>7, RangeInduction
<1> DEFINE h == [k \in 0 .. n |-> g[1 .. k]]
<1>9. h \in [0 .. n -> Decoded] /\ h[0] = s /\ op_push(s, rs) = h[n]
  <2>1. \A k \in 0 .. n : g[1 .. k] \in Decoded
    BY <1>8
  <2>2. 0 \in 0 .. n /\ n \in 0 .. n
    OBVIOUS
  <2> HIDE DEF P
  <2> QED
    BY <1>3, <1>4, <2>1, <2>2
<1>10. \A k \in 1 .. n : h[k] = push_register(h[k - 1], rs[k])
  BY <1>5
<1> HIDE DEF h
<1> QED
  BY <1>9, <1>10 DEF PushRun

PopRun(h, s, rs, n) ==
    /\ h \in [0 .. n -> Decoded] /\ h[0] = s /\ op_pop(s, rs) = h[n]
    /\ \A k \in 1 .. n : h[k] = pop_register(h[k - 1], rs[k])

\* The machines a POP goes through.
LEMMA PopTrace ==
    ASSUME NEW s \in Decoded, NEW n \in Nat, NEW rs, DOMAIN rs = 1 .. n
    PROVE  \E h : PopRun(h, s, rs, n)
<1> DEFINE Folds(g) == g = [T \in SUBSET DOMAIN rs |->
                              IF T = {} THEN s
                              ELSE pop_register(g[T \ {Max(T)}], rs[Max(T)])]
<1>1. op_pop(s, rs) = (CHOOSE g : Folds(g))[DOMAIN rs]
  BY Zenon DEF op_pop, FoldLeft, MapThenFoldSet
<1>2. \E g : Folds(g)
  <2> DEFINE F == [a \in Decoded \X (1 .. n) |-> pop_register(a[1], rs[a[2]])]
  <2>1. \A t \in Decoded : \A r : pop_register(t, r) \in Decoded
    BY PopOneSafe DEF Safe
  <2>2. F \in [Decoded \X (1 .. n) -> Decoded]
    BY <2>1
  <2>3. \A t \in Decoded, k \in 1 .. n : F[t, k] = pop_register(t, rs[k])
    OBVIOUS
  <2> HIDE DEF F
  <2>4. PICK g \in [SUBSET (1 .. n) -> Decoded] : Folded(g, s, n, F)
    BY <2>2, FoldExists
  <2>5. ASSUME NEW T \in SUBSET (1 .. n), T # {}
        PROVE  F[g[T \ {Max(T)}], Max(T)] = pop_register(g[T \ {Max(T)}], rs[Max(T)])
    <3>1. Max(T) \in 1 .. n /\ g[T \ {Max(T)}] \in Decoded
      BY <2>5, MaxIsElement
    <3> QED
      BY <2>3, <3>1
  <2>6. Folds(g)
    BY <2>4, <2>5 DEF Folded
  <2> QED
    BY <2>6
<1>3. PICK g : Folds(g) /\ op_pop(s, rs) = g[1 .. n]
  BY <1>1, <1>2
<1>4. g[1 .. 0] = s
  <2>1. 1 .. 0 = {}
    OBVIOUS
  <2> QED
    BY <1>3, <2>1
<1>5. ASSUME NEW k \in 1 .. n PROVE g[1 .. k] = pop_register(g[1 .. k - 1], rs[k])
  <2>1. 1 .. k \in SUBSET (1 .. n) /\ k \in 1 .. k /\ k \in Nat \ {0}
    OBVIOUS
  <2>2. Max(1 .. k) = k /\ (1 .. k) \ {k} = 1 .. k - 1
    BY <2>1, MaxOfRange
  <2> QED
    BY <1>3, <2>1, <2>2
<1> DEFINE P == { k \in 0 .. n : g[1 .. k] \in Decoded }
<1>6. 0 \in P
  BY <1>4
<1>7. ASSUME NEW k \in 0 .. n - 1, k \in P PROVE k + 1 \in P
  <2>1. k + 1 \in 1 .. n /\ (k + 1) - 1 = k
    OBVIOUS
  <2>2. g[1 .. k + 1] = pop_register(g[1 .. k], rs[k + 1])
    BY <1>5, <2>1
  <2> QED
    BY <1>7, <2>1, <2>2, PopOneSafe DEF Safe
<1>8. 0 .. n \subseteq P
  <2> HIDE DEF P
  <2> QED
    BY <1>6, <1>7, RangeInduction
<1> DEFINE h == [k \in 0 .. n |-> g[1 .. k]]
<1>9. h \in [0 .. n -> Decoded] /\ h[0] = s /\ op_pop(s, rs) = h[n]
  <2>1. \A k \in 0 .. n : g[1 .. k] \in Decoded
    BY <1>8
  <2>2. 0 \in 0 .. n /\ n \in 0 .. n
    OBVIOUS
  <2> HIDE DEF P
  <2> QED
    BY <1>3, <1>4, <2>1, <2>2
<1>10. \A k \in 1 .. n : h[k] = pop_register(h[k - 1], rs[k])
  BY <1>5
<1> HIDE DEF h
<1> QED
  BY <1>9, <1>10 DEF PopRun

LEMMA StackSafe ==
    ASSUME NEW s \in Decoded, NEW n \in Nat, NEW rs, DOMAIN rs = 1 .. n
    PROVE  /\ op_push(s, rs) \in Decoded /\ op_pop(s, rs) \in Decoded
           /\ n = 1 => Safe(s, op_push(s, rs)) /\ Safe(s, op_pop(s, rs))
<1>1. op_push(s, rs) \in Decoded /\ (n = 1 => op_push(s, rs) = push_register(s, rs[1]))
  BY PushTrace DEF PushRun
<1>2. op_pop(s, rs) \in Decoded /\ (n = 1 => op_pop(s, rs) = pop_register(s, rs[1]))
  BY PopTrace DEF PopRun
<1> QED
  BY <1>1, <1>2, PushOneSafe, PopOneSafe

LEMMA FlagSafe ==
    ASSUME NEW s \in Decoded, NEW b \in BOOLEAN
    PROVE  /\ Safe(s, [s EXCEPT !.running = b]) /\ Safe(s, [s EXCEPT !.ie = b])
           /\ Safe(s, [s EXCEPT !.trap = b]) /\ Safe(s, [s EXCEPT !.print_op = b])
BY DEF Decoded, Safe, Clean, Sound

LEMMA GeneralPlaces ==
    /\ DOMAIN General = 1 .. RegCount /\ DOMAIN Reverse(General) = 1 .. RegCount
    /\ RegCount \in Nat
<1>1. RegCount \in Nat /\ General \in [1 .. RegCount -> 0 .. RegCount - 1]
  BY CpuAssumption DEF General
<1>2. Len(General) = RegCount
  BY <1>1
<1>3. DOMAIN Reverse(General) = 1 .. Len(General)
  BY DEF Reverse
<1> QED
  BY <1>1, <1>2, <1>3

\* Every instruction keeps the machine's type, and one that pushes or pops no more than
\* one register leaves a panic behind it if an access of it was refused.
LEMMA OpsSafe ==
    ASSUME NEW s \in Decoded, NEW i, IsInstruction(i)
    PROVE  /\ ops(s, i) \in Decoded
           /\ ~ several_registers(i) => Safe(s, ops(s, i))
<1>f. i.form \in forms(i.op)
  BY DEF IsInstruction
<1>r. i.r \in Seq(0 .. 255) /\ Len(i.r) \in Nat /\ DOMAIN i.r = 1 .. Len(i.r) /\ Len(i.r) = operands(i.form)
  BY DEF IsInstruction
<1>z. s.z \in BOOLEAN /\ (~s.z) \in BOOLEAN
  BY DEF Decoded
<1>p. Safe(s, Panicked(s, "PANIC")) /\ Safe(s, Then(s, Panicked(s, "PANIC")))
  BY PartsSafe, PanickedType DEF Safe, Panics, Sound, Then
<1>1. CASE i.op \in {"NOP", "INT", "MI", "UMI", "WFI", "XBM", "XDBG"}
  <2>1. ops(s, i) = s
    BY <1>1 DEF ops, Arithmetic
  <2> QED
    BY <2>1, PartsSafe DEF Safe
<1>2. CASE i.op = "HALT"
  <2>1. ops(s, i) = [s EXCEPT !.running = FALSE]
    BY <1>2 DEF ops, Arithmetic
  <2> QED
    BY <2>1, FlagSafe DEF Safe
<1>3. CASE i.op = "PANIC"
  <2>1. ops(s, i) = Then(s, Panicked(s, "PANIC"))
    BY <1>3 DEF ops, Arithmetic
  <2> QED
    BY <2>1, <1>p DEF Safe
<1>4. CASE i.op = "PUSH" /\ i.form = "W"
  <2>1. ops(s, i) = op_push_w(s)
    BY <1>4 DEF ops, Arithmetic
  <2> QED
    BY <2>1, PushWordSafe DEF Safe
<1>5. CASE i.op = "MOV" /\ i.form = "RW"
  <2>1. ops(s, i) = op_mov_rw(s, i.r)
    BY <1>5 DEF ops, Arithmetic
  <2> QED
    BY <2>1, MovesSafe DEF Safe
<1>6. CASE i.op = "MOV" /\ i.form = "RR"
  <2>1. ops(s, i) = op_mov_rr(s, i.r)
    BY <1>6 DEF ops, Arithmetic
  <2> QED
    BY <2>1, MovesSafe DEF Safe
<1>7. CASE i.op = "CMP" /\ i.form = "RR"
  <2>1. ops(s, i) = op_cmp_rr(s, i.r)
    BY <1>7 DEF ops, Arithmetic
  <2> QED
    BY <2>1, CompareSafe DEF Safe
<1>8. CASE i.op = "CMP" /\ i.form = "RW"
  <2>1. ops(s, i) = op_cmp_rw(s, i.r)
    BY <1>8 DEF ops, Arithmetic
  <2> QED
    BY <2>1, CompareSafe DEF Safe
<1>9. CASE i.op = "JEQ"
  <2>1. ops(s, i) = op_jif(s, i.form, s.z)
    BY <1>9 DEF ops, Arithmetic
  <2>2. \A taken \in BOOLEAN : Safe(s, op_jif(s, i.form, taken))
    BY JumpsSafe
  <2>3. Safe(s, ops(s, i))
    BY <1>z, <2>1, <2>2, Zenon
  <2> QED
    BY <2>3 DEF Safe
<1>10. CASE i.op = "JNE"
  <2>1. ops(s, i) = op_jif(s, i.form, ~s.z)
    BY <1>10 DEF ops, Arithmetic
  <2>2. \A taken \in BOOLEAN : Safe(s, op_jif(s, i.form, taken))
    BY JumpsSafe
  <2>3. Safe(s, ops(s, i))
    BY <1>z, <2>1, <2>2, Zenon
  <2> QED
    BY <2>3 DEF Safe
<1>11. CASE i.op = "J"
  <2>1. ops(s, i) = op_j(s, i.form)
    BY <1>11 DEF ops, Arithmetic
  <2> QED
    BY <2>1, JumpsSafe DEF Safe
<1>12. CASE i.op = "STOR" /\ i.form = "RR"
  <2>1. ops(s, i) = op_stor_rr(s, i.r)
    BY <1>12 DEF ops, Arithmetic
  <2> QED
    BY <2>1, StoresSafe DEF Safe
<1>13. CASE i.op = "STOR" /\ i.form = "RW"
  <2>1. ops(s, i) = op_stor_rw(s, i.r)
    BY <1>13 DEF ops, Arithmetic
  <2> QED
    BY <2>1, StoresSafe DEF Safe
<1>14. CASE i.op = "LOAD" /\ i.form = "RR"
  <2>1. ops(s, i) = op_load_rr(s, i.r)
    BY <1>14 DEF ops, Arithmetic
  <2> QED
    BY <2>1, LoadsSafe DEF Safe
<1>15. CASE i.op = "LOAD" /\ i.form = "RW"
  <2>1. ops(s, i) = op_load_rw(s, i.r)
    BY <1>15 DEF ops, Arithmetic
  <2> QED
    BY <2>1, LoadsSafe DEF Safe
<1>16. CASE i.op = "LOAD" /\ i.form = "RRW"
  <2>1. ops(s, i) = op_load_rrw(s, i.r)
    BY <1>16 DEF ops, Arithmetic
  <2> QED
    BY <2>1, LoadsSafe DEF Safe
<1>17. CASE i.op \in Arithmetic /\ i.form = "RR"
  <2>1. ops(s, i) = op_alu_rr(s, i.op, i.r)
    BY <1>17 DEF ops, Arithmetic
  <2> QED
    BY <1>17, <2>1, AluSafe DEF Safe
<1>18. CASE i.op \in Arithmetic /\ i.form = "RW"
  <2>1. ops(s, i) = op_alu_rw(s, i.op, i.r)
    BY <1>18 DEF ops, Arithmetic
  <2> QED
    BY <1>18, <2>1, AluSafe DEF Safe
<1>19. CASE i.op = "INC"
  <2>1. ops(s, i) = op_count_r(s, "ADD", i.r)
    BY <1>19 DEF ops, Arithmetic
  <2> QED
    BY <2>1, CountSafe DEF Safe
<1>20. CASE i.op = "DEC"
  <2>1. ops(s, i) = op_count_r(s, "SUB", i.r)
    BY <1>20 DEF ops, Arithmetic
  <2> QED
    BY <2>1, CountSafe DEF Safe
<1>21. CASE i.op = "CALL" /\ i.form # "R"
  <2>1. ops(s, i) = op_call(s, i.form)
    BY <1>21 DEF ops, Arithmetic
  <2> QED
    BY <2>1, CallsSafe DEF Safe
<1>22. CASE i.op = "CALL" /\ i.form = "R"
  <2>1. ops(s, i) = op_call_r(s, i.r)
    BY <1>22 DEF ops, Arithmetic
  <2> QED
    BY <2>1, CallsSafe DEF Safe
<1>23. CASE i.op = "RET"
  <2>1. ops(s, i) = op_ret(s)
    BY <1>23 DEF ops, Arithmetic
  <2> QED
    BY <2>1, ReturnsSafe DEF Safe
<1>24. CASE i.op = "IRET"
  <2>1. ops(s, i) = op_iret(s)
    BY <1>24 DEF ops, Arithmetic
  <2> QED
    BY <2>1, ReturnsSafe DEF Safe
<1>25. CASE i.op = "IND"
  <2>1. ops(s, i) = [s EXCEPT !.ie = FALSE]
    BY <1>25 DEF ops, Arithmetic
  <2> QED
    BY <2>1, FlagSafe DEF Safe
<1>26. CASE i.op = "INE"
  <2>1. ops(s, i) = [s EXCEPT !.ie = TRUE]
    BY <1>26 DEF ops, Arithmetic
  <2> QED
    BY <2>1, FlagSafe DEF Safe
<1>27. CASE i.op = "XBRK"
  <2>1. ops(s, i) = [s EXCEPT !.trap = TRUE]
    BY <1>27 DEF ops, Arithmetic
  <2> QED
    BY <2>1, FlagSafe DEF Safe
<1>28. CASE i.op = "XPSE"
  <2>1. ops(s, i) = [s EXCEPT !.print_op = TRUE]
    BY <1>28 DEF ops, Arithmetic
  <2> QED
    BY <2>1, FlagSafe DEF Safe
<1>29. CASE i.op = "XPSD"
  <2>1. ops(s, i) = [s EXCEPT !.print_op = FALSE]
    BY <1>29 DEF ops, Arithmetic
  <2> QED
    BY <2>1, FlagSafe DEF Safe
<1>30. CASE i.op = "PUSH" /\ i.form # "W"
  <2>1. ops(s, i) = op_push(s, i.r)
    BY <1>30 DEF ops, Arithmetic
  <2>2. Len(i.r) \in 1 .. 3
    BY <1>f, <1>r, <1>30 DEF forms, operands, Plain, Arithmetic
  <2>3. ops(s, i) \in Decoded /\ (Len(i.r) = 1 => Safe(s, ops(s, i)))
    BY <1>r, <2>1, StackSafe
  <2>4. ~ several_registers(i) => Len(i.r) = 1
    <3> DEFINE l == Len(i.r)
    <3>1. ~ several_registers(i) => ~ (l > 1)
      BY <1>30 DEF several_registers
    <3>2. l \in 1 .. 3
      BY <2>2
    <3> HIDE DEF l
    <3>3. ~ several_registers(i) => l = 1
      BY <3>1, <3>2
    <3> QED
      BY <3>3 DEF l
  <2> QED
    BY <2>3, <2>4
<1>31. CASE i.op = "POP"
  <2>1. ops(s, i) = op_pop(s, i.r)
    BY <1>31 DEF ops, Arithmetic
  <2>2. Len(i.r) \in 1 .. 3
    BY <1>f, <1>r, <1>31 DEF forms, operands, Plain, Arithmetic
  <2>3. ops(s, i) \in Decoded /\ (Len(i.r) = 1 => Safe(s, ops(s, i)))
    BY <1>r, <2>1, StackSafe
  <2>4. ~ several_registers(i) => Len(i.r) = 1
    <3> DEFINE l == Len(i.r)
    <3>1. ~ several_registers(i) => ~ (l > 1)
      BY <1>31 DEF several_registers
    <3>2. l \in 1 .. 3
      BY <2>2
    <3> HIDE DEF l
    <3>3. ~ several_registers(i) => l = 1
      BY <3>1, <3>2
    <3> QED
      BY <3>3 DEF l
  <2> QED
    BY <2>3, <2>4
<1>32. CASE i.op \in {"PUSHA", "POPA"}
  <2>1. several_registers(i)
    BY <1>32 DEF several_registers
  <2>2. op_push(s, General) \in Decoded /\ op_pop(s, Reverse(General)) \in Decoded
    BY GeneralPlaces, StackSafe, Zenon
  <2>3. ops(s, i) \in {op_push(s, General), op_pop(s, Reverse(General))}
    BY <1>32 DEF ops, Arithmetic
  <2> QED
    BY <2>1, <2>2, <2>3
<1>33. \/ i.op \in {"NOP", "INT", "MI", "UMI", "WFI", "XBM", "XDBG"}
       \/ i.op \in {"HALT", "PANIC", "JEQ", "JNE", "J", "INC", "DEC", "CALL", "RET", "IRET"}
       \/ i.op \in {"IND", "INE", "XBRK", "XPSE", "XPSD", "PUSH", "PUSHA", "POP", "POPA"}
       \/ i.op \in Arithmetic \union {"MOV", "CMP", "STOR"} /\ i.form \in {"RR", "RW"}
       \/ i.op = "LOAD" /\ i.form \in {"RR", "RRW", "RW"}
  BY <1>f DEF forms, Plain
<1> QED
  BY <1>1, <1>2, <1>3, <1>4, <1>5, <1>6, <1>7, <1>8, <1>9, <1>10, <1>11, <1>12, <1>13, <1>14,
     <1>15, <1>16, <1>17, <1>18, <1>19, <1>20, <1>21, <1>22, <1>23, <1>24, <1>25, <1>26, <1>27,
     <1>28, <1>29, <1>30, <1>31, <1>32, <1>33, Zenon

(***************************************************************************)
(* Printing an instruction before it runs.                                 *)
(***************************************************************************)
\* The printer was refused the immediate of i, which the program counter is still at.
Refused(s, i) == s.panic # "OK" /\ s.reg[PC] \notin Readable /\ printed_operand(i)

Runnable(s, i) == Clean(s) \/ Refused(s, i)

\* An instruction whose immediate was refused to the printer is refused it again, also
\* when it cleared the printer's panic in between.
LEMMA RefusedAgain ==
    ASSUME NEW s \in Decoded, NEW i, IsInstruction(i), Refused(s, i)
    PROVE  ops(s, i).panic # "OK"
<1> DEFINE f == cpu_fetch(s)
<1>1. s.panic # "OK" /\ f.panic # "OK" /\ \A t : Then(f, t) = f
  BY FetchType DEF Refused, Then
<1>2. i.form \in forms(i.op)
  BY DEF IsInstruction
<1>3. op_j(s, i.form).panic # "OK" /\ op_call(s, i.form).panic # "OK"
  BY <1>1 DEF op_j, op_call
<1>4. /\ op_mov_rw(s, i.r).panic # "OK" /\ op_load_rw(s, i.r).panic # "OK"
      /\ op_alu_rw(s, i.op, i.r).panic # "OK"
  BY <1>1 DEF op_mov_rw, op_load_rw, op_alu_rw
<1>5. op_cmp_rw(s, i.r).panic # "OK"
  <2> DEFINE g == cpu_register_get(s, {i.r[1]})
             v == alu("SUB", s.reg[i.r[1]], fetched(s))
             t == cpu_flags_update(cpu_fetch(g), v)
  <2>1. op_cmp_rw(s, i.r) = Then(g, Then(cpu_fetch(g), t))
    BY DEF op_cmp_rw
  <2>2. g \in Decoded /\ g.reg[PC] \notin Readable
    BY GetType DEF Refused
  <2> HIDE DEF g
  <2>3. cpu_fetch(g).panic # "OK"
    BY <2>2, FetchType
  <2> HIDE DEF t
  <2> QED
    BY <2>1, <2>3 DEF Then
<1>6. \A taken : op_jif(s, i.form, taken).panic # "OK"
  <2>1. s.reg[PC] + WORD_SIZE \in Int
    BY MachineFields, WordInt
  <2>2. jump(s, s.reg[PC] + WORD_SIZE).panic = s.panic
    BY <2>1, JumpType
  <2> QED
    BY <1>1, <1>3, <2>2 DEF op_jif
<1>7. CASE i.op \in {"J", "JEQ", "JNE"}
  <2>1. \/ ops(s, i) = op_j(s, i.form)
        \/ \E taken : ops(s, i) = op_jif(s, i.form, taken)
    BY <1>7 DEF ops, Arithmetic
  <2> QED
    BY <1>3, <1>6, <2>1
<1>8. CASE i.op = "CALL" /\ i.form # "R"
  <2>1. ops(s, i) = op_call(s, i.form)
    BY <1>8 DEF ops, Arithmetic
  <2> QED
    BY <1>3, <2>1
<1>9. CASE i.form = "RW" /\ i.op # "STOR"
  <2>1. i.op \in Arithmetic \union {"MOV", "CMP", "LOAD"}
    BY <1>2, <1>9 DEF forms, Plain, Arithmetic
  <2>2. ops(s, i) \in {op_mov_rw(s, i.r), op_load_rw(s, i.r), op_alu_rw(s, i.op, i.r),
                       op_cmp_rw(s, i.r)}
    BY <1>9, <2>1 DEF ops, Arithmetic
  <2> QED
    BY <1>4, <1>5, <2>2
<1> QED
  BY <1>7, <1>8, <1>9 DEF Refused, printed_operand

LEMMA PrintedType ==
    ASSUME NEW s \in Decoded, NEW i, Runnable(s, i)
    PROVE  /\ cpu_instruction_to_string(s, i) \in Decoded
           /\ Runnable(cpu_instruction_to_string(s, i), i)
<1>1. CASE printed_operand(i) /\ s.reg[PC] \notin Readable
  <2> DEFINE t == load(s, s.reg[PC])
  <2>1. cpu_instruction_to_string(s, i) = t
    BY <1>1 DEF cpu_instruction_to_string
  <2>2. t \in Decoded /\ t.panic # "OK" /\ t.reg = s.reg
    BY <1>1, LoadType
  <2> HIDE DEF t
  <2> QED
    BY <1>1, <2>1, <2>2 DEF Runnable, Refused
<1>2. CASE ~ (printed_operand(i) /\ s.reg[PC] \notin Readable)
  BY <1>2 DEF cpu_instruction_to_string, load
<1> QED
  BY <1>1, <1>2

LEMMA TracedSafe ==
    ASSUME NEW s \in Decoded, NEW i, IsInstruction(i), Runnable(s, i)
    PROVE  /\ op_call_traced(s, i) \in Decoded
           /\ ~ several_registers(i) => Sound(op_call_traced(s, i))
<1> DEFINE u == IF s.print_op THEN cpu_instruction_to_string(s, i) ELSE s
<1>1. u \in Decoded /\ Runnable(u, i)
  BY PrintedType
<1>2. op_call_traced(s, i) = ops(u, i)
  BY DEF op_call_traced
<1> HIDE DEF u
<1>3. ops(u, i) \in Decoded /\ (Refused(u, i) => ops(u, i).panic # "OK")
      /\ (~ several_registers(i) /\ Clean(u) => Sound(ops(u, i)))
  BY <1>1, OpsSafe, RefusedAgain DEF Safe
<1> QED
  BY <1>1, <1>2, <1>3 DEF Runnable, Sound

(***************************************************************************)
(* The loop.                                                               *)
(***************************************************************************)
\* The word before the program counter, the last one fetched.
last_word == m.mem[(m.reg[PC] - WORD_SIZE) % Modulus]

\* The inductive invariant: the debugger is called for an instruction, with a machine
\* where no access failed but the printer's, and the CPU panics at a word that encodes
\* no instruction where it stopped, just behind that word.
CpuInv ==
    /\ TypeOK
    /\ thread = "trap" => IsInstruction(ins) /\ Runnable(m, ins)
    /\ m.panic = "UNIMPLEMENTED_OPCODE" => thread \in {"loop", "done"} /\ Code[last_word] = {}

LEMMA LoopingDecoded == CpuInv /\ (Looping \/ thread = "trap") => m \in Decoded
BY DecodedMachine DEF CpuInv, TypeOK, Looping

LEMMA TopType ==
    ASSUME TypeOK, Looping, NEW line \in arriving
    PROVE  top(line) \in Decoded /\ Sound(top(line))
<1> DEFINE s == [m EXCEPT !.fault = FALSE]
<1>1. s \in Decoded /\ Clean(s)
  BY DEF TypeOK, Looping, Machine, Decoded, Clean, Panics
<1>2. CASE line = NoLine
  BY <1>1, <1>2 DEF top, Clean, Sound
<1>3. CASE line # NoLine
  <2> DEFINE u == [s EXCEPT !.ie = FALSE]
             q == [u EXCEPT !.reg[IR] = line]
             p == push(q, s.reg[PC])
             a == ROM_ADDRESS + 2 * WORD_SIZE
  <2>1. line \in Word /\ IR \in Registers /\ a \in Int
    BY <1>3, CpuAssumption, WordFacts DEF arriving, NoLine, Word
  <2>2. s.reg[PC] \in Word
    BY <1>1, MachineFields
  <2>3. q = [s EXCEPT !.ie = FALSE, !.reg[IR] = line]
    OBVIOUS
  <2>4. top(line) = Then(p, jump(p, a))
    BY <1>3, <2>3 DEF top, interrupted
  <2> HIDE DEF s, a
  <2>5. u \in Decoded /\ Clean(u)
    <3>1. Safe(s, u)
      BY <1>1, FlagSafe
    <3>2. u.panic = s.panic /\ u.fault = s.fault
      BY <1>1 DEF Decoded
    <3> QED
      BY <1>1, <3>1, <3>2 DEF Safe, Clean
  <2> HIDE DEF u
  <2>6. q \in Decoded /\ Clean(q)
    BY <2>1, <2>5, RegisterType DEF Clean
  <2> HIDE DEF q
  <2>7. p \in Decoded /\ Safe(q, p)
    BY <2>2, <2>6, PushType, PartsSafe
  <2> HIDE DEF p
  <2>8. Safe(q, Then(p, jump(p, a)))
    BY <2>1, <2>7, PartsSafe, ThenSafe
  <2> QED
    BY <2>4, <2>6, <2>8 DEF Safe
<1> QED
  BY <1>2, <1>3

\* The fetch of an iteration, and the instruction it decodes.
LEMMA DecodeType ==
    ASSUME TypeOK, Looping, NEW line \in arriving
    PROVE  LET f == cpu_fetch(top(line))
           IN  /\ f \in Decoded
               /\ f.panic = "OK" =>
                    Clean(f) /\ \A i \in cpu_decode(line) : IsInstruction(i)
<1> DEFINE s == top(line)
           f == cpu_fetch(s)
<1>1. s \in Decoded /\ Sound(s)
  BY TopType
<1>2. cpu_decode(line) = Code[fetched(s)]
  BY DEF cpu_decode
<1> HIDE DEF s
<1>3. /\ f \in Decoded /\ (Clean(s) => Sound(f))
      /\ f.panic = "OK" => s.panic = "OK" /\ fetched(s) \in Word
  BY <1>1, FetchType
<1>4. f.fault \in BOOLEAN /\ s.fault \in BOOLEAN
  BY <1>1, <1>3, MachineFields
<1> HIDE DEF f
<1>5. f.panic = "OK" => Clean(f)
  BY <1>1, <1>3, <1>4 DEF Clean, Sound
<1>6. ASSUME f.panic = "OK", NEW i \in cpu_decode(line) PROVE IsInstruction(i)
  BY <1>2, <1>3, <1>6, CodeAssumption
<1> QED
  BY <1>3, <1>5, <1>6 DEF f, s

\* The debugger's command, and the execution of the instruction it was called for.
LEMMA DebugType ==
    ASSUME CpuInv, thread = "trap", NEW c
    PROVE  LET s == [m EXCEPT !.running = (c = "step"), !.trap = (c # "continue")]
           IN  s \in Decoded /\ Runnable(s, ins) /\ IsInstruction(ins)
<1>1. m \in Decoded /\ Runnable(m, ins) /\ IsInstruction(ins)
  BY LoopingDecoded DEF CpuInv
<1>2. ASSUME NEW running \in BOOLEAN, NEW trap \in BOOLEAN
      PROVE  LET s == [m EXCEPT !.running = running, !.trap = trap]
             IN  /\ s \in Decoded /\ s.panic = m.panic /\ s.fault = m.fault
                 /\ s.reg = m.reg
  BY <1>1 DEF Decoded
<1>3. (c = "step") \in BOOLEAN /\ (c # "continue") \in BOOLEAN
  OBVIOUS
<1> DEFINE s == [m EXCEPT !.running = (c = "step"), !.trap = (c # "continue")]
<1>4. s \in Decoded /\ s.panic = m.panic /\ s.fault = m.fault /\ s.reg = m.reg
  BY <1>2, <1>3, Zenon
<1> HIDE DEF s
<1>5. Runnable(s, ins)
  BY <1>1, <1>4 DEF Runnable, Clean, Refused
<1> QED
  BY <1>1, <1>4, <1>5 DEF s

LEMMA InitType == Init => CpuInv
<1> SUFFICES ASSUME Init PROVE CpuInv
  OBVIOUS
<1>1. PICK image \in Images, pc \in Pcs, ir \in {IDT_ADDRESS} \union Lines :
         m = [reg |-> [r \in Registers |->
                         CASE r \in {PC, CS} -> pc
                           [] r \in {SP, BP} -> STACK_SIZE
                           [] r = IDT -> IDT_ADDRESS
                           [] r = IR -> ir
                           [] OTHER -> 0],
              mem |-> image, ie |-> FALSE, z |-> TRUE, n |-> FALSE,
              print_op |-> FALSE, trap |-> FALSE,
              running |-> FALSE, panic |-> "OK", fault |-> FALSE]
  BY DEF Init
<1>2. /\ pc \in Word /\ STACK_SIZE \in Word /\ IDT_ADDRESS \in Word /\ ir \in Word /\ 0 \in Word
      /\ image \in [Readable -> Word]
  BY CpuAssumption, WordFacts
<1>3. m.reg \in [Registers -> Word]
  BY <1>1, <1>2
<1>4. m \in Machine
  BY <1>1, <1>2, <1>3 DEF Machine, Panics
<1> QED
  BY <1>1, <1>4 DEF Init, CpuInv, TypeOK

\* A machine that is decoded satisfies the invariant where the debugger is not called.
LEMMA DecodedInv ==
    ASSUME m' \in Decoded, thread' \in {"idle", "loop", "done"}
    PROVE  CpuInv'
<1>1. m' \in Machine /\ m'.panic # "UNIMPLEMENTED_OPCODE"
  BY DecodedMachine
<1> QED
  BY <1>1 DEF CpuInv, TypeOK

LEMMA StepType == CpuInv /\ [Next]_vars => CpuInv'
<1> SUFFICES ASSUME CpuInv, [Next]_vars PROVE CpuInv'
  OBVIOUS
<1>t. TypeOK /\ m \in Machine /\ m.panic \in Panics
  BY DEF CpuInv, TypeOK, Machine
<1>1. CASE StartLoop
  <2>1. m' \in Machine /\ m'.panic = "OK"
    BY <1>t, <1>1 DEF StartLoop, Machine, Panics
  <2> QED
    BY <1>1, <2>1 DEF StartLoop, CpuInv, TypeOK
<1>2. ASSUME NEW line \in arriving, CannotFetch(line) PROVE CpuInv'
  <2>1. m' \in Decoded /\ thread' = "loop"
    BY <1>t, <1>2, DecodeType DEF CannotFetch, Looping
  <2> QED
    BY <2>1, DecodedInv
<1>3. ASSUME NEW line \in arriving, NotImplemented(line) PROVE CpuInv'
  <2> DEFINE s == top(line)
             f == cpu_fetch(s)
  <2>1. s \in Decoded /\ f \in Decoded /\ thread' = "loop" /\ thread = "loop"
    BY <1>t, <1>3, TopType, DecodeType DEF NotImplemented, Fetches, Looping
  <2>2. Code[s.mem[s.reg[PC]]] = {} /\ m' = Panicked(f, "UNIMPLEMENTED_OPCODE")
    BY <1>3 DEF NotImplemented, cpu_decode, fetched
  <2> HIDE DEF s
  <2>3. f.mem = s.mem /\ f.reg[PC] = (s.reg[PC] + WORD_SIZE) % Modulus
    <3>1. f.mem = s.mem /\ f.reg = [s.reg EXCEPT ![PC] = (@ + WORD_SIZE) % Modulus]
      BY <2>1, FetchType
    <3>2. s.reg \in [Registers -> Word] /\ PC \in Registers
      BY <2>1, MachineFields, WordFacts
    <3> HIDE DEF f
    <3> QED
      BY <3>1, <3>2
  <2> HIDE DEF f
  <2>4. m' \in Machine /\ m'.reg = f.reg /\ m'.mem = f.mem
    <3>1. f \in Machine /\ "UNIMPLEMENTED_OPCODE" \in Panics
      BY <2>1, DecodedMachine DEF Panics
    <3> QED
      BY <2>2, <3>1 DEF Panicked, Machine
  <2>5. (m'.reg[PC] - WORD_SIZE) % Modulus = s.reg[PC]
    <3>1. s.reg[PC] \in Word
      BY <2>1, MachineFields
    <3> QED
      BY <2>3, <2>4, <3>1, UpAndDown
  <2>6. Code[last_word'] = {}
    BY <2>2, <2>3, <2>4, <2>5 DEF last_word
  <2> QED
    BY <2>1, <2>4, <2>6 DEF CpuInv, TypeOK
<1>4. ASSUME NEW line \in arriving, Fetches(line), NEW i \in cpu_decode(line),
             Execute(line, i)
      PROVE  CpuInv'
  <2>1. /\ cpu_fetch(top(line)) \in Decoded /\ Clean(cpu_fetch(top(line)))
        /\ IsInstruction(i) /\ thread = "loop"
    BY <1>t, <1>4, DecodeType DEF Fetches, Looping
  <2>2. m' \in Decoded /\ thread' = "loop"
    BY <1>4, <2>1, TracedSafe DEF Execute, Runnable
  <2> QED
    BY <2>2, DecodedInv
<1>5. ASSUME NEW line \in arriving, Fetches(line), NEW i \in cpu_decode(line),
             Trap(line, i)
      PROVE  CpuInv'
  <2>1. /\ cpu_fetch(top(line)) \in Decoded /\ Clean(cpu_fetch(top(line)))
        /\ IsInstruction(i)
    BY <1>t, <1>5, DecodeType DEF Fetches
  <2>2. m' \in Decoded /\ Runnable(m', i)
    BY <1>5, <2>1, PrintedType DEF Trap, Runnable
  <2>3. m' \in Machine /\ m'.panic # "UNIMPLEMENTED_OPCODE"
    BY <2>2, DecodedMachine
  <2> QED
    BY <1>5, <2>1, <2>2, <2>3 DEF Trap, CpuInv, TypeOK
<1>6. ASSUME NEW c \in Commands, Debug(c) PROVE CpuInv'
  <2>1. m' \in Decoded /\ thread' = "loop"
    BY <1>6, DebugType, TracedSafe DEF Debug
  <2> QED
    BY <2>1, DecodedInv
<1>7. CASE LeaveLoop \/ cpu_stop
  <2>1. /\ m' \in Machine /\ m'.panic = m.panic /\ m'.fault = m.fault /\ m'.reg = m.reg
        /\ m'.mem = m.mem
    BY <1>t, <1>7 DEF LeaveLoop, cpu_stop, Machine
  <2>2. Runnable(m, ins) => Runnable(m', ins)
    BY <2>1 DEF Runnable, Clean, Refused
  <2>3. last_word' = last_word
    BY <2>1 DEF last_word
  <2>4. TypeOK'
    BY <1>7, <2>1 DEF LeaveLoop, cpu_stop, CpuInv, TypeOK
  <2>5. thread' = "trap" => thread = "trap" /\ ins' = ins
    BY <1>7 DEF LeaveLoop, cpu_stop
  <2>6. thread \in {"loop", "done"} => thread' \in {"loop", "done"}
    BY <1>7 DEF LeaveLoop, cpu_stop
  <2> QED
    BY <2>1, <2>2, <2>3, <2>4, <2>5, <2>6 DEF CpuInv
<1>8. CASE UNCHANGED vars
  BY <1>8 DEF vars, CpuInv, TypeOK, last_word
<1> QED
  BY <1>1, <1>2, <1>3, <1>4, <1>5, <1>6, <1>7, <1>8 DEF Next, Iterate

LEMMA CpuInvariant == Spec => []CpuInv
BY InitType, StepType, PTL DEF Spec

\* The registers, the memory and the flags keep their types: every register and every
\* word of memory stays a word of the machine, whatever the instructions computed,
\* pushed or popped (cpu.c, ops.c).
THEOREM CpuTypeCorrect == Spec => []TypeOK
<1>1. CpuInv => TypeOK
  BY DEF CpuInv
<1> QED
  BY <1>1, CpuInvariant, PTL

LEMMA FaultPanicsInv ==
    CpuInv => (m'.fault /\ m'.panic = "OK"
               => \A i \in Instructions : Executes(i) => several_registers(i))
<1> SUFFICES ASSUME CpuInv, m'.fault, m'.panic = "OK",
                    NEW i \in Instructions, Executes(i), ~ several_registers(i)
             PROVE  FALSE
  OBVIOUS
<1>1. CASE thread = "trap" /\ i = ins /\ \E c \in Commands : Debug(c)
  <2>1. PICK c \in Commands : Debug(c)
    BY <1>1
  <2> DEFINE s == [m EXCEPT !.running = (c = "step"), !.trap = (c # "continue")]
  <2>2. s \in Decoded /\ Runnable(s, i) /\ IsInstruction(i)
    BY <1>1, DebugType
  <2>3. m' = op_call_traced(s, i)
    BY <1>1, <2>1 DEF Debug
  <2> HIDE DEF s
  <2>4. Sound(op_call_traced(s, i))
    BY <2>2, TracedSafe
  <2> QED
    BY <2>3, <2>4 DEF Sound
<1>2. ASSUME NEW line \in arriving, Fetches(line), i \in cpu_decode(line),
             Execute(line, i)
      PROVE  FALSE
  <2>1. /\ cpu_fetch(top(line)) \in Decoded /\ Clean(cpu_fetch(top(line)))
        /\ IsInstruction(i)
    BY <1>2, DecodeType DEF Fetches, CpuInv
  <2>2. m' = op_call_traced(cpu_fetch(top(line)), i)
    BY <1>2 DEF Execute
  <2>3. Sound(op_call_traced(cpu_fetch(top(line)), i))
    BY <2>1, TracedSafe DEF Runnable
  <2> QED
    BY <2>2, <2>3 DEF Sound
<1> QED
  BY <1>1, <1>2 DEF Executes

\* An access that the bus or the register file refused leaves the CPU in panic, whatever
\* instruction on at most one register of the stack it was part of, interrupted, traced
\* or debugged (ops.c, cpu.c).
THEOREM FaultPanicsHolds == Spec => FaultPanics
<1> DEFINE A == m'.fault /\ m'.panic = "OK"
                  => \A i \in Instructions : Executes(i) => several_registers(i)
<1>1. CpuInv => [A]_vars
  BY FaultPanicsInv
<1> HIDE DEF A
<1>2. FaultPanics <=> [][A]_vars
  BY DEF FaultPanics, A
<1> QED
  BY <1>1, <1>2, CpuInvariant, PTL

LEMMA PrintingInv == CpuInv => PrintingInvisible
<1> DEFINE s == cpu_fetch([m EXCEPT !.fault = FALSE])
<1> SUFFICES ASSUME CpuInv, Looping, s.panic = "OK", NEW i \in Instructions
             PROVE  LET t == ops(cpu_instruction_to_string(s, i), i)
                    IN  t = ops(s, i) \/ t.panic # "OK"
  BY DEF PrintingInvisible
<1>1. [m EXCEPT !.fault = FALSE] \in Decoded
  BY LoopingDecoded DEF Decoded
<1>2. s \in Decoded
  BY <1>1, FetchType
<1>3. IsInstruction(i)
  BY CodeAssumption DEF Instructions
<1> HIDE DEF s
<1>4. CASE printed_operand(i) /\ s.reg[PC] \notin Readable
  <2> DEFINE t == load(s, s.reg[PC])
  <2>1. cpu_instruction_to_string(s, i) = t
    BY <1>4 DEF cpu_instruction_to_string
  <2>2. t \in Decoded /\ t.panic # "OK" /\ t.reg = s.reg
    BY <1>2, <1>4, LoadType
  <2> HIDE DEF t
  <2>3. ops(t, i).panic # "OK"
    BY <1>3, <1>4, <2>2, RefusedAgain DEF Refused
  <2> QED
    BY <2>1, <2>3
<1>5. CASE ~ (printed_operand(i) /\ s.reg[PC] \notin Readable)
  BY <1>5 DEF cpu_instruction_to_string, load
<1> QED
  BY <1>4, <1>5

\* The tracing and the debugger read a program that runs on as if it were not watched:
\* printing an instruction, whichever it is, changes nothing but a run that panics
\* (debug.c, cpu.c).
THEOREM PrintingInvisibleHolds == Spec => []PrintingInvisible
BY PrintingInv, CpuInvariant, PTL

(***************************************************************************)
(* Calls and returns.                                                      *)
(***************************************************************************)
\* A return after a push and a jump, as a call or the entry of an interrupt makes them.
LEMMA ReturnAfterPush ==
    ASSUME NEW s \in Decoded, NEW v \in Word, NEW a \in Int
    PROVE  LET p == push(s, v)
               t == Then(p, jump(p, a))
           IN  /\ t \in Decoded
               /\ t.panic = "OK" =>
                    /\ t.ie = s.ie /\ op_ret(t) \in Decoded /\ op_ret(t).panic = "OK"
                    /\ op_ret(t).reg[SP] = s.reg[SP] /\ op_ret(t).reg[PC] = v
<1> DEFINE p == push(s, v)
           t == Then(p, jump(p, a))
           b == (s.reg[SP] - WORD_SIZE) % Modulus
           c == (b + WORD_SIZE) % Modulus
<1>1. /\ p \in Decoded /\ b \in Word
      /\ p.panic = "OK" => b \in Writable /\ p = [s EXCEPT !.reg[SP] = b, !.mem[b] = v]
  BY PushType
<1>2. c = s.reg[SP]
  BY MachineFields, WordInt, DownAndUp
<1>3. SP # PC /\ SP \in Registers /\ PC \in Registers /\ Writable \subseteq Readable
      /\ a % Modulus \in Word /\ v % Modulus = v /\ v \in Int
  <2>1. SP # PC
    BY DEF SP, PC
  <2>2. SP \in Registers /\ PC \in Registers
    BY WordFacts
  <2>3. v % Modulus = v /\ v \in Int
    BY WordFacts, WordInt
  <2>4. a % Modulus \in Word /\ Writable \subseteq Readable
    BY WordFacts, CpuAssumption
  <2> QED
    BY <2>1, <2>2, <2>3, <2>4
<1> HIDE DEF p, b
<1>4. jump(p, a) \in Decoded /\ jump(p, a) = [p EXCEPT !.reg[PC] = a % Modulus]
  BY <1>1, JumpType DEF jump
<1>5. t \in Decoded
  BY <1>1, <1>4 DEF Then
<1>6. ASSUME t.panic = "OK"
      PROVE  /\ t.ie = s.ie /\ op_ret(t) \in Decoded /\ op_ret(t).panic = "OK"
             /\ op_ret(t).reg[SP] = s.reg[SP] /\ op_ret(t).reg[PC] = v
  <2>1. p.panic = "OK" /\ t = jump(p, a)
    BY <1>6 DEF Then
  <2>2. s.reg \in [Registers -> Word] /\ s.mem \in [Readable -> Word] /\ b \in Readable
    BY <1>1, <1>3, <2>1, MachineFields
  <2>3. t.reg[SP] = b /\ t.mem[b] = v /\ t.ie = s.ie
    <3> DEFINE w == a % Modulus
    <3>1. p = [s EXCEPT !.reg[SP] = b, !.mem[b] = v]
      BY <1>1, <2>1
    <3>2. p.reg = [s.reg EXCEPT ![SP] = b] /\ p.mem = [s.mem EXCEPT ![b] = v] /\ p.ie = s.ie
      BY <3>1 DEF Decoded
    <3> HIDE DEF t, w
    <3>3. t.reg = [p.reg EXCEPT ![PC] = w] /\ t.mem = p.mem /\ t.ie = p.ie
      BY <1>1, <1>4, <2>1 DEF Decoded, w
    <3> QED
      BY <1>3, <2>2, <3>2, <3>3
  <2>4. load(t, b) = t
    BY <2>2 DEF load
  <2> DEFINE j == jump(t, v)
             r == [j EXCEPT !.reg[SP] = c]
  <2>5. op_ret(t) = r
    BY <1>6, <2>3, <2>4 DEF op_ret, Then
  <2> HIDE DEF t, c
  <2>6. j \in Decoded /\ j.panic = "OK" /\ j.reg = [t.reg EXCEPT ![PC] = v]
    BY <1>3, <1>5, <1>6, JumpType
  <2>7. t.reg \in [Registers -> Word] /\ c \in Word
    BY <1>2, <1>5, MachineFields
  <2> HIDE DEF j
  <2>8. r \in Decoded /\ r.panic = "OK" /\ r.reg = [j.reg EXCEPT ![SP] = c]
    BY <1>3, <2>6, <2>7, RegisterType
  <2> HIDE DEF r
  <2> QED
    BY <1>2, <1>3, <2>3, <2>5, <2>6, <2>7, <2>8
<1> QED
  BY <1>5, <1>6 DEF p

LEMMA PcHere ==
    ASSUME NEW s \in Decoded
    PROVE  s.reg[PC] \in Word /\ (s.reg[PC] + 0) % Modulus = s.reg[PC]
<1> DEFINE v == s.reg[PC]
<1>1. v \in Word
  BY MachineFields
<1> HIDE DEF v
<1>2. v + 0 = v
  BY <1>1, WordInt
<1>3. v % Modulus = v
  BY <1>1, WordFacts
<1> QED
  BY <1>1, <1>2, <1>3 DEF v

LEMMA ReturnsInv == CpuInv => CallReturns
<1> DEFINE Returned(s, t, pc) ==
              \/ s.panic # "OK"
              \/ t.panic # "OK"
              \/ (t.reg[SP] = m.reg[SP] /\ t.reg[PC] = pc)
           After(n) == (m.reg[PC] + n) % Modulus
<1>1. ASSUME CpuInv, Looping, NEW form
      PROVE  Returned(op_call(m, form), op_ret(op_call(m, form)), After(WORD_SIZE))
  <2> DEFINE f == cpu_fetch(m)
             a == base(m, form) + fetched(m)
             t == call(f, a)
  <2>1. m \in Decoded
    BY <1>1, LoopingDecoded, Zenon
  <2>2. base(m, form) \in Int
    BY <2>1, MachineFields, WordInt DEF base
  <2>3. f \in Decoded /\ (f.panic = "OK" => a \in Int)
    BY <2>1, <2>2, Operand
  <2>4. f.reg[SP] = m.reg[SP] /\ f.reg[PC] = After(WORD_SIZE) /\ f.reg[PC] \in Word
    <3>1. f.reg = [m.reg EXCEPT ![PC] = After(WORD_SIZE)]
      BY <2>1, FetchType
    <3>2. m.reg \in [Registers -> Word] /\ SP \in Registers /\ PC \in Registers
      BY <2>1, MachineFields, WordFacts
    <3>3. SP # PC
      BY DEF SP, PC
    <3>4. f.reg[PC] \in Word
      BY <2>3, MachineFields
    <3> HIDE DEF f
    <3> QED
      BY <3>1, <3>2, <3>3, <3>4
  <2>5. op_call(m, form) = Then(f, t)
    BY DEF op_call
  <2> HIDE DEF f, a, After
  <2>6. f.panic = "OK" /\ t.panic = "OK" =>
          op_ret(t).reg[SP] = f.reg[SP] /\ op_ret(t).reg[PC] = f.reg[PC]
    BY <2>3, <2>4, ReturnAfterPush DEF call
  <2> HIDE DEF t
  <2> QED
    BY <2>4, <2>5, <2>6 DEF Then
<1>2. ASSUME CpuInv, Looping, NEW r \in Registers
      PROVE  Returned(op_call_r(m, <<r>>), op_ret(op_call_r(m, <<r>>)), After(0))
  <2> DEFINE g == cpu_register_get(m, {r})
             a == m.reg[r]
             t == call(g, a)
  <2>1. m \in Decoded
    BY <1>2, LoopingDecoded, Zenon
  <2>2. g \in Decoded /\ g.reg = m.reg /\ a \in Int
    BY <2>1, GetType, MachineFields, WordInt
  <2>3. m.reg[PC] \in Word /\ After(0) = m.reg[PC]
    BY <2>1, PcHere
  <2>4. op_call_r(m, <<r>>) = Then(g, t)
    BY DEF op_call_r
  <2> HIDE DEF g, a, After
  <2>5. t.panic = "OK" =>
          op_ret(t).reg[SP] = g.reg[SP] /\ op_ret(t).reg[PC] = g.reg[PC]
    BY <2>2, <2>3, ReturnAfterPush DEF call
  <2> HIDE DEF t
  <2> QED
    BY <2>2, <2>3, <2>4, <2>5 DEF Then
<1>3. ASSUME CpuInv, Looping, NEW line \in Lines
      PROVE  LET s == interrupted(m, line)
             IN  /\ Returned(s, op_iret(s), After(0))
                 /\ s.panic = "OK" => ~s.ie /\ op_iret(s).ie
  <2> DEFINE u == [m EXCEPT !.ie = FALSE]
             q == [u EXCEPT !.reg[IR] = line]
             v == m.reg[PC]
             a == ROM_ADDRESS + 2 * WORD_SIZE
             p == push(q, v)
             s == Then(p, jump(p, a))
             t == op_ret(s)
  <2>1. m \in Decoded
    BY <1>3, LoopingDecoded, Zenon
  <2>2. line \in Word /\ IR \in Registers /\ a \in Int
    BY <1>3, CpuAssumption, WordFacts DEF Word
  <2>3. v \in Word /\ After(0) = v
    BY <2>1, PcHere
  <2>4. interrupted(m, line) = s
    BY DEF interrupted
  <2>5. u \in Decoded /\ u.reg = m.reg /\ ~u.ie
    BY <2>1 DEF Decoded
  <2> HIDE DEF a, v, After
  <2>6. q \in Decoded /\ ~q.ie /\ q.reg[SP] = m.reg[SP]
    <3>1. q \in Decoded /\ q.reg = [u.reg EXCEPT ![IR] = line]
      BY <2>2, <2>5, RegisterType
    <3>2. ~q.ie
      BY <2>5 DEF Decoded
    <3>3. SP # IR
      BY DEF SP, IR
    <3>4. m.reg \in [Registers -> Word] /\ SP \in Registers
      BY <2>1, MachineFields, WordFacts
    <3> HIDE DEF q, u
    <3> QED
      BY <2>5, <3>1, <3>2, <3>3, <3>4
  <2> HIDE DEF q
  <2>7. /\ s \in Decoded
        /\ s.panic = "OK" =>
             /\ s.ie = q.ie /\ t \in Decoded /\ t.panic = "OK"
             /\ t.reg[SP] = q.reg[SP] /\ t.reg[PC] = v
    BY <2>2, <2>3, <2>6, ReturnAfterPush
  <2>8. op_iret(s) = Then(t, [t EXCEPT !.ie = TRUE])
    BY DEF op_iret
  <2> HIDE DEF s, t
  <2>9. t \in Decoded => LET w == [t EXCEPT !.ie = TRUE] IN w.ie /\ w.reg = t.reg
    BY DEF Decoded
  <2> QED
    BY <2>3, <2>4, <2>6, <2>7, <2>8, <2>9 DEF Then
<1> QED
  BY <1>1, <1>2, <1>3 DEF CallReturns

\* A return undoes a call, and the return from an interrupt the entry of one: the
\* program is where the call left it, its stack pointer where it was, whatever the
\* size of a word makes wrap around, or the CPU is in panic (ops.c, cpu.c).
THEOREM CallReturnsHolds == Spec => []CallReturns
BY ReturnsInv, CpuInvariant, PTL

(***************************************************************************)
(* Pushing registers and popping them in reverse.                          *)
(***************************************************************************)
\* A register pushed: the word below the stack pointer holds it, unless the bus
\* refused the write, which leaves the memory alone, whatever panic was there before.
LEMMA PushOne ==
    ASSUME NEW s \in Decoded, NEW r \in Registers
    PROVE  LET a == (s.reg[SP] - WORD_SIZE) % Modulus
               t == push_register(s, r)
           IN  /\ t.reg = [s.reg EXCEPT ![SP] = a]
               /\ a \in Writable => t.mem = [s.mem EXCEPT ![a] = s.reg[r]]
               /\ a \notin Writable => t.mem = s.mem
<1> DEFINE a == (s.reg[SP] - WORD_SIZE) % Modulus
           g == [s EXCEPT !.panic = "OK"]
           u == [g EXCEPT !.reg[SP] = a]
           v == s.reg[r]
           t == push_register(s, r)
<1>1. g \in Decoded /\ g.panic = "OK" /\ g.reg = s.reg /\ g.mem = s.mem
  BY UnpanickedType
<1>2. a \in Word /\ SP \in Registers /\ v \in Word
  BY MachineFields, NextWord, WordFacts
<1>3. cpu_register_get(s, {r}) = g
  BY DEF cpu_register_get
<1>4. t = Then(g, push(g, v))
  BY <1>3 DEF push_register
<1>5. push(g, v) = store(u, a, v)
  BY <1>1 DEF push
<1> HIDE DEF a, g, t, v
<1>6. u \in Decoded /\ u.reg = [s.reg EXCEPT ![SP] = a] /\ u.mem = s.mem
  BY <1>1, <1>2, RegisterType
<1> HIDE DEF u
<1>7. t = store(u, a, v)
  BY <1>1, <1>4, <1>5 DEF Then
<1>8. CASE a \in Writable
  <2>1. a \in Readable /\ t = [u EXCEPT !.mem[a] = v]
    BY <1>7, <1>8, CpuAssumption DEF store
  <2>2. t.reg = u.reg /\ t.mem = [s.mem EXCEPT ![a] = v]
    BY <1>2, <1>6, <2>1, MemoryType
  <2> QED
    BY <1>6, <1>8, <2>2 DEF a, t, v
<1>9. CASE a \notin Writable
  <2>1. /\ t = Panicked(u, "CANNOT_WRITE_MEMORY")
        /\ "CANNOT_WRITE_MEMORY" \in Panics \ {"OK", "UNIMPLEMENTED_OPCODE"}
    BY <1>7, <1>9 DEF store, Panics
  <2>2. t.reg = u.reg /\ t.mem = u.mem
    BY <1>6, <2>1, PanickedType
  <2> QED
    BY <1>6, <1>9, <2>2 DEF a, t, v
<1> QED
  BY <1>8, <1>9

\* A register popped from g: it takes the word at the stack pointer, or the read was
\* refused and the CPU is in the panic that keeps the ones after it from being popped.
Pops(g, t, r) ==
    LET a == g.reg[SP]
        b == (a + WORD_SIZE) % Modulus
    IN  \/ t.panic = "CANNOT_READ_MEMORY"
        \/ /\ g.panic # "CANNOT_READ_MEMORY" /\ a \in Readable /\ t.mem = g.mem
           /\ t.reg = [[g.reg EXCEPT ![SP] = b] EXCEPT ![r] = g.mem[a]]

LEMMA PopOne ==
    ASSUME NEW s \in Decoded, NEW r \in Registers
    PROVE  Pops(s, pop_register(s, r), r)
<1> DEFINE a == s.reg[SP]
           b == (a + WORD_SIZE) % Modulus
           t == pop_register(s, r)
           u == [s EXCEPT !.reg[SP] = b]
           v == s.mem[a]
<1>1. a \in Word /\ b \in Word /\ SP \in Registers
  BY MachineFields, NextWord, WordFacts
<1>2. CASE s.panic = "CANNOT_READ_MEMORY" \/ a \notin Readable
  <2>1. t = load(s, a)
    BY <1>2 DEF pop_register
  <2> HIDE DEF Pops, a, t
  <2>2. CASE a \in Readable
    <3>1. t = s
      BY <2>1, <2>2 DEF load
    <3> QED
      BY <1>2, <2>2, <3>1 DEF Pops, a, t
  <2>3. CASE a \notin Readable
    <3>1. /\ t = Panicked(s, "CANNOT_READ_MEMORY")
          /\ "CANNOT_READ_MEMORY" \in Panics \ {"OK", "UNIMPLEMENTED_OPCODE"}
      BY <2>1, <2>3 DEF load, Panics
    <3>2. t.panic = "CANNOT_READ_MEMORY"
      BY <3>1, PanickedType
    <3> QED
      BY <3>2 DEF Pops, t
  <2> QED
    BY <2>2, <2>3
<1>3. CASE ~ (s.panic = "CANNOT_READ_MEMORY" \/ a \notin Readable)
  <2>1. t = cpu_register_set(u, r, v)
    BY <1>3 DEF pop_register
  <2>2. v \in Word
    BY <1>3, MachineFields
  <2> HIDE DEF a, b, t, v
  <2>3. u \in Decoded /\ u.reg = [s.reg EXCEPT ![SP] = b] /\ u.mem = s.mem
    BY <1>1, RegisterType
  <2> HIDE DEF u
  <2> DEFINE w == [u EXCEPT !.reg[r] = v]
             x == [w EXCEPT !.panic = "OK"]
  <2>4. t = cpu_flags_update(x, v)
    BY <2>1 DEF cpu_register_set
  <2>5. w \in Decoded /\ w.reg = [u.reg EXCEPT ![r] = v] /\ w.mem = u.mem
    BY <2>2, <2>3, RegisterType
  <2> HIDE DEF w
  <2>6. x \in Decoded /\ x.reg = w.reg /\ x.mem = w.mem
    BY <2>5, UnpanickedType
  <2> HIDE DEF x
  <2>7. t.mem = s.mem /\ t.reg = w.reg
    BY <2>2, <2>3, <2>4, <2>5, <2>6, FlagsType
  <2> QED
    BY <1>3, <2>3, <2>5, <2>7 DEF Pops, a, b, t, v
<1> QED
  BY <1>2, <1>3

LEMMA SameRemainder ==
    ASSUME NEW y \in Int, NEW k \in Int
    PROVE  (y + Modulus * k) % Modulus = y % Modulus
<1> DEFINE u == y % Modulus
           q == y \div Modulus
<1>1. Modulus \in Nat \ {0}
  BY WordFacts
<1> HIDE DEF Modulus
<1>2. u \in 0 .. Modulus - 1 /\ q \in Int /\ y = (Modulus * q) + u
  BY <1>1
<1>3. Modulus * (q + k) = Modulus * q + Modulus * k /\ q + k \in Int
      /\ Modulus * q \in Int /\ Modulus * k \in Int
  BY <1>1, <1>2
<1> HIDE DEF u, q
<1>4. y + Modulus * k = u + Modulus * (q + k)
  BY <1>2, <1>3
<1>5. (u + Modulus * (q + k)) % Modulus = u
  BY <1>1, <1>2, <1>3, Remainder
<1> QED
  BY <1>4, <1>5 DEF u

\* The stack pointer k words below sp.
Depth(sp, k) == (sp - k * WORD_SIZE) % Modulus

LEMMA DepthStep ==
    ASSUME NEW sp \in Word, NEW k \in Nat
    PROVE  /\ Depth(sp, k) \in Word /\ Depth(sp, 0) = sp
           /\ (Depth(sp, k) - WORD_SIZE) % Modulus = Depth(sp, k + 1)
           /\ (Depth(sp, k + 1) + WORD_SIZE) % Modulus = Depth(sp, k)
<1> DEFINE a == sp - k * WORD_SIZE
           b == sp - (k + 1) * WORD_SIZE
<1>1. sp \in Int /\ WORD_SIZE \in Nat /\ Modulus \in Nat \ {0}
  BY WordFacts
<1>2. a \in Int /\ b \in Int /\ b = a - WORD_SIZE /\ sp - 0 * WORD_SIZE = sp
  BY <1>1
<1>3. Depth(sp, k) = a % Modulus /\ Depth(sp, k + 1) = b % Modulus
  BY DEF Depth
<1>4. Depth(sp, k) \in Word /\ Depth(sp, 0) = sp
  BY <1>2, <1>3, WordFacts DEF Depth
<1>5. ASSUME NEW x \in Int, NEW d \in Int
      PROVE  ((x % Modulus) + d) % Modulus = (x + d) % Modulus
  <2> DEFINE u == x % Modulus
             q == x \div Modulus
  <2> HIDE DEF Modulus
  <2>1. u \in Int /\ q \in Int /\ x = (Modulus * q) + u
    BY <1>1
  <2>2. - q \in Int /\ Modulus * (- q) = - (Modulus * q) /\ Modulus * q \in Int
    BY <1>1, <2>1
  <2> HIDE DEF u, q
  <2>3. u + d = (x + d) + Modulus * (- q)
    BY <2>1, <2>2
  <2>4. ((x + d) + Modulus * (- q)) % Modulus = (x + d) % Modulus
    BY <2>2, SameRemainder
  <2> QED
    BY <2>3, <2>4 DEF u
<1> HIDE DEF a, b
<1>6. ((a % Modulus) + (- WORD_SIZE)) % Modulus = (a + (- WORD_SIZE)) % Modulus
      /\ ((b % Modulus) + WORD_SIZE) % Modulus = (b + WORD_SIZE) % Modulus
  <2>1. - WORD_SIZE \in Int /\ WORD_SIZE \in Int
    BY <1>1
  <2> QED
    BY <1>2, <1>5, <2>1, Zenon
<1>7. /\ (a % Modulus) + (- WORD_SIZE) = (a % Modulus) - WORD_SIZE
      /\ a + (- WORD_SIZE) = b /\ b + WORD_SIZE = a
  <2>1. a % Modulus \in Int
    BY <1>2, WordFacts, WordInt
  <2> QED
    BY <1>1, <1>2, <2>1
<1> QED
  BY <1>3, <1>4, <1>6, <1>7

\* The words of a stack that is no longer than the memory are apart.
LEMMA DepthsApart ==
    ASSUME NEW sp \in Word, NEW n \in Nat, n * WORD_SIZE <= Modulus,
           NEW j \in 1 .. n, NEW k \in 1 .. n, Depth(sp, j) = Depth(sp, k)
    PROVE  j = k
<1> DEFINE a == sp - j * WORD_SIZE
           b == sp - k * WORD_SIZE
           p == a \div Modulus
           q == b \div Modulus
           d == (k - j) * WORD_SIZE
<1>1. sp \in Int /\ WORD_SIZE \in Nat \ {0} /\ Modulus \in Nat \ {0}
  BY WordFacts
<1>2. a % Modulus = b % Modulus
  BY DEF Depth
<1> HIDE DEF Modulus
<1>3. a \in Int /\ b \in Int /\ d \in Int /\ a - b = d
  BY <1>1
<1>4. d < Modulus /\ - Modulus < d
  <2>1. 1 * WORD_SIZE <= j * WORD_SIZE /\ j * WORD_SIZE <= n * WORD_SIZE
    BY <1>1
  <2>2. 1 * WORD_SIZE <= k * WORD_SIZE /\ k * WORD_SIZE <= n * WORD_SIZE
    BY <1>1
  <2>3. d = k * WORD_SIZE - j * WORD_SIZE
        /\ j * WORD_SIZE \in Int /\ k * WORD_SIZE \in Int /\ n * WORD_SIZE \in Int
    BY <1>1
  <2> HIDE DEF d
  <2> QED
    BY <1>1, <2>1, <2>2, <2>3
<1> HIDE DEF a, b
<1>5. p \in Int /\ q \in Int /\ a = (Modulus * p) + (a % Modulus)
      /\ b = (Modulus * q) + (b % Modulus) /\ a % Modulus \in Int
  BY <1>1, <1>3
<1>6. Modulus * (p - q) = Modulus * p - Modulus * q /\ p - q \in Int
      /\ Modulus * p \in Int /\ Modulus * q \in Int
  BY <1>1, <1>5
<1> HIDE DEF p, q
<1>7. d = Modulus * (p - q)
  BY <1>2, <1>3, <1>5, <1>6
<1> HIDE DEF d
<1>8. p - q = 0
  BY <1>1, <1>4, <1>6, <1>7, SmallMultiple
<1>9. d = 0
  BY <1>1, <1>7, <1>8
<1>10. (k - j) * WORD_SIZE = 0
  BY <1>9 DEF d
<1> QED
  BY <1>1, <1>10

\* General registers pushed: the stack pointer is below them, each is in its word of
\* the stack, the last one lowest, where that word may be written, and no word that may
\* not is touched.
LEMMA PushesDown ==
    ASSUME NEW s \in Decoded, RegCount <= SP,
           NEW n \in Nat, n * WORD_SIZE <= Modulus,
           NEW rs \in [1 .. n -> 0 .. RegCount - 1]
    PROVE  LET t == op_push(s, rs)
           IN  /\ t \in Decoded
               /\ t.reg = [s.reg EXCEPT ![SP] = Depth(s.reg[SP], n)]
               /\ \A j \in 1 .. n : Depth(s.reg[SP], j) \in Writable
                                    => t.mem[Depth(s.reg[SP], j)] = s.reg[rs[j]]
               /\ \A a \in Readable \ Writable : t.mem[a] = s.mem[a]
<1> DEFINE sp == s.reg[SP]
           t == op_push(s, rs)
<1>1. PICK h \in [0 .. n -> Decoded] :
        /\ h[0] = s /\ t = h[n]
        /\ \A k \in 1 .. n : h[k] = push_register(h[k - 1], rs[k])
  <2>1. DOMAIN rs = 1 .. n
    OBVIOUS
  <2>2. PICK h : PushRun(h, s, rs, n)
    BY <2>1, PushTrace
  <2> QED
    BY <2>2 DEF PushRun
<1>2. \A k \in 1 .. n : rs[k] \in Registers /\ rs[k] # SP
  <2>1. \A k \in 1 .. n : rs[k] \in 0 .. RegCount - 1
    OBVIOUS
  <2>2. RegCount \in Nat /\ SP \in Nat
    BY CpuAssumption DEF SP
  <2> HIDE DEF SP
  <2> QED
    BY <2>1, <2>2 DEF Registers
<1>3. ASSUME NEW k \in 1 .. n
      PROVE  LET g == h[k - 1]
                 a == (g.reg[SP] - WORD_SIZE) % Modulus
             IN  /\ h[k].reg = [g.reg EXCEPT ![SP] = a]
                 /\ a \in Writable => h[k].mem = [g.mem EXCEPT ![a] = g.reg[rs[k]]]
                 /\ a \notin Writable => h[k].mem = g.mem
  <2> DEFINE g == h[k - 1]
  <2>1. g \in Decoded /\ rs[k] \in Registers /\ h[k] = push_register(g, rs[k])
    BY <1>1, <1>2
  <2> HIDE DEF g
  <2>2. LET a == (g.reg[SP] - WORD_SIZE) % Modulus
        IN  /\ h[k].reg = [g.reg EXCEPT ![SP] = a]
            /\ a \in Writable => h[k].mem = [g.mem EXCEPT ![a] = g.reg[rs[k]]]
            /\ a \notin Writable => h[k].mem = g.mem
    BY <2>1, PushOne
  <2> QED
    BY <2>2 DEF g
<1> HIDE DEF t
<1>4. sp \in Word /\ s.reg \in [Registers -> Word] /\ SP \in Registers
      /\ \A k \in 0 .. n : h[k].mem \in [Readable -> Word] /\ h[k].reg \in [Registers -> Word]
  BY MachineFields, WordFacts
<1> HIDE DEF sp
<1> DEFINE Pushed(k) == /\ h[k].reg = [s.reg EXCEPT ![SP] = Depth(sp, k)]
                        /\ \A j \in 1 .. k : Depth(sp, j) \in Writable
                                             => h[k].mem[Depth(sp, j)] = s.reg[rs[j]]
                        /\ \A a \in Readable \ Writable : h[k].mem[a] = s.mem[a]
           P == { k \in 0 .. n : Pushed(k) }
<1>5. 0 \in P
  <2>1. Depth(sp, 0) = sp
    BY <1>4, DepthStep
  <2>2. s.reg = [s.reg EXCEPT ![SP] = sp]
    BY <1>4 DEF sp
  <2> QED
    BY <1>1, <2>1, <2>2
<1>6. ASSUME NEW k \in 0 .. n - 1, k \in P PROVE k + 1 \in P
  <2> DEFINE g == h[k]
             t1 == h[k + 1]
             a == Depth(sp, k + 1)
             r == rs[k + 1]
  <2>1. k + 1 \in 1 .. n /\ (k + 1) - 1 = k /\ k \in Nat /\ k \in 0 .. n /\ k + 1 \in 0 .. n
    OBVIOUS
  <2>2. /\ g.reg = [s.reg EXCEPT ![SP] = Depth(sp, k)]
        /\ \A j \in 1 .. k : Depth(sp, j) \in Writable => g.mem[Depth(sp, j)] = s.reg[rs[j]]
        /\ \A b \in Readable \ Writable : g.mem[b] = s.mem[b]
    BY <1>6
  <2>3. g.reg[SP] = Depth(sp, k) /\ g.reg[r] = s.reg[r]
    BY <1>2, <1>4, <2>1, <2>2
  <2>4. (g.reg[SP] - WORD_SIZE) % Modulus = a
    BY <1>4, <2>1, <2>3, DepthStep
  <2>5. /\ t1.reg = [g.reg EXCEPT ![SP] = a]
        /\ a \in Writable => t1.mem = [g.mem EXCEPT ![a] = s.reg[r]]
        /\ a \notin Writable => t1.mem = g.mem
    <3>1. LET b == (h[k].reg[SP] - WORD_SIZE) % Modulus
          IN  /\ h[k + 1].reg = [h[k].reg EXCEPT ![SP] = b]
              /\ b \in Writable => h[k + 1].mem = [h[k].mem EXCEPT ![b] = h[k].reg[rs[k + 1]]]
              /\ b \notin Writable => h[k + 1].mem = h[k].mem
      BY <1>3, <2>1
    <3> QED
      BY <2>3, <2>4, <3>1
  <2>6. g.mem \in [Readable -> Word] /\ Writable \subseteq Readable
    BY <1>4, <2>1, CpuAssumption
  <2>7. ASSUME NEW j \in 1 .. k + 1, Depth(sp, j) \in Writable
        PROVE  t1.mem[Depth(sp, j)] = s.reg[rs[j]]
    <3>1. CASE j = k + 1
      BY <2>5, <2>6, <2>7, <3>1
    <3>2. CASE j # k + 1
      <4>1. j \in 1 .. k /\ j \in 1 .. n
        BY <3>2
      <4>2. Depth(sp, j) # a
        BY <1>4, <2>1, <3>2, <4>1, DepthsApart
      <4>3. g.mem[Depth(sp, j)] = s.reg[rs[j]]
        BY <2>2, <2>7, <4>1
      <4> HIDE DEF a, g, t1
      <4>4. t1.mem[Depth(sp, j)] = g.mem[Depth(sp, j)]
        BY <2>5, <2>6, <2>7, <4>2
      <4> QED
        BY <4>3, <4>4
    <3> QED
      BY <3>1, <3>2
  <2>8. ASSUME NEW b \in Readable \ Writable PROVE t1.mem[b] = s.mem[b]
    <3>1. g.mem[b] = s.mem[b]
      BY <2>2
    <3> HIDE DEF a, g, t1
    <3>2. t1.mem[b] = g.mem[b]
      BY <2>5, <2>6
    <3> QED
      BY <3>1, <3>2
  <2>9. t1.reg = [s.reg EXCEPT ![SP] = a]
    <3> HIDE DEF g, t1, a
    <3> QED
      BY <2>2, <2>5
  <2> QED
    BY <2>1, <2>7, <2>8, <2>9
<1>7. 0 .. n \subseteq P
  <2> HIDE DEF P
  <2> QED
    BY <1>5, <1>6, RangeInduction
<1>8. Pushed(n)
  <2>1. n \in 0 .. n
    OBVIOUS
  <2> QED
    BY <1>7, <2>1
<1> QED
  BY <1>1, <1>8 DEF t, sp

\* What a pop of rs[k] may give register r when the registers rs were pushed from s with
\* the stack pointer at sp: its value, or the word of a ROM that refused the push.
Given(s, sp, n, rs, r, v) ==
    \/ v = s.reg[r]
    \/ \E k \in 1 .. n : /\ rs[k] = r /\ Depth(sp, k) \in Readable \ Writable
                         /\ v = s.mem[Depth(sp, k)]

\* The registers rs of s are stacked in t below sp; back lists them in the order they
\* come off.
Stacked(s, t, sp, n, rs) ==
    /\ t.reg[SP] = Depth(sp, n)
    /\ \A j \in 1 .. n : Depth(sp, j) \in Readable
                         => Given(s, sp, n, rs, rs[j], t.mem[Depth(sp, j)])
    /\ \A r \in 0 .. RegCount - 1 : Given(s, sp, n, rs, r, t.reg[r])

Backwards(back, n, rs) == \A k \in 1 .. n : back[k] = rs[n - k + 1]

LEMMA GeneralApart ==
    ASSUME RegCount <= SP
    PROVE  \A r \in 0 .. RegCount - 1 : r \in Registers /\ r # SP
<1>1. RegCount \in Nat /\ SP \in Nat
  BY CpuAssumption DEF SP
<1> HIDE DEF SP
<1> QED
  BY <1>1 DEF Registers

PopsRun(h, s, rs, n) ==
    /\ h \in [0 .. n -> Decoded] /\ h[0] = s /\ op_pop(s, rs) = h[n]
    /\ \A k \in 1 .. n : Pops(h[k - 1], h[k], rs[k])

\* The machines a POP of general registers goes through.
LEMMA PopChain ==
    ASSUME NEW s \in Decoded, RegCount <= SP, NEW n \in Nat,
           NEW rs \in [1 .. n -> 0 .. RegCount - 1]
    PROVE  \E h : PopsRun(h, s, rs, n)
<1> DEFINE t == op_pop(s, rs)
<1>1. PICK h \in [0 .. n -> Decoded] :
        /\ h[0] = s /\ t = h[n]
        /\ \A k \in 1 .. n : h[k] = pop_register(h[k - 1], rs[k])
  <2>1. DOMAIN rs = 1 .. n
    OBVIOUS
  <2>2. PICK h : PopRun(h, s, rs, n)
    BY <2>1, PopTrace
  <2> QED
    BY <2>2 DEF PopRun
<1>2. \A k \in 1 .. n : rs[k] \in Registers
  BY GeneralApart
<1>3. ASSUME NEW k \in 1 .. n PROVE Pops(h[k - 1], h[k], rs[k])
  <2> DEFINE g == h[k - 1]
  <2>1. g \in Decoded /\ rs[k] \in Registers /\ h[k] = pop_register(g, rs[k])
    BY <1>1, <1>2
  <2> HIDE DEF g
  <2>2. Pops(g, h[k], rs[k])
    BY <2>1, PopOne
  <2> QED
    BY <2>2 DEF g
<1>4. PopsRun(h, s, rs, n)
  BY <1>1, <1>3 DEF t, PopsRun
<1> QED
  BY <1>4

\* The same registers popped in reverse: each takes the word of the stack it was pushed
\* to, and the stack pointer is back at sp, or a read was refused.
LEMMA PopsUp ==
    ASSUME NEW s \in Decoded, NEW t \in Decoded, RegCount <= SP, NEW sp \in Word,
           NEW n \in Nat, NEW rs \in [1 .. n -> 0 .. RegCount - 1], Stacked(s, t, sp, n, rs),
           NEW back \in [1 .. n -> 0 .. RegCount - 1], Backwards(back, n, rs),
           op_pop(t, back).panic = "OK"
    PROVE  LET u == op_pop(t, back)
           IN  /\ u.reg[SP] = sp
               /\ \A r \in 0 .. RegCount - 1 : Given(s, sp, n, rs, r, u.reg[r])
<1> DEFINE u == op_pop(t, back)
           G(r, v) == Given(s, sp, n, rs, r, v)
<1>1. PICK h \in [0 .. n -> Decoded] :
        /\ h[0] = t /\ u = h[n] /\ \A k \in 1 .. n : Pops(h[k - 1], h[k], back[k])
  <2>1. PICK h : PopsRun(h, t, back, n)
    BY PopChain
  <2> QED
    BY <2>1 DEF PopsRun
<1>2. \A r \in 0 .. RegCount - 1 : r \in Registers /\ r # SP
  BY GeneralApart
<1> HIDE DEF u
<1>3. SP \in Registers /\ \A k \in 0 .. n : h[k].reg \in [Registers -> Word]
  BY MachineFields, WordFacts
<1>4. /\ t.reg[SP] = Depth(sp, n)
      /\ \A j \in 1 .. n : Depth(sp, j) \in Readable => G(rs[j], t.mem[Depth(sp, j)])
      /\ \A r \in 0 .. RegCount - 1 : G(r, t.reg[r])
  BY DEF Stacked
<1> HIDE DEF G
<1> DEFINE Stopped(k) == h[k].panic = "CANNOT_READ_MEMORY"
           Came(k) == /\ h[k].mem = t.mem /\ h[k].reg[SP] = Depth(sp, n - k)
                      /\ \A r \in 0 .. RegCount - 1 : G(r, h[k].reg[r])
           P == { k \in 0 .. n : Stopped(k) \/ Came(k) }
<1>5. 0 \in P
  <2>1. n - 0 = n /\ 0 \in 0 .. n
    OBVIOUS
  <2>2. Came(0)
    BY <1>1, <1>4, <2>1
  <2> QED
    BY <2>1, <2>2
<1>6. ASSUME NEW k \in 0 .. n - 1, k \in P PROVE k + 1 \in P
  <2> DEFINE g == h[k]
             t1 == h[k + 1]
             a == Depth(sp, n - k)
             b == Depth(sp, n - (k + 1))
             q == back[k + 1]
  <2>1. /\ k + 1 \in 1 .. n /\ (k + 1) - 1 = k /\ k \in 0 .. n /\ k + 1 \in 0 .. n
        /\ n - k \in 1 .. n /\ n - (k + 1) + 1 = n - k /\ n - (k + 1) \in Nat
    OBVIOUS
  <2>2. Pops(g, t1, q)
    <3>1. Pops(h[(k + 1) - 1], h[k + 1], back[k + 1])
      BY <1>1, <2>1
    <3> QED
      BY <2>1, <3>1
  <2> SUFFICES ASSUME ~ Stopped(k + 1) PROVE Came(k + 1)
    BY <2>1
  <2>3. ~ Stopped(k)
    BY <2>2 DEF Pops
  <2>4. g.mem = t.mem /\ g.reg[SP] = a /\ \A r \in 0 .. RegCount - 1 : G(r, g.reg[r])
    BY <1>6, <2>3
  <2>5. (a + WORD_SIZE) % Modulus = b
    BY <2>1, DepthStep
  <2>6. /\ a \in Readable /\ t1.mem = t.mem
        /\ t1.reg = [[g.reg EXCEPT ![SP] = b] EXCEPT ![q] = t.mem[a]]
    <3> HIDE DEF g, t1, a, b, q
    <3>1. t1.panic # "CANNOT_READ_MEMORY"
      BY DEF t1
    <3> QED
      BY <2>2, <2>4, <2>5, <3>1 DEF Pops
  <2>7. q \in 0 .. RegCount - 1 /\ G(q, t.mem[a])
    <3>1. n - (k + 1) + 1 = n - k
      OBVIOUS
    <3>2. q = rs[n - k]
      BY <2>1, <3>1 DEF Backwards
    <3>3. G(rs[n - k], t.mem[a])
      BY <1>4, <2>1, <2>6
    <3> QED
      BY <2>1, <3>2, <3>3
  <2>8. q \in Registers /\ q # SP /\ g.reg \in [Registers -> Word]
    BY <1>2, <1>3, <2>1, <2>7
  <2> HIDE DEF g, t1, a, b, q
  <2>9. t1.reg[SP] = b
    BY <1>3, <2>6, <2>8
  <2>10. ASSUME NEW r \in 0 .. RegCount - 1 PROVE G(r, t1.reg[r])
    <3>1. r \in Registers /\ r # SP /\ G(r, g.reg[r])
      BY <1>2, <2>4
    <3>2. CASE r = q
      <4>1. t1.reg[r] = t.mem[a]
        BY <2>6, <2>8, <3>2
      <4> QED
        BY <2>7, <3>2, <4>1
    <3>3. CASE r # q
      <4>1. t1.reg[r] = g.reg[r]
        BY <2>6, <2>8, <3>1, <3>3
      <4> QED
        BY <3>1, <4>1
    <3> QED
      BY <3>2, <3>3
  <2> QED
    BY <2>6, <2>9, <2>10 DEF t1, b
<1>7. 0 .. n \subseteq P
  <2> HIDE DEF P
  <2> QED
    BY <1>5, <1>6, RangeInduction
<1>8. n \in 0 .. n /\ n - n = 0
  OBVIOUS
<1>9. Depth(sp, 0) = sp
  BY DepthStep
<1>10. ~ Stopped(n)
  BY <1>1 DEF u
<1>11. Came(n)
  BY <1>7, <1>8, <1>10
<1> QED
  BY <1>1, <1>8, <1>9, <1>11 DEF G, u

LEMMA PushThenPop ==
    ASSUME m \in Decoded, RegCount <= SP,
           NEW n \in Nat, n * WORD_SIZE <= Modulus,
           NEW rs \in [1 .. n -> 0 .. RegCount - 1], Len(rs) = n
    PROVE  Restores(rs, op_push(m, rs), op_pop(op_push(m, rs), Reverse(rs)))
<1> DEFINE t == op_push(m, rs)
           back == Reverse(rs)
           u == op_pop(t, back)
           sp == m.reg[SP]
<1>1. back = [k \in 1 .. n |-> rs[(n - k) + 1]]
  BY DEF Reverse
<1>2. back \in [1 .. n -> 0 .. RegCount - 1] /\ Backwards(back, n, rs)
  BY <1>1 DEF Backwards
<1>3. /\ t \in Decoded /\ t.reg = [m.reg EXCEPT ![SP] = Depth(sp, n)]
      /\ \A j \in 1 .. n : Depth(sp, j) \in Writable => t.mem[Depth(sp, j)] = m.reg[rs[j]]
      /\ \A a \in Readable \ Writable : t.mem[a] = m.mem[a]
  BY PushesDown
<1>4. m.reg \in [Registers -> Word] /\ SP \in Registers /\ sp \in Word
  BY MachineFields, WordFacts
<1>5. \A r \in 0 .. RegCount - 1 : r \in Registers /\ r # SP
  BY GeneralApart
<1>6. SUFFICES ASSUME u.panic = "OK"
               PROVE  /\ u.reg[SP] = sp
                      /\ \A r \in 0 .. RegCount - 1 : Given(m, sp, n, rs, r, u.reg[r])
  <2>1. DOMAIN rs = 1 .. n
    OBVIOUS
  <2> HIDE DEF t, back, u
  <2>2. Restores(rs, t, u)
    BY <2>1 DEF Restores, Given, Depth, sp
  <2> QED
    BY <2>2 DEF t, back, u
<1> HIDE DEF back, t, sp
<1>7. t.reg[SP] = Depth(sp, n) /\ \A r \in 0 .. RegCount - 1 : t.reg[r] = m.reg[r]
  BY <1>3, <1>4, <1>5
<1>8. Stacked(m, t, sp, n, rs)
  <2>1. \A r \in 0 .. RegCount - 1 : Given(m, sp, n, rs, r, t.reg[r])
    BY <1>7 DEF Given
  <2>2. ASSUME NEW j \in 1 .. n, Depth(sp, j) \in Readable
        PROVE  Given(m, sp, n, rs, rs[j], t.mem[Depth(sp, j)])
    <3>1. CASE Depth(sp, j) \in Writable
      BY <1>3, <3>1 DEF Given
    <3>2. CASE Depth(sp, j) \notin Writable
      <4>1. t.mem[Depth(sp, j)] = m.mem[Depth(sp, j)]
        BY <1>3, <2>2, <3>2
      <4> QED
        BY <2>2, <3>2, <4>1 DEF Given
    <3> QED
      BY <3>1, <3>2
  <2> QED
    BY <1>7, <2>1, <2>2 DEF Stacked
<1>9. t \in Decoded /\ sp \in Word
  BY <1>3, <1>4
<1>10. op_pop(t, back).panic = "OK"
  BY <1>6 DEF u
<1> HIDE DEF u
<1>11. /\ op_pop(t, back).reg[SP] = sp
       /\ \A r \in 0 .. RegCount - 1 : Given(m, sp, n, rs, r, op_pop(t, back).reg[r])
  BY <1>2, <1>8, <1>9, <1>10, PopsUp
<1> QED
  BY <1>11 DEF u

LEMMA RoundTripsInv ==
    ASSUME RegCount <= SP, RegCount * WORD_SIZE <= Modulus, 3 * WORD_SIZE <= Modulus
    PROVE  CpuInv => StackRoundTrips
<1> DEFINE Run(x, op) == ops(x, [Nop EXCEPT !.op = op])
           Back(rs) == LET x == op_push(m, rs) IN Restores(rs, x, op_pop(x, Reverse(rs)))
<1> SUFFICES ASSUME CpuInv, Looping
             PROVE  /\ LET x == Run(m, "PUSHA") IN Restores(General, x, Run(x, "POPA"))
                    /\ \A r0, r1 \in 0 .. RegCount - 1 :
                         Back(<<r0, r1>>) /\ Back(<<r0, r1, r0>>)
  BY DEF StackRoundTrips
<1>1. m \in Decoded
  BY LoopingDecoded
<1>2. \A x : Run(x, "PUSHA") = op_push(x, General)
             /\ Run(x, "POPA") = op_pop(x, Reverse(General))
  BY DEF ops, Nop, Arithmetic
<1>3. Back(General)
  <2>1. RegCount \in Nat /\ General \in [1 .. RegCount -> 0 .. RegCount - 1]
    BY CpuAssumption DEF General
  <2>2. Len(General) = RegCount
    BY <2>1
  <2> QED
    BY <1>1, <2>1, <2>2, PushThenPop
<1>4. ASSUME NEW r0 \in 0 .. RegCount - 1, NEW r1 \in 0 .. RegCount - 1
      PROVE  Back(<<r0, r1>>) /\ Back(<<r0, r1, r0>>)
  <2>1. WORD_SIZE \in Nat /\ Modulus \in Nat
    BY WordFacts
  <2>2. 2 * WORD_SIZE <= Modulus
    BY <2>1
  <2>3. <<r0, r1>> \in [1 .. 2 -> 0 .. RegCount - 1] /\ Len(<<r0, r1>>) = 2
    OBVIOUS
  <2>4. <<r0, r1, r0>> \in [1 .. 3 -> 0 .. RegCount - 1] /\ Len(<<r0, r1, r0>>) = 3
    OBVIOUS
  <2>5. ASSUME NEW n \in {2, 3}, NEW rs \in [1 .. n -> 0 .. RegCount - 1], Len(rs) = n
        PROVE  Back(rs)
    <3>1. n \in Nat /\ n * WORD_SIZE <= Modulus
      BY <2>2
    <3> QED
      BY <1>1, <2>5, <3>1, PushThenPop
  <2> HIDE DEF Back
  <2> QED
    BY <2>3, <2>4, <2>5
<1> QED
  BY <1>2, <1>3, <1>4

\* PUSHA then POPA, and the push of two or three general registers then their pop in
\* reverse, give back the stack pointer and every general register, from any state and
\* wherever the stack wraps around, or leave the CPU in panic; except that a register the
\* ROM refused, whose panic a later register clears, is given the ROM's word (ops.c:114-125,
\* 159-165).  The special registers must not be among those --registers allocates, and the
\* stack of a PUSHA must not be longer than the memory.
THEOREM StackRoundTripsHolds ==
    ASSUME RegCount <= SP, RegCount * WORD_SIZE <= Modulus, 3 * WORD_SIZE <= Modulus
    PROVE  Spec => []StackRoundTrips
BY RoundTripsInv, CpuInvariant, PTL
=============================================================================
