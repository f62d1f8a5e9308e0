------------------------------ MODULE BusProof ------------------------------
(***************************************************************************)
(* Proofs about Bus.tla, for every size of address space and word and      *)
(* every layout of memories that LayoutAssumption allows.                  *)
(***************************************************************************)
EXTENDS Bus, FoldProof

\* Under the layout's assumptions the last address of a zone does not wrap.
LEMMA LayoutFacts ==
    ASSUME NEW m \in Memory
    PROVE  /\ memory_size_get(m) \in Nat \ {0}
           /\ From[m] \in Nat /\ From[m] < Space
           /\ memory_max_address(m, From[m]) = From[m] + memory_size_get(m) - 1
<1> DEFINE s == memory_size_get(m)
<1>1. s \in Nat \ {0} /\ From[m] + s <= Space /\ From[m] \in Address
  BY LayoutAssumption
<1>2. From[m] \in Nat /\ From[m] < Space /\ Space \in Nat
  BY <1>1, ArchAssumption DEF Address
<1> HIDE DEF s
<1>3. s + From[m] - 1 \in 0 .. Space - 1
  BY <1>1, <1>2
<1>4. (s + From[m] - 1) % Space = s + From[m] - 1
  BY <1>2, <1>3
<1>5. QED
  BY <1>1, <1>2, <1>4 DEF memory_max_address, s

\* A word whose offset is aligned and below an aligned size fits.
LEMMA WordFits ==
    ASSUME NEW s \in Nat, NEW o \in Nat, s % WORD_SIZE = 0, o % WORD_SIZE = 0,
           o < s, s <= Space
    PROVE  (o + WORD_SIZE) % Space <= s
<1> WORD_SIZE \in Nat \ {0} /\ Space \in Nat \ {0}
  BY ArchAssumption
<1>a. ASSUME NEW n \in Nat, n % WORD_SIZE = 0
      PROVE  \E q \in Int : n = WORD_SIZE * q
  <2>1. n = (WORD_SIZE * (n \div WORD_SIZE)) + (n % WORD_SIZE)
    OBVIOUS
  <2>2. n \div WORD_SIZE \in Int
    OBVIOUS
  <2>3. n = WORD_SIZE * (n \div WORD_SIZE)
    BY <1>a, <2>1, <2>2
  <2>4. QED
    BY <2>2, <2>3
<1>1. PICK p \in Int : s = WORD_SIZE * p
  BY <1>a
<1>2. PICK q \in Int : o = WORD_SIZE * q
  BY <1>a
<1>3. q + 1 <= p
  <2>1. CASE p <= q
    <3>1. WORD_SIZE * p <= WORD_SIZE * q
      BY <2>1
    <3>2. QED
      BY <1>1, <1>2, <3>1
  <2>2. QED
    BY <2>1
<1>4. WORD_SIZE * (q + 1) <= WORD_SIZE * p
  BY <1>3
<1>5. o + WORD_SIZE <= s
  BY <1>1, <1>2, <1>4
<1>6. CASE o + WORD_SIZE = Space
  BY <1>6
<1>7. CASE o + WORD_SIZE < Space
  BY <1>5, <1>7
<1>8. QED
  BY <1>5, <1>6, <1>7

\* What find_zone answers.
LEMMA FindZone ==
    ASSUME zones \in Seq(Zone), NEW a \in Address
    PROVE  \/ /\ find_zone(a) = 0
              /\ \A i \in 1 .. Len(zones) : ~ in_zone(zones[i], a)
           \/ /\ find_zone(a) \in 1 .. Len(zones)
              /\ in_zone(zones[find_zone(a)], a)
<1> DEFINE holds == { i \in 1 .. Len(zones) : in_zone(zones[i], a) }
<1>1. holds \in SUBSET Nat
  OBVIOUS
<1>2. CASE holds = {}
  BY <1>2 DEF find_zone
<1>3. CASE holds # {}
  <2>1. \E i \in holds : \A j \in holds : i <= j
    BY <1>1, <1>3, LeastElement
  <2>2. find_zone(a) = CHOOSE i \in holds : \A j \in holds : i <= j
    BY <1>3 DEF find_zone
  <2>3. find_zone(a) \in holds
    BY <2>1, <2>2
  <2>4. QED
    BY <2>3
<1>4. QED
  BY <1>2, <1>3

\* In a zone that stands where the layout puts it, the translated address is
\* an offset of the memory, and an aligned one never is out of bounds.
LEMMA NeverOutOfBound ==
    ASSUME zones \in Seq(Zone), Placed, NEW a \in Address,
           NEW i \in 1 .. Len(zones), in_zone(zones[i], a)
    PROVE  LET m == zones[i].memory
               o == translate(zones[i], a)
           IN  /\ m \in Memory
               /\ o \in 0 .. memory_size_get(m) - 1
               /\ GetError(m, o) # "OUT_OF_BOUND"
               /\ GetError(m, o) = "OK" => o \in Offsets(m)
<1> DEFINE m == zones[i].memory
           o == translate(zones[i], a)
           s == memory_size_get(m)
<1>1. zones[i] \in Zone
  OBVIOUS
<1>2. m \in Memory /\ zones[i].from = From[m]
  BY <1>1 DEF Zone, Placed
<1>3. s \in Nat \ {0} /\ From[m] \in Nat /\ From[m] < Space
  BY <1>2, LayoutFacts
<1>4. From[m] <= a /\ a <= From[m] + s - 1 /\ a \in Nat /\ a < Space /\ Space \in Nat
  BY <1>2, LayoutFacts, ArchAssumption DEF in_zone, Address
<1>5. o = a - From[m]
  <2>1. a - From[m] \in 0 .. Space - 1
    BY <1>3, <1>4
  <2>2. (a - From[m]) % Space = a - From[m]
    BY <1>4, <2>1
  <2>3. QED
    BY <1>2, <2>2 DEF translate
<1>6. o \in 0 .. s - 1
  BY <1>3, <1>4, <1>5
<1>7. s % WORD_SIZE = 0 /\ s <= Space
  <2>1. s % WORD_SIZE = 0 /\ From[m] + s <= Space
    BY <1>2, LayoutAssumption
  <2>2. QED
    BY <1>3, <1>4, <2>1
<1> HIDE DEF m, o, s
<1>8. o % WORD_SIZE = 0 => (o + WORD_SIZE) % Space <= s
  <2> o \in Nat /\ o < s /\ s \in Nat
    BY <1>3, <1>6
  <2>1. QED
    BY <1>7, WordFits
<1>9. o % WORD_SIZE = 0 => ~ ((o + WORD_SIZE) % Space > s)
  <2>1. WORD_SIZE \in Nat /\ Space \in Nat \ {0}
    BY ArchAssumption
  <2>2. o \in Nat
    BY <1>6
  <2>3. (o + WORD_SIZE) % Space \in Nat /\ s \in Nat
    BY <1>3, <2>1, <2>2
  <2>4. QED
    BY <1>8, <2>3
<1>10. QED
  BY <1>2, <1>6, <1>9 DEF GetError, Offsets, m, o, s

(***************************************************************************)
(* Attaching.                                                              *)
(***************************************************************************)
\* Where a new zone goes: below every zone that ends above its address.
LEMMA Insertion ==
    ASSUME zones \in Seq(Zone), Placed, NEW from \in Address
    PROVE  /\ insertion(from) \in 1 .. Len(zones) + 1
           /\ \A i \in 1 .. insertion(from) - 1 :
                 ~ (from < memory_max_address(zones[i].memory, zones[i].from))
           /\ insertion(from) <= Len(zones) =>
                 from < memory_max_address(zones[insertion(from)].memory,
                                           zones[insertion(from)].from)
<1> DEFINE above == { i \in 1 .. Len(zones) :
                        from < memory_max_address(zones[i].memory, zones[i].from) }
<1>1. above \in SUBSET Nat /\ Len(zones) \in Nat
  OBVIOUS
<1>2. CASE above = {}
  <2>1. insertion(from) = Len(zones) + 1
    BY <1>2 DEF insertion
  <2>2. QED
    BY <1>1, <1>2, <2>1
<1>3. CASE above # {}
  <2>1. \E i \in above : \A j \in above : i <= j
    BY <1>1, <1>3, LeastElement
  <2>2. insertion(from) = CHOOSE i \in above : \A j \in above : i <= j
    BY <1>3 DEF insertion
  <2>3. insertion(from) \in above /\ \A j \in above : insertion(from) <= j
    BY <2>1, <2>2
  <2>4. \A j \in 1 .. insertion(from) - 1 : j \notin above
    BY <1>1, <2>3
  <2>5. QED
    BY <1>1, <2>3, <2>4
<1>4. QED
  BY <1>2, <1>3

\* Putting a zone whose first address is free at that place keeps the zones
\* in order and apart.
LEMMA InsertionSorted ==
    ASSUME zones \in Seq(Zone), Placed, ZonesSorted, NEW m \in Memory,
           \A i \in 1 .. Len(zones) : ~ in_zone(zones[i], From[m]),
           NEW zone \in Zone, zone.memory = m, zone.from = From[m],
           zones' = inserted(insertion(From[m]), zone)
    PROVE  zones' \in Seq(Zone) /\ Placed' /\ ZonesSorted'
<1> DEFINE pos == insertion(From[m])
           n == Len(zones)
           End(z) == z.from + memory_size_get(z.memory)
<1>1. /\ n \in Nat /\ pos \in 1 .. n + 1
      /\ From[m] \in Address
  BY Insertion, LayoutAssumption
<1>2. /\ zones' = [k \in 1 .. n + 1 |-> IF k < pos THEN zones[k]
                                      ELSE IF k = pos THEN zone ELSE zones[k - 1]]
      /\ \A k \in 1 .. n : zones[k] \in Zone
  BY DEF inserted
<1>3. zones' \in Seq(Zone) /\ Len(zones') = n + 1
  <2>1. \A k \in 1 .. n + 1 : zones'[k] \in Zone
    BY <1>1, <1>2
  <2>2. zones' \in [1 .. n + 1 -> Zone]
    BY <1>2, <2>1
  <2>3. QED
    BY <1>1, <2>2
<1>4. Placed'
  <2>1. \A k \in 1 .. n + 1 : zones'[k].from = From[zones'[k].memory]
    BY <1>1, <1>2 DEF Placed
  <2>2. QED
    BY <1>3, <2>1 DEF Placed
\* Every zone has the place and the size of its memory.
<1>5. \A k \in 1 .. n :
         /\ zones[k].memory \in Memory
         /\ zones[k].from = From[zones[k].memory]
         /\ zones[k].from \in Nat /\ From[m] \in Nat
         /\ memory_size_get(zones[k].memory) \in Nat \ {0}
         /\ memory_size_get(m) \in Nat \ {0}
         /\ memory_max_address(zones[k].memory, zones[k].from) = End(zones[k]) - 1
  <2> TAKE k \in 1 .. n
  <2>1. zones[k].memory \in Memory /\ zones[k].from = From[zones[k].memory]
    BY <1>2 DEF Placed, Zone
  <2>2. /\ memory_size_get(zones[k].memory) \in Nat \ {0}
        /\ zones[k].from \in Nat
        /\ memory_max_address(zones[k].memory, zones[k].from) = End(zones[k]) - 1
    BY <2>1, LayoutFacts
  <2>3. memory_size_get(m) \in Nat \ {0} /\ From[m] \in Nat
    BY LayoutFacts
  <2>4. QED
    BY <2>1, <2>2, <2>3
\* The zones on its left end below it ...
<1>6. ASSUME NEW k \in 1 .. pos - 1 PROVE End(zones[k]) <= From[m]
  <2>1. k \in 1 .. n /\ ~ (From[m] < End(zones[k]) - 1)
    BY <1>1, <1>5, Insertion
  <2>2. zones[k].from <= From[m]
    BY <1>5, <2>1
  <2>3. ~ (End(zones[k]) - 1 >= From[m])
    BY <1>5, <2>1, <2>2 DEF in_zone
  <2>4. QED
    BY <1>5, <2>1, <2>3
\* ... and those on its right start above it.
<1>7. ASSUME NEW k \in pos .. n PROVE From[m] + memory_size_get(m) <= zones[k].from
  <2>1. pos \in 1 .. n /\ k \in 1 .. n
    BY <1>1
  <2>2. From[m] < End(zones[pos]) - 1
    BY <1>1, <1>5, <2>1, Insertion
  <2>3. ~ (zones[pos].from <= From[m])
    BY <1>5, <2>1, <2>2 DEF in_zone
  <2>4. zones[pos].memory # m
    <3>1. zones[pos].from = From[zones[pos].memory] /\ From[m] \in Nat
      BY <1>5, <2>1
    <3> QED
      BY <2>3, <3>1
  <2>5. From[m] + memory_size_get(m) <= zones[pos].from
    <3>1. \/ From[m] + memory_size_get(m) <= zones[pos].from
          \/ End(zones[pos]) <= From[m]
      BY <1>5, <2>1, <2>4, LayoutAssumption
    <3>2. QED
      <4>1. /\ zones[pos].from \in Nat /\ From[m] \in Nat
            /\ memory_size_get(zones[pos].memory) \in Nat
        BY <1>5, <2>1
      <4>2. ~ (End(zones[pos]) <= From[m])
        BY <2>3, <4>1
      <4> QED
        BY <3>1, <4>2
  <2>6. CASE k = pos
    BY <2>5, <2>6
  <2>7. CASE pos < k
    <3>1. End(zones[pos]) <= zones[k].from
      BY <2>1, <2>7 DEF ZonesSorted
    <3>2. /\ zones[pos].from \in Nat
          /\ memory_size_get(zones[pos].memory) \in Nat \ {0}
          /\ From[m] \in Nat /\ memory_size_get(m) \in Nat \ {0}
      BY <1>5, <2>1
    <3>3. zones[k].from \in Nat
      BY <1>5, <2>1
    <3>4. QED
      BY <2>5, <3>1, <3>2, <3>3
  <2>8. QED
    BY <1>1, <2>1, <2>6, <2>7
<1>8. ZonesSorted'
  <2>1. SUFFICES ASSUME NEW i \in 1 .. n + 1, NEW j \in 1 .. n + 1, i < j
                 PROVE  End(zones'[i]) <= zones'[j].from
    BY <1>3 DEF ZonesSorted, memory_size_get, ROUND_UP
  <2>2. CASE j < pos
    BY <1>1, <1>2, <2>1, <2>2 DEF ZonesSorted
  <2>3. CASE j = pos
    BY <1>1, <1>2, <1>6, <2>1, <2>3
  <2>4. CASE i = pos
    <3>1. j - 1 \in pos .. n /\ zones'[j] = zones[j - 1] /\ zones'[i] = zone
      BY <1>1, <1>2, <2>1, <2>4
    <3>2. QED
      BY <1>7, <3>1
  <2>5. CASE i < pos /\ pos < j
    <3>1. zones'[j] = zones[j - 1] /\ zones'[i] = zones[i]
      BY <1>1, <1>2, <2>1, <2>5
    <3>2. i \in 1 .. pos - 1 /\ i \in 1 .. n /\ j - 1 \in pos .. n /\ j - 1 \in 1 .. n
      BY <1>1, <2>1, <2>5
    <3>3. End(zones[i]) <= From[m]
      BY <1>6, <3>2
    <3>4. From[m] + memory_size_get(m) <= zones[j - 1].from
      BY <1>7, <3>2
    <3>5. /\ End(zones[i]) \in Nat /\ From[m] \in Nat
          /\ memory_size_get(m) \in Nat /\ zones[j - 1].from \in Nat
      <4>1. /\ zones[i].from \in Nat /\ memory_size_get(zones[i].memory) \in Nat
            /\ From[m] \in Nat /\ memory_size_get(m) \in Nat
        BY <1>5, <3>2
      <4>2. zones[j - 1].from \in Nat
        BY <1>5, <3>2
      <4> QED
        BY <4>1, <4>2
    <3>6. End(zones[i]) <= zones[j - 1].from
      BY <3>3, <3>4, <3>5
    <3>7. QED
      BY <3>1, <3>6
  <2>6. CASE pos < i
    <3>1. /\ i - 1 \in 1 .. n /\ j - 1 \in 1 .. n /\ i - 1 < j - 1
          /\ zones'[i] = zones[i - 1] /\ zones'[j] = zones[j - 1]
      BY <1>1, <1>2, <2>1, <2>6
    <3>2. QED
      BY <3>1 DEF ZonesSorted
  <2>7. QED
    BY <1>1, <2>1, <2>2, <2>3, <2>4, <2>5, <2>6
<1>9. QED
  BY <1>3, <1>4, <1>8

(***************************************************************************)
(* The invariant.                                                          *)
(***************************************************************************)
LEMMA BusInit == Init => BusInv
<1> SUFFICES ASSUME Init PROVE BusInv
  OBVIOUS
<1>1. zones = << >> /\ zones \in Seq(Zone) /\ Len(zones) = 0
  BY DEF Init
<1>2. TypeOK
  BY <1>1 DEF Init, memory_create, Report, TypeOK, Errors
<1>3. QED
  BY <1>1, <1>2 DEF Init, BusInv, Placed, ZonesSorted, NoAbort

LEMMA BusNext == BusInv /\ [Next]_vars => BusInv'
<1> SUFFICES ASSUME BusInv, [Next]_vars PROVE BusInv'
  OBVIOUS
<1>t. TypeOK /\ Placed /\ ZonesSorted /\ NoAbort /\ zones \in Seq(Zone)
  BY DEF BusInv, TypeOK
\* What does not change the zones keeps their order.
<1>z. ASSUME UNCHANGED zones PROVE Placed' /\ ZonesSorted'
  BY <1>t, <1>z DEF Placed, ZonesSorted, memory_size_get, ROUND_UP
\* An offset that memory.c accepts is a word of the memory.
<1>a. ASSUME NEW a \in Address, find_zone(a) # 0
      PROVE  LET m == zones[find_zone(a)].memory
                 o == translate(zones[find_zone(a)], a)
             IN  /\ m \in Memory
                 /\ GetError(m, o) # "OUT_OF_BOUND"
                 /\ GetError(m, o) = "OK" => o \in Offsets(m)
  <2>1. find_zone(a) \in 1 .. Len(zones) /\ in_zone(zones[find_zone(a)], a)
    BY <1>t, <1>a, FindZone
  <2>2. QED
    BY <1>t, <2>1, NeverOutOfBound
<1>1. ASSUME NEW m \in Memory, bus_memory_attach(m) PROVE BusInv'
  <2> DEFINE zone == [memory |-> m, from |-> From[m], notification |-> {}]
  <2>1. UNCHANGED <<raw, mode, aborted, registered>> /\ signalled' = {}
    BY <1>1 DEF bus_memory_attach
  <2>2. answer'.err \in Errors
    BY <1>1 DEF bus_memory_attach, Report, Errors
  <2>3. zone \in Zone /\ zone.memory = m /\ zone.from = From[m]
    BY LayoutAssumption DEF Zone
  <2>4. zones' \in Seq(Zone) /\ Placed' /\ ZonesSorted'
    <3>1. CASE UNCHANGED zones
      BY <1>t, <1>z, <3>1
    <3>2. CASE /\ \A i \in 1 .. Len(zones) : ~ in_zone(zones[i], From[m])
               /\ zones' = inserted(insertion(From[m]), zone)
      <4> HIDE DEF zone
      <4>1. QED
        BY <1>t, <2>3, <3>2, InsertionSorted
    <3>3. QED
      BY <1>1, <3>1, <3>2 DEF bus_memory_attach
  <2>5. QED
    BY <1>t, <2>1, <2>2, <2>4 DEF BusInv, TypeOK, NoAbort
<1>2. ASSUME NEW a \in Address, bus_word_read(a) PROVE BusInv'
  <2>1. /\ UNCHANGED <<raw, mode, zones, registered>> /\ signalled' = {}
        /\ answer'.err \in Errors /\ aborted' = FALSE
    <3>1. CASE find_zone(a) = 0
      BY <1>2, <3>1 DEF bus_word_read, bus_error, Answer, Errors
    <3>2. CASE find_zone(a) # 0
      BY <1>2, <1>a, <3>2 DEF bus_word_read, bus_error, Answer, Errors, GetError
    <3>3. QED
      BY <3>1, <3>2
  <2>2. QED
    BY <1>t, <1>z, <2>1 DEF BusInv, TypeOK, NoAbort
<1>3. ASSUME NEW a \in Address, NEW v \in Value, bus_word_write(a, v) PROVE BusInv'
  <2> DEFINE z == zones[find_zone(a)]
             o == translate(z, a)
  <2>1. UNCHANGED <<mode, zones, registered>>
    BY <1>3 DEF bus_word_write
  <2>2. CASE find_zone(a) = 0
    <3>1. /\ UNCHANGED raw /\ signalled' = {} /\ aborted' = FALSE
          /\ answer'.err \in Errors
      BY <1>3, <2>2 DEF bus_word_write, bus_error, Answer, Errors
    <3>2. QED
      BY <1>t, <1>z, <2>1, <3>1 DEF BusInv, TypeOK, NoAbort
  <2>3. CASE find_zone(a) # 0
    <3>1. /\ z.memory \in Memory
          /\ SetError(z.memory, o) # "OUT_OF_BOUND"
          /\ SetError(z.memory, o) = "OK" => o \in Offsets(z.memory)
      BY <1>a, <2>3 DEF SetError
    <3>2. aborted' = FALSE /\ answer'.err \in Errors
      BY <1>3, <2>3, <3>1
         DEF bus_word_write, bus_error, Answer, Errors, SetError, GetError
    <3>3. /\ raw' = [m \in Memory |-> raw'[m]]
          /\ \A m \in Memory : raw'[m] \in [Offsets(m) -> Value]
      <4>1. \/ raw' = raw
            \/ /\ raw' = [raw EXCEPT ![z.memory][o] = v]
               /\ o \in Offsets(z.memory)
        BY <1>3, <2>3, <3>1 DEF bus_word_write
      <4>2. /\ raw[z.memory] \in [Offsets(z.memory) -> Value]
            /\ DOMAIN raw = Memory
        BY <1>t, <3>1 DEF TypeOK
      <4> HIDE DEF z, o
      <4>3. \A m \in Memory : m # z.memory => raw'[m] = raw[m]
        BY <4>1, <4>2
      <4>4. \/ raw' = raw
            \/ raw'[z.memory] = [raw[z.memory] EXCEPT ![o] = v]
        BY <3>1, <4>1, <4>2
      <4>5. raw'[z.memory] \in [Offsets(z.memory) -> Value]
        BY <4>2, <4>4
      <4>6. DOMAIN raw' = Memory /\ raw' = [m \in Memory |-> raw'[m]]
        BY <1>t, <4>1 DEF TypeOK
      <4>7. \A m \in Memory : raw'[m] \in [Offsets(m) -> Value]
        BY <1>t, <4>3, <4>5 DEF TypeOK
      <4>8. QED
        BY <4>6, <4>7
    <3>4. signalled' \in SUBSET Cond
      <4>1. find_zone(a) \in 1 .. Len(zones)
        BY <1>t, <2>3, FindZone
      <4>2. z.notification \in SUBSET (Address \X Cond)
        <5>1. z \in Zone
          BY <1>t, <4>1
        <5>2. QED
          BY <5>1 DEF Zone
      <4>3. notified(z, a) \in SUBSET Cond
        BY <4>2 DEF notified
      <4>4. signalled' = {} \/ signalled' = notified(z, a)
        BY <1>3 DEF bus_word_write
      <4>5. QED
        BY <4>3, <4>4
    <3>5. QED
      <4>1. raw' \in [Memory -> UNION { [Offsets(m) -> Value] : m \in Memory }]
        <5>1. \A m \in Memory : raw'[m] \in UNION { [Offsets(n) -> Value] : n \in Memory }
          BY <3>3
        <5> QED
          BY <3>3, <5>1
      <4>2. TypeOK'
        BY <1>t, <2>1, <3>2, <3>3, <3>4, <4>1 DEF TypeOK
      <4> QED
        BY <1>z, <2>1, <3>2, <4>2 DEF BusInv, NoAbort
  <2>4. QED
    BY <2>2, <2>3
<1>4. ASSUME NEW m \in Memory, NEW c \in Cond, bus_notification_register(m, c)
      PROVE  BusInv'
  <2> DEFINE z == find_zone(From[m])
  <2>1. From[m] \in Address
    BY LayoutAssumption
  \* The device finds a zone: its own memory's zone holds its first address.
  <2>2. z \in 1 .. Len(zones)
    <3>1. PICK i \in 1 .. Len(zones) : zones[i].memory = m
      BY <1>4 DEF bus_notification_register, Attached
    <3>2. zones[i].from = From[m]
      BY <1>t, <3>1 DEF Placed
    <3>3. in_zone(zones[i], From[m])
      BY <3>1, <3>2, LayoutFacts DEF in_zone
    <3>4. QED
      BY <1>t, <2>1, <3>3, FindZone
  <2>3. /\ UNCHANGED <<raw, mode, answer>> /\ signalled' = {} /\ aborted' = FALSE
        /\ zones' = [zones EXCEPT ![z].notification = @ \cup {<<From[m], c>>}]
        /\ registered' = registered \cup {<<From[m], c>>}
    <3>1. z # 0
      BY <1>t, <2>2
    <3>2. QED
      BY <1>4, <3>1 DEF bus_notification_register
  <2>4. zones[z] \in Zone
    BY <1>t, <2>2
  <2>5. [zones[z] EXCEPT !.notification = @ \cup {<<From[m], c>>}] \in Zone
    BY <2>1, <2>4 DEF Zone
  <2>6. zones' \in Seq(Zone) /\ Len(zones') = Len(zones)
    BY <1>t, <2>2, <2>3, <2>5
  <2>7. \A i \in 1 .. Len(zones) : /\ zones'[i].memory = zones[i].memory
                                   /\ zones'[i].from = zones[i].from
    BY <1>t, <2>2, <2>3, <2>4 DEF Zone
  <2>8. Placed' /\ ZonesSorted'
    BY <1>t, <2>6, <2>7 DEF Placed, ZonesSorted, memory_size_get, ROUND_UP
  <2>9. registered' \in SUBSET (Address \X Cond)
    BY <1>t, <2>1, <2>3 DEF TypeOK
  <2>10. QED
    BY <1>t, <2>3, <2>6, <2>8, <2>9 DEF BusInv, TypeOK, NoAbort
<1>5. ASSUME NEW new \in {"R", "RW"}, memory_mode_set(new) PROVE BusInv'
  <2>1. /\ UNCHANGED <<raw, zones, aborted, registered>> /\ signalled' = {}
        /\ answer'.err \in Errors
        /\ mode' = [mode EXCEPT ![Rom] = new]
    BY <1>5 DEF memory_mode_set, Report, Errors
  <2>2. mode' \in [Memory -> {"R", "RW"}]
    BY <1>t, <2>1 DEF TypeOK
  <2>3. QED
    BY <1>t, <1>z, <2>1, <2>2 DEF BusInv, TypeOK, NoAbort
<1>6. ASSUME NEW d \in Dumps, bus_dump(d[1], d[2]) PROVE BusInv'
  <2>1. ASSUME NEW a \in Address PROVE word_error(a) # "OUT_OF_BOUND"
    BY <1>a DEF word_error
  <2>2. \A a \in reached(d[1], d[2]) : a \in Address
    BY DEF reached
  <2>3. aborted' = FALSE
    BY <1>6, <2>1, <2>2 DEF bus_dump
  <2>4. answer'.err \in Errors
    BY <1>6 DEF bus_dump, Report, Errors
  <2>5. UNCHANGED <<raw, mode, zones, registered>> /\ signalled' = {}
    BY <1>6 DEF bus_dump
  <2>6. QED
    BY <1>t, <1>z, <2>3, <2>4, <2>5 DEF BusInv, TypeOK, NoAbort
<1>7. CASE UNCHANGED vars
  BY <1>t, <1>z, <1>7 DEF vars, BusInv, TypeOK, NoAbort
<1>8. QED
  BY <1>1, <1>2, <1>3, <1>4, <1>5, <1>6, <1>7 DEF Next

\* The state of the bus and of the memories keeps its type.
THEOREM BusTypeCorrect == Spec => []TypeOK
BY BusInit, BusNext, PTL DEF Spec, BusInv

\* No read, write or registration ever reaches an abort() of bus.c.
THEOREM NeverAborts == Spec => []NoAbort
BY BusInit, BusNext, PTL DEF Spec, BusInv

\* In whatever order the memories are attached, the zones stand in the order
\* of their addresses and do not overlap.
THEOREM ZonesStaySorted == Spec => []ZonesSorted
BY BusInit, BusNext, PTL DEF Spec, BusInv

----------------------------------------------------------------------------
(***************************************************************************)
(* What the bus promises to the CPU and to the devices' threads: it is one *)
(* flat memory (module FlatMemory), and a write wakes those that           *)
(* registered for its address.                                             *)
(***************************************************************************)
(***************************************************************************)
(* Where an address is.                                                    *)
(***************************************************************************)
\* A memory holds the addresses from its own to its last.
Within(m, a) == From[m] <= a /\ a < From[m] + memory_size_get(m)

\* The layout gives an address to one memory.
LEMMA OneMemory ==
    ASSUME NEW m \in Memory, NEW n \in Memory, NEW a \in Int, Within(m, a), Within(n, a)
    PROVE  m = n
<1>1. /\ From[m] \in Nat /\ memory_size_get(m) \in Nat
      /\ From[n] \in Nat /\ memory_size_get(n) \in Nat
  BY LayoutFacts
<1>2. CASE m # n
  <2>1. \/ From[m] + memory_size_get(m) <= From[n]
        \/ From[n] + memory_size_get(n) <= From[m]
    BY <1>2, LayoutAssumption
  <2> QED
    BY <1>1, <2>1 DEF Within
<1> QED
  BY <1>2

\* A zone that stands where the layout puts it holds the addresses of its memory, and
\* translates each to its distance from the first.
LEMMA ZoneOfMemory ==
    ASSUME zones \in Seq(Zone), Placed, NEW a \in Address, NEW i \in 1 .. Len(zones)
    PROVE  /\ zones[i].memory \in Memory
           /\ zones[i].from = From[zones[i].memory]
           /\ in_zone(zones[i], a) <=> Within(zones[i].memory, a)
           /\ in_zone(zones[i], a) => translate(zones[i], a) = a - From[zones[i].memory]
<1> DEFINE m == zones[i].memory
<1>1. zones[i] \in Zone
  OBVIOUS
<1>2. m \in Memory /\ zones[i].from = From[m]
  BY <1>1 DEF Zone, Placed
<1>3. /\ memory_size_get(m) \in Nat \ {0} /\ From[m] \in Nat /\ From[m] < Space
      /\ memory_max_address(m, From[m]) = From[m] + memory_size_get(m) - 1
  BY <1>2, LayoutFacts
<1>4. a \in Nat /\ a < Space /\ Space \in Nat \ {0}
  BY ArchAssumption DEF Address
<1> HIDE DEF m
<1>5. in_zone(zones[i], a) <=> Within(m, a)
  BY <1>2, <1>3, <1>4 DEF in_zone, Within, m
<1>6. ASSUME Within(m, a) PROVE translate(zones[i], a) = a - From[m]
  <2>1. a - From[m] \in 0 .. Space - 1
    BY <1>3, <1>4, <1>6 DEF Within
  <2>2. (a - From[m]) % Space = a - From[m]
    BY <1>4, <2>1
  <2> QED
    BY <1>2, <2>2 DEF translate, m
<1> QED
  BY <1>2, <1>5, <1>6 DEF m

\* The offset of an address in a memory is a word's if and only if memory.c takes it.
LEMMA OffsetTaken ==
    ASSUME NEW m \in Memory, NEW a \in Address, Within(m, a)
    PROVE  /\ a - From[m] \in Offsets(m) => GetError(m, a - From[m]) = "OK"
           /\ a - From[m] \notin Offsets(m) => GetError(m, a - From[m]) = "NOT_ALIGNED"
<1> DEFINE o == a - From[m]
           s == memory_size_get(m)
<1>1. /\ s \in Nat \ {0} /\ From[m] \in Nat /\ a \in Nat /\ a < Space
      /\ Space \in Nat \ {0} /\ WORD_SIZE \in Nat \ {0}
  BY LayoutFacts, ArchAssumption DEF Address
<1>2. o \in Nat /\ o < s
  BY <1>1 DEF Within
<1>3. s % WORD_SIZE = 0 /\ s <= Space
  <2>1. s % WORD_SIZE = 0 /\ From[m] + s <= Space
    BY LayoutAssumption
  <2> QED
    BY <1>1, <2>1
<1> HIDE DEF o, s
<1>4. o % WORD_SIZE = 0 => (o + WORD_SIZE) % Space <= s
  BY <1>1, <1>2, <1>3, WordFits
<1>5. (o + WORD_SIZE) % Space \in Nat
  BY <1>1, <1>2
<1>6. o \in Offsets(m) <=> o % WORD_SIZE = 0
  BY <1>1, <1>2 DEF Offsets, s
<1>7. o % WORD_SIZE = 0 => ~ ((o + WORD_SIZE) % Space > s)
  BY <1>1, <1>4, <1>5
<1> QED
  BY <1>6, <1>7 DEF GetError, o, s

\* What the flat memory is made of, for a set A of memories: their words, each with the
\* memory that holds it.
MappedIn(A) == UNION { { From[m] + o : o \in Offsets(m) } : m \in A }

OwnerIn(A, a) == CHOOSE m \in A : a - From[m] \in Offsets(m)

LEMMA OneOwner ==
    ASSUME NEW A \in SUBSET Memory, NEW m \in A, NEW a \in Int, a - From[m] \in Offsets(m)
    PROVE  a \in MappedIn(A) /\ OwnerIn(A, a) = m /\ a \in Address /\ Within(m, a)
<1>2. ASSUME NEW n \in A, a - From[n] \in Offsets(n) PROVE Within(n, a)
  <2>1. From[n] \in Nat /\ memory_size_get(n) \in Nat \ {0}
    BY LayoutFacts
  <2>2. a - From[n] \in 0 .. memory_size_get(n) - 1
    BY <1>2 DEF Offsets
  <2> QED
    BY <2>1, <2>2 DEF Within
<1>3. OwnerIn(A, a) \in A /\ a - From[OwnerIn(A, a)] \in Offsets(OwnerIn(A, a))
  BY DEF OwnerIn
<1>4. OwnerIn(A, a) = m
  BY <1>2, <1>3, OneMemory
<1>5. a \in MappedIn(A)
  <2>1. From[m] + (a - From[m]) = a
    BY LayoutFacts
  <2> QED
    BY <2>1 DEF MappedIn
<1>6. a \in Address
  <2>1. /\ From[m] \in Nat /\ memory_size_get(m) \in Nat \ {0} /\ Space \in Nat
        /\ From[m] + memory_size_get(m) <= Space
    BY LayoutFacts, LayoutAssumption, ArchAssumption
  <2> QED
    BY <1>2, <2>1 DEF Within, Address
<1> QED
  BY <1>2, <1>4, <1>5, <1>6

LEMMA MappedOwned ==
    ASSUME NEW A \in SUBSET Memory, NEW a \in MappedIn(A)
    PROVE  /\ a \in Address /\ OwnerIn(A, a) \in A
           /\ a - From[OwnerIn(A, a)] \in Offsets(OwnerIn(A, a)) /\ Within(OwnerIn(A, a), a)
<1>1. PICK m \in A : \E o \in Offsets(m) : a = From[m] + o
  BY DEF MappedIn
<1>2. PICK o \in Offsets(m) : a = From[m] + o
  BY <1>1
<1>3. From[m] \in Nat /\ o \in Nat
  BY LayoutFacts DEF Offsets
<1>4. a \in Int /\ a - From[m] = o
  BY <1>2, <1>3
<1> QED
  BY <1>4, OneOwner

\* The state's own words and owners are those of the memories attached.
LEMMA FlatState ==
    /\ Mapped = MappedIn(Attached)
    /\ \A a : Owner(a) = OwnerIn(Attached, a)
    /\ zones \in Seq(Zone) => Attached \in SUBSET Memory
<1>1. ASSUME zones \in Seq(Zone) PROVE Attached \in SUBSET Memory
  <2>1. \A i \in 1 .. Len(zones) : zones[i] \in Zone
    BY <1>1
  <2> QED
    BY <2>1 DEF Attached, Zone
<1>2. Mapped = MappedIn(Attached) /\ \A a : Owner(a) = OwnerIn(Attached, a)
  BY DEF Mapped, MappedIn, Owner, OwnerIn
<1> QED
  BY <1>1, <1>2

\* The search of bus.c finds a word if and only if the address is one of the flat
\* memory, and then finds its owner; any other address is in no zone or within a word.
LEMMA Found ==
    ASSUME zones \in Seq(Zone), Placed, NEW a \in Address
    PROVE  LET z == zones[find_zone(a)]
               o == translate(z, a)
           IN  /\ find_zone(a) # 0 => /\ find_zone(a) \in 1 .. Len(zones)
                                     /\ z.memory \in Attached
                                     /\ GetError(z.memory, o) \in {"OK", "NOT_ALIGNED"}
               /\ find_zone(a) # 0 /\ GetError(z.memory, o) = "OK"
                     => a \in Mapped /\ z.memory = Owner(a) /\ o = a - From[Owner(a)]
               /\ a \in Mapped => find_zone(a) # 0 /\ GetError(z.memory, o) = "OK"
<1> DEFINE z == zones[find_zone(a)]
           m == z.memory
           o == translate(z, a)
<1>1. CASE find_zone(a) = 0
  <2>1. \A i \in 1 .. Len(zones) : ~ in_zone(zones[i], a)
    BY <1>1, FindZone
  <2>2. a \notin Mapped
    <3>1. SUFFICES ASSUME a \in Mapped PROVE FALSE
      OBVIOUS
    <3>2. Owner(a) \in Attached /\ Within(Owner(a), a)
      BY <3>1, FlatState, MappedOwned
    <3>3. PICK i \in 1 .. Len(zones) : zones[i].memory = Owner(a)
      BY <3>2 DEF Attached
    <3> QED
      BY <2>1, <3>2, <3>3, ZoneOfMemory
  <2> QED
    BY <1>1, <2>2
<1>2. CASE find_zone(a) # 0
  <2>1. find_zone(a) \in 1 .. Len(zones) /\ in_zone(z, a)
    BY <1>2, FindZone
  <2>2. m \in Memory /\ Within(m, a) /\ o = a - From[m] /\ m \in Attached
    BY <2>1, ZoneOfMemory DEF Attached
  <2>3. /\ GetError(m, o) \in {"OK", "NOT_ALIGNED"}
        /\ GetError(m, o) = "OK" => a - From[m] \in Offsets(m)
        /\ a - From[m] \in Offsets(m) => GetError(m, o) = "OK"
    BY <2>2, OffsetTaken
  <2>4. a \in Int
    BY ArchAssumption DEF Address
  <2>5. GetError(m, o) = "OK" => a \in Mapped /\ m = Owner(a)
    BY <2>2, <2>3, <2>4, FlatState, OneOwner
  <2>6. a \in Mapped => GetError(m, o) = "OK"
    <3>1. SUFFICES ASSUME a \in Mapped PROVE a - From[m] \in Offsets(m)
      BY <2>3
    <3>2. Owner(a) \in Memory /\ Within(Owner(a), a) /\ a - From[Owner(a)] \in Offsets(Owner(a))
      BY <3>1, FlatState, MappedOwned
    <3>3. Owner(a) = m
      BY <2>2, <2>4, <3>2, OneMemory
    <3> QED
      BY <3>2, <3>3
  <2> QED
    BY <1>2, <2>1, <2>2, <2>3, <2>5, <2>6
<1> QED
  BY <1>1, <1>2

(***************************************************************************)
(* The operations, one by one.                                             *)
(***************************************************************************)
\* The words and their owners before and after a step.
LEMMA FlatStep ==
    ASSUME zones \in Seq(Zone), zones' \in Seq(Zone)
    PROVE  /\ Attached \in SUBSET Memory /\ Attached' \in SUBSET Memory
           /\ Store = [a \in MappedIn(Attached) |->
                         raw[OwnerIn(Attached, a)][a - From[OwnerIn(Attached, a)]]]
           /\ Store' = [a \in MappedIn(Attached') |->
                         raw'[OwnerIn(Attached', a)][a - From[OwnerIn(Attached', a)]]]
           /\ Writable = { a \in MappedIn(Attached) : mode[OwnerIn(Attached, a)] = "RW" }
           /\ Writable' = { a \in MappedIn(Attached') : mode'[OwnerIn(Attached', a)] = "RW" }
<1>1. FlatState'
  BY FlatState, PTL
<1> QED
  BY FlatState, <1>1 DEF Store, Writable

\* What leaves the words, their modes and the memories attached alone is no step of it.
LEMMA FlatSame ==
    ASSUME UNCHANGED <<raw, mode>>, Attached' = Attached
    PROVE  UNCHANGED <<Store, Writable>>
BY DEF Store, Writable, Mapped, Owner

LEMMA FlatAttach ==
    ASSUME BusInv, BusInv', NEW m \in Memory, bus_memory_attach(m)
    PROVE  Flat!Map \/ Flat!Refuse
<1>1. /\ zones \in Seq(Zone) /\ zones' \in Seq(Zone)
      /\ UNCHANGED <<raw, mode>>
  BY DEF BusInv, TypeOK, bus_memory_attach
<1>2. CASE UNCHANGED zones /\ answer' = Report("ZONE_OUT_OF_ORDER")
  <2>1. Attached' = Attached
    BY <1>2 DEF Attached
  <2> QED
    BY <1>1, <1>2, <2>1, FlatSame DEF Flat!Refuse, Report
<1>3. CASE /\ zones' = inserted(insertion(From[m]),
                          [memory |-> m, from |-> From[m], notification |-> {}])
           /\ answer' = Report("OK")
  <2>1. Attached \subseteq Attached'
    <3> DEFINE pos == insertion(From[m])
    <3>1. pos \in 1 .. Len(zones) + 1 /\ Len(zones) \in Nat
      BY <1>1, Insertion, LayoutAssumption DEF BusInv
    <3> HIDE DEF pos
    <3>2. /\ Len(zones') = Len(zones) + 1
          /\ \A i \in 1 .. pos - 1 : zones'[i] = zones[i]
          /\ \A i \in pos .. Len(zones) : zones'[i + 1] = zones[i]
      BY <1>3, <3>1 DEF inserted, pos
    <3>3. ASSUME NEW i \in 1 .. Len(zones)
          PROVE  \E j \in 1 .. Len(zones') : zones'[j].memory = zones[i].memory
      <4>1. CASE i < pos
        BY <3>1, <3>2, <4>1
      <4>2. CASE pos <= i
        <5>1. i + 1 \in 1 .. Len(zones') /\ zones'[i + 1] = zones[i]
          BY <3>1, <3>2, <4>2
        <5> QED
          BY <5>1
      <4> QED
        BY <3>1, <4>1, <4>2
    <3> QED
      BY <3>3 DEF Attached
  <2> DEFINE A == Attached
             B == Attached'
  <2>2. /\ A \in SUBSET Memory /\ B \in SUBSET Memory
        /\ Store = [a \in MappedIn(A) |-> raw[OwnerIn(A, a)][a - From[OwnerIn(A, a)]]]
        /\ Store' = [a \in MappedIn(B) |-> raw[OwnerIn(B, a)][a - From[OwnerIn(B, a)]]]
        /\ Writable = { a \in MappedIn(A) : mode[OwnerIn(A, a)] = "RW" }
        /\ Writable' = { a \in MappedIn(B) : mode[OwnerIn(B, a)] = "RW" }
    BY <1>1, FlatStep
  <2> HIDE DEF A, B
  <2>3. ASSUME NEW a \in MappedIn(A) PROVE a \in MappedIn(B) /\ OwnerIn(B, a) = OwnerIn(A, a)
    <3>1. /\ OwnerIn(A, a) \in B /\ a \in Int
          /\ a - From[OwnerIn(A, a)] \in Offsets(OwnerIn(A, a))
      BY <2>1, <2>2, <2>3, MappedOwned, ArchAssumption DEF A, B, Address
    <3> QED
      BY <2>2, <3>1, OneOwner
  <2>4. /\ DOMAIN Store = MappedIn(A) /\ DOMAIN Store' = MappedIn(B)
        /\ \A a \in MappedIn(A) : Store'[a] = Store[a]
    BY <2>2, <2>3
  <2>5. Writable' \cap MappedIn(A) = Writable /\ Writable' \subseteq MappedIn(B)
    BY <2>2, <2>3
  <2>6. MappedIn(A) \subseteq MappedIn(B)
    BY <2>3
  <2> QED
    BY <1>3, <2>4, <2>5, <2>6 DEF Flat!Map, Report
<1> QED
  BY <1>2, <1>3 DEF bus_memory_attach

LEMMA FlatMode ==
    ASSUME BusInv, NEW new \in {"R", "RW"}, memory_mode_set(new)
    PROVE  Flat!Protect
<1>1. /\ zones \in Seq(Zone) /\ UNCHANGED <<raw, zones>> /\ answer' = [err |-> "OK"]
  BY DEF BusInv, TypeOK, memory_mode_set, Report
<1>2. Attached' = Attached
  BY <1>1 DEF Attached
<1>3. Store' = Store
  BY <1>1, <1>2 DEF Store, Mapped, Owner
<1>4. Writable' \subseteq DOMAIN Store
  BY <1>2 DEF Writable, Store, Mapped
<1> QED
  BY <1>1, <1>3, <1>4 DEF Flat!Protect

LEMMA FlatRead ==
    ASSUME BusInv, NEW a \in Address, bus_word_read(a)
    PROVE  Flat!Read
<1> DEFINE z == zones[find_zone(a)]
           o == translate(z, a)
<1>1. zones \in Seq(Zone) /\ Placed /\ UNCHANGED <<raw, mode, zones>>
  BY DEF BusInv, TypeOK, bus_word_read
<1>2. UNCHANGED <<Store, Writable>>
  BY <1>1, FlatSame DEF Attached
<1>3. /\ find_zone(a) # 0 => GetError(z.memory, o) \in {"OK", "NOT_ALIGNED"}
      /\ find_zone(a) # 0 /\ GetError(z.memory, o) = "OK"
             => a \in Mapped /\ z.memory = Owner(a) /\ o = a - From[Owner(a)]
      /\ a \in Mapped => find_zone(a) # 0 /\ GetError(z.memory, o) = "OK"
  BY <1>1, Found
<1>4. CASE a \in Mapped
  <2>1. answer' = [err |-> "OK", address |-> a, word |-> raw[z.memory][o]]
    BY <1>3, <1>4 DEF bus_word_read
  <2>2. a \in DOMAIN Store /\ Store[a] = raw[z.memory][o]
    BY <1>3, <1>4 DEF Store
  <2> QED
    BY <1>2, <2>1, <2>2 DEF Flat!Read
<1>5. CASE a \notin Mapped
  <2>1. answer' = [err |-> "INVALID_ADDRESS", address |-> a]
    <3>1. CASE find_zone(a) = 0
      BY <3>1 DEF bus_word_read, bus_error, Answer
    <3>2. CASE find_zone(a) # 0 /\ GetError(z.memory, o) = "NOT_ALIGNED"
      BY <3>2 DEF bus_word_read, bus_error, Answer
    <3> QED
      BY <1>3, <1>5, <3>1, <3>2
  <2>2. a \in Address \ DOMAIN Store
    BY <1>5 DEF Store
  <2> QED
    BY <1>2, <2>1, <2>2 DEF Flat!Read
<1> QED
  BY <1>4, <1>5

LEMMA FlatWrite ==
    ASSUME BusInv, NEW a \in Address, NEW v \in Value, bus_word_write(a, v)
    PROVE  Flat!Write
<1> DEFINE z == zones[find_zone(a)]
           o == translate(z, a)
<1>1. /\ zones \in Seq(Zone) /\ Placed /\ UNCHANGED <<mode, zones>>
      /\ raw = [m \in Memory |-> raw[m]]
      /\ \A m \in Memory : raw[m] \in [Offsets(m) -> Value]
  BY DEF BusInv, TypeOK, bus_word_write
<1>2. UNCHANGED <<Writable, Attached, Mapped>> /\ \A b : Owner(b)' = Owner(b)
  BY <1>1 DEF Writable, Attached, Mapped, Owner
<1>3. /\ find_zone(a) # 0 => GetError(z.memory, o) \in {"OK", "NOT_ALIGNED"}
      /\ find_zone(a) # 0 /\ GetError(z.memory, o) = "OK"
             => a \in Mapped /\ z.memory = Owner(a) /\ o = a - From[Owner(a)]
      /\ a \in Mapped => find_zone(a) # 0 /\ GetError(z.memory, o) = "OK"
  BY <1>1, Found
<1>4. CASE find_zone(a) # 0 /\ SetError(z.memory, o) = "OK"
  <2>1. /\ answer' = [err |-> "OK", address |-> a]
        /\ raw' = [raw EXCEPT ![z.memory][o] = v]
    BY <1>4 DEF bus_word_write, Answer, bus_error
  <2>2. mode[z.memory] = "RW" /\ GetError(z.memory, o) = "OK"
    BY <1>4 DEF SetError
  <2>3. a \in Mapped /\ z.memory = Owner(a) /\ o = a - From[Owner(a)]
    BY <1>3, <1>4, <2>2
  <2>4. a \in Writable
    BY <2>2, <2>3 DEF Writable
  <2>5. Store' = [Store EXCEPT ![a] = v]
    <3>1. Mapped = MappedIn(Attached) /\ Attached \in SUBSET Memory
          /\ \A b : Owner(b) = OwnerIn(Attached, b)
      BY <1>1, FlatState
    <3>2. ASSUME NEW b \in Mapped
          PROVE  raw'[Owner(b)][b - From[Owner(b)]]
                    = IF b = a THEN v ELSE raw[Owner(b)][b - From[Owner(b)]]
      <4>1. /\ Owner(b) \in Memory /\ b - From[Owner(b)] \in Offsets(Owner(b)) /\ b \in Int
            /\ From[Owner(b)] \in Int /\ a \in Int
        BY <3>1, MappedOwned, LayoutFacts, ArchAssumption DEF Address
      <4>2. raw[Owner(b)] \in [Offsets(Owner(b)) -> Value]
        BY <1>1, <4>1
      <4>3. raw' = [raw EXCEPT ![Owner(a)][a - From[Owner(a)]] = v]
        BY <2>1, <2>3
      <4>4. CASE Owner(b) # Owner(a)
        <5>1. raw'[Owner(b)] = raw[Owner(b)]
          BY <1>1, <4>1, <4>3, <4>4
        <5> QED
          BY <4>4, <5>1
      <4>5. CASE Owner(b) = Owner(a)
        <5>1. raw'[Owner(b)] = [raw[Owner(b)] EXCEPT ![a - From[Owner(b)]] = v]
          BY <1>1, <4>1, <4>3, <4>5
        <5>2. b = a <=> b - From[Owner(b)] = a - From[Owner(b)]
          BY <4>1
        <5> QED
          BY <4>1, <4>2, <5>1, <5>2
      <4> QED
        BY <4>4, <4>5
    <3>3. Store' = [b \in Mapped |-> raw'[Owner(b)][b - From[Owner(b)]]]
      BY <1>2 DEF Store
    <3> QED
      BY <2>3, <3>2, <3>3 DEF Store
  <2> QED
    BY <1>2, <2>1, <2>4, <2>5 DEF Flat!Write
<1>5. CASE ~ (find_zone(a) # 0 /\ SetError(z.memory, o) = "OK")
  <2>1. UNCHANGED raw
    BY <1>5 DEF bus_word_write
  <2>2. UNCHANGED Store
    BY <1>1, <2>1, FlatSame DEF Attached
  <2>3. a \notin Writable
    BY <1>3, <1>5 DEF Writable, SetError
  <2>4. \/ answer' = [err |-> "ILLEGAL_ACCESS", address |-> a]
        \/ answer' = [err |-> "INVALID_ADDRESS", address |-> a] /\ a \notin Mapped
    <3>1. CASE find_zone(a) = 0
      BY <1>3, <3>1 DEF bus_word_write, bus_error, Answer
    <3>2. CASE find_zone(a) # 0 /\ SetError(z.memory, o) = "NOT_WRITABLE"
      BY <3>2 DEF bus_word_write, bus_error, Answer
    <3>3. CASE find_zone(a) # 0 /\ SetError(z.memory, o) = "NOT_ALIGNED"
      <4>1. answer' = [err |-> "INVALID_ADDRESS", address |-> a]
        BY <3>3 DEF bus_word_write, bus_error, Answer
      <4>2. GetError(z.memory, o) # "OK"
        BY <3>3 DEF SetError
      <4> QED
        BY <1>3, <4>1, <4>2
    <3> QED
      BY <1>3, <1>5, <3>1, <3>2, <3>3 DEF SetError
  <2>5. DOMAIN Store = Mapped
    BY DEF Store
  <2> QED
    BY <1>2, <2>2, <2>3, <2>4, <2>5 DEF Flat!Write
<1> QED
  BY <1>4, <1>5

\* A registration is no step of the flat memory.
LEMMA FlatRegister ==
    ASSUME BusInv, NEW m \in Memory, NEW c \in Cond, bus_notification_register(m, c)
    PROVE  UNCHANGED <<Store, Writable, answer>>
<1>1. zones \in Seq(Zone) /\ UNCHANGED <<raw, mode, answer>>
  BY DEF BusInv, TypeOK, bus_notification_register
<1>2. Attached' = Attached
  <2> DEFINE z == find_zone(From[m])
  <2>1. \/ zones' = zones
        \/ zones' = [zones EXCEPT ![z].notification = @ \cup {<<From[m], c>>}]
    BY DEF bus_notification_register
  <2>2. /\ Len(zones') = Len(zones)
        /\ \A i \in 1 .. Len(zones) : zones'[i].memory = zones[i].memory
    <3>1. CASE zones' = zones
      BY <3>1
    <3>2. CASE zones' = [zones EXCEPT ![z].notification = @ \cup {<<From[m], c>>}]
      <4> HIDE DEF z
      <4>1. Len(zones') = Len(zones)
        BY <1>1, <3>2
      <4>2. ASSUME NEW i \in 1 .. Len(zones) PROVE zones'[i].memory = zones[i].memory
        <5>1. zones[i] \in Zone
          BY <1>1
        <5>2. i \in DOMAIN zones
          BY <1>1
        <5>3. CASE i = z
          <6>1. zones'[i] = [zones[i] EXCEPT !.notification = @ \cup {<<From[m], c>>}]
            BY <3>2, <5>2, <5>3, Zenon
          <6> QED
            BY <5>1, <6>1 DEF Zone
        <5>4. CASE i # z
          <6>1. zones'[i] = zones[i]
            BY <3>2, <5>2, <5>4, Zenon
          <6> QED
            BY <6>1
        <5> QED
          BY <5>3, <5>4
      <4> QED
        BY <4>1, <4>2
    <3> QED
      BY <2>1, <3>1, <3>2
  <2> QED
    BY <2>2 DEF Attached
<1> QED
  BY <1>1, <1>2, FlatSame

(***************************************************************************)
(* The printing of a range.                                                *)
(***************************************************************************)
\* A multiple of the word size and a rest below it.
LEMMA WordRest ==
    ASSUME NEW x \in Nat, x % WORD_SIZE = 0, NEW r \in 0 .. WORD_SIZE - 1
    PROVE  (x + r) % WORD_SIZE = r
<1>1. WORD_SIZE \in Nat \ {0}
  BY ArchAssumption
<1> DEFINE q == x \div WORD_SIZE
           p == (x + r) \div WORD_SIZE
           s == (x + r) % WORD_SIZE
<1>2. /\ q \in Int /\ p \in Int /\ s \in 0 .. WORD_SIZE - 1
      /\ x = WORD_SIZE * q /\ x + r = WORD_SIZE * p + s
  BY <1>1
<1> HIDE DEF q, p, s
<1>3. WORD_SIZE * (p - q) = r - s
  BY <1>1, <1>2
<1>4. p - q = 0
  <2>1. CASE p - q >= 1
    <3>1. WORD_SIZE * (p - q) >= WORD_SIZE * 1
      BY <1>1, <1>2, <2>1
    <3> QED
      BY <1>1, <1>2, <1>3, <3>1
  <2>2. CASE p - q <= -1
    <3>1. WORD_SIZE * (p - q) <= WORD_SIZE * (-1)
      BY <1>1, <1>2, <2>2
    <3> QED
      BY <1>1, <1>2, <1>3, <3>1
  <2> QED
    BY <1>2, <2>1, <2>2
<1>5. WORD_SIZE * (p - q) = 0
  BY <1>1, <1>4
<1> QED
  BY <1>1, <1>2, <1>3, <1>5 DEF s

\* Two multiples of the word size are a word apart, and their sum is one.
LEMMA WordApart ==
    ASSUME NEW x \in Nat, NEW y \in Nat, x % WORD_SIZE = 0, y % WORD_SIZE = 0
    PROVE  /\ x < y => x + WORD_SIZE <= y
           /\ (x + y) % WORD_SIZE = 0
<1>1. WORD_SIZE \in Nat \ {0}
  BY ArchAssumption
<1> DEFINE p == x \div WORD_SIZE
           q == y \div WORD_SIZE
<1>2. p \in Int /\ q \in Int /\ x = WORD_SIZE * p /\ y = WORD_SIZE * q
  BY <1>1
<1> HIDE DEF p, q
<1>3. x < y => x + WORD_SIZE <= y
  <2>1. CASE q <= p
    <3>1. WORD_SIZE * q <= WORD_SIZE * p
      BY <1>1, <1>2, <2>1
    <3> QED
      BY <1>2, <3>1
  <2>2. CASE p + 1 <= q
    <3>1. WORD_SIZE * (p + 1) <= WORD_SIZE * q
      BY <1>1, <1>2, <2>2
    <3> QED
      BY <1>1, <1>2, <3>1
  <2> QED
    BY <1>2, <2>1, <2>2
<1>4. (x + y) % WORD_SIZE = 0
  <2>1. x + y = WORD_SIZE * (p + q) /\ p + q \in Int
    BY <1>1, <1>2
  <2> DEFINE d == (x + y) \div WORD_SIZE
             s == (x + y) % WORD_SIZE
  <2>2. d \in Int /\ s \in 0 .. WORD_SIZE - 1 /\ x + y = WORD_SIZE * d + s
    BY <1>1
  <2> HIDE DEF d, s
  <2>3. WORD_SIZE * (p + q - d) = s
    BY <1>1, <1>2, <2>1, <2>2
  <2>4. p + q - d = 0
    <3>1. CASE p + q - d >= 1
      <4>1. WORD_SIZE * (p + q - d) >= WORD_SIZE * 1
        BY <1>1, <1>2, <2>2, <3>1
      <4> QED
        BY <1>1, <2>2, <2>3, <4>1
    <3>2. CASE p + q - d <= -1
      <4>1. WORD_SIZE * (p + q - d) <= WORD_SIZE * (-1)
        BY <1>1, <1>2, <2>2, <3>2
      <4> QED
        BY <1>1, <2>2, <2>3, <4>1
    <3> QED
      BY <1>2, <2>2, <3>1, <3>2
  <2>5. WORD_SIZE * (p + q - d) = 0
    BY <1>1, <2>4
  <2> QED
    BY <2>3, <2>5 DEF s
<1> QED
  BY <1>3, <1>4

\* A word of the flat memory stands at a multiple of the word size.
LEMMA MappedAligned ==
    ASSUME zones \in Seq(Zone), NEW a \in Mapped
    PROVE  a \in Address /\ a \in Nat /\ a % WORD_SIZE = 0
<1>1. Attached \in SUBSET Memory /\ a \in MappedIn(Attached)
  BY FlatState
<1>2. PICK m \in Attached : \E o \in Offsets(m) : a = From[m] + o
  BY <1>1 DEF MappedIn
<1>3. PICK o \in Offsets(m) : a = From[m] + o
  BY <1>2
<1>4. /\ From[m] \in Nat /\ From[m] % WORD_SIZE = 0
      /\ o \in Nat /\ o % WORD_SIZE = 0
  BY <1>1, LayoutFacts, LayoutAssumption DEF Offsets
<1>5. a \in Address
  BY <1>1, MappedOwned
<1>6. (From[m] + o) % WORD_SIZE = 0
  BY <1>4, WordApart
<1> QED
  BY <1>3, <1>4, <1>5, <1>6

LEMMA EmptyFunction == \A S, f : S = {} => [x \in S |-> f[x]] = << >>
OBVIOUS

\* The words bus_dump can read are those of the flat memory.
LEMMA DumpedWords ==
    ASSUME zones \in Seq(Zone), Placed, NEW R \in SUBSET Address
    PROVE  LET W == { a \in R : word_error(a) = "OK" }
           IN  /\ W = R \cap Mapped
               /\ [a \in W |-> LET zone == zones[find_zone(a)]
                              IN  raw[zone.memory][translate(zone, a)]]
                     = [a \in W |-> Store[a]]
<1> DEFINE W == { a \in R : word_error(a) = "OK" }
           word(a) == LET zone == zones[find_zone(a)]
                      IN  raw[zone.memory][translate(zone, a)]
<1>1. ASSUME NEW a \in R
      PROVE  /\ word_error(a) = "OK" <=> a \in Mapped
             /\ a \in Mapped => word(a) = Store[a]
  <2> DEFINE z == zones[find_zone(a)]
             o == translate(z, a)
  <2>1. /\ find_zone(a) # 0 /\ GetError(z.memory, o) = "OK"
              => a \in Mapped /\ z.memory = Owner(a) /\ o = a - From[Owner(a)]
        /\ a \in Mapped => find_zone(a) # 0 /\ GetError(z.memory, o) = "OK"
    BY Found
  <2>2. word_error(a) = "OK" <=> find_zone(a) # 0 /\ GetError(z.memory, o) = "OK"
    BY DEF word_error
  <2>3. a \in Mapped => word(a) = Store[a]
    BY <2>1 DEF Store
  <2> QED
    BY <2>1, <2>2, <2>3
<1>2. W = R \cap Mapped
  BY <1>1
<1> HIDE DEF word
<1>3. [a \in W |-> word(a)] = [a \in W |-> Store[a]]
  BY <1>1, <1>2
<1> QED
  BY <1>2, <1>3 DEF word

LEMMA FlatDump ==
    ASSUME BusInv, NEW d \in Dumps, bus_dump(d[1], d[2])
    PROVE  Flat!Dump
<1> DEFINE from == d[1]
           count == d[2]
           end == from + count - 1
           top == dump_end(from, count)
           W == { a \in reached(from, count) : word_error(a) = "OK" }
<1>1. zones \in Seq(Zone) /\ Placed /\ UNCHANGED <<raw, mode, zones>>
  BY DEF BusInv, TypeOK, bus_dump
<1>2. UNCHANGED <<Store, Writable>> /\ DOMAIN Store = Mapped
  BY <1>1, FlatSame DEF Attached, Store
<1>3. /\ WORD_SIZE \in Nat /\ WORD_SIZE >= 2 /\ Space \in Nat \ {0} /\ Space % WORD_SIZE = 0
      /\ from \in Nat /\ from < Space /\ count \in Nat /\ count < Space
      /\ Address = 0 .. Space - 1
  BY ArchAssumption DEF Address
<1>4. \A a \in Mapped : a \in Nat /\ a < Space /\ a % WORD_SIZE = 0
  BY <1>1, <1>3, MappedAligned
<1>5. Space >= 2 /\ (Space - 1) % WORD_SIZE # 0
  <2>1. 0 % WORD_SIZE = 0
    BY <1>3, WordRest
  <2>2. Space >= WORD_SIZE
    BY <1>3, <2>1, WordApart
  <2>3. Space - WORD_SIZE \in Nat
    BY <1>3, <2>2
  <2>4. (Space - 1) % WORD_SIZE = 0 => (Space - 1) + WORD_SIZE <= Space
    BY <1>3, WordApart
  <2> QED
    BY <1>3, <2>2, <2>4
\* The end of a range wraps if it is past the last address, or below the first.
<1>6. /\ end \in Address => top = end
      /\ end >= Space => top = end - Space
      /\ end < 0 => top = Space - 1 /\ from = 0 /\ count = 0
      /\ top \in Address
  <2>1. dump_end(from, count) = end % Space
    BY DEF dump_end
  <2> HIDE DEF from, count
  <2>2. CASE end \in 0 .. Space - 1
    BY <1>3, <2>1, <2>2
  <2>3. CASE end >= Space
    <3>1. end - Space \in 0 .. Space - 1
      BY <1>3, <2>3
    <3>2. end % Space = (end - Space) % Space
      BY <1>3, <2>3
    <3> QED
      BY <1>3, <2>1, <2>3, <3>1, <3>2
  <2>4. CASE end < 0
    <3>1. from = 0 /\ count = 0 /\ end = -1
      BY <1>3, <2>4
    <3>2. (-1) % Space = Space - 1
      BY <1>3
    <3> QED
      BY <1>3, <2>1, <3>1, <3>2
  <2> QED
    BY <1>3, <2>2, <2>3, <2>4
<1> HIDE DEF from, count
<1>7. CASE endless(from, count)
  <2>1. answer' = [err |-> "ENDLESS"]
    BY <1>7 DEF bus_dump, Report, from, count
  <2>2. count = 0 \/ \A a \in Mapped : a < end
    <3>1. SUFFICES ASSUME count # 0, NEW a \in Mapped, ~ (a < end) PROVE FALSE
      OBVIOUS
    <3>2. /\ from < top
          /\ \A b \in top .. Space - 1 : b % WORD_SIZE # from % WORD_SIZE
      BY <1>7 DEF endless
    <3>3. top = end /\ end \in Nat
      BY <1>3, <1>6, <3>1, <3>2
    <3>4. a \in Nat /\ a < Space /\ a % WORD_SIZE = 0 /\ end <= a
      BY <1>3, <1>4, <3>1, <3>3
    <3>5. a + WORD_SIZE <= Space
      BY <1>3, <3>4, WordApart
    <3> DEFINE r == from % WORD_SIZE
    <3>6. r \in 0 .. WORD_SIZE - 1
      BY <1>3
    <3> HIDE DEF r
    <3>7. (a + r) % WORD_SIZE = r
      BY <3>4, <3>6, WordRest
    <3>8. a + r \in end .. Space - 1
      BY <1>3, <3>3, <3>4, <3>5, <3>6
    <3> QED
      BY <3>2, <3>3, <3>7, <3>8 DEF r
  <2> QED
    BY <1>2, <2>1, <2>2 DEF Flat!Dump, from, count
<1>8. CASE ~ endless(from, count)
  <2>1. /\ answer' = [err |-> "DUMP", words |-> [a \in W |-> Store[a]]]
        /\ W = reached(from, count) \cap Mapped
    <3>1. reached(from, count) \in SUBSET Address
      BY DEF reached
    <3>2. answer' = [err |-> "DUMP", words |-> [a \in W |-> LET zone == zones[find_zone(a)]
                                       IN  raw[zone.memory][translate(zone, a)]]]
      BY <1>8 DEF bus_dump, from, count
    <3> QED
      BY <1>1, <3>1, <3>2, DumpedWords
  <2>2. \A a \in W : /\ a % WORD_SIZE = from % WORD_SIZE /\ a \in Mapped
                    /\ from <= a /\ a < top
    BY <1>8, <2>1 DEF reached
  <2>3. \A a \in Mapped : /\ a % WORD_SIZE = from % WORD_SIZE
                         /\ from <= a /\ a < top => a \in W
    BY <1>3, <1>4, <2>1 DEF reached
  <2>4. CASE from % WORD_SIZE # 0 \/ end \notin Address
    <3>1. W = {}
      <4>1. CASE from % WORD_SIZE # 0
        BY <1>4, <2>2, <4>1
      <4>2. CASE end >= Space
        BY <1>3, <1>4, <1>6, <2>2, <4>2
      \* The range of no bytes at 0 ends at the last address, which no word reaches.
      <4>3. CASE end < 0
        <5>1. top = Space - 1 /\ from = 0 /\ from % WORD_SIZE = 0
          BY <1>3, <1>6, <4>3, WordRest
        <5>2. \A b \in top .. Space - 1 : b % WORD_SIZE # from % WORD_SIZE
          BY <1>3, <1>5, <5>1
        <5> QED
          BY <1>3, <1>5, <1>8, <5>1, <5>2 DEF endless
      <4> QED
        BY <1>3, <2>4, <4>1, <4>2, <4>3
    <3>2. answer' = [err |-> "DUMP", words |-> << >>]
      BY <2>1, <3>1, EmptyFunction
    <3>3. from \notin Mapped \/ end \notin Address
      BY <1>4, <2>4
    <3> QED
      BY <1>2, <3>2, <3>3 DEF Flat!Dump, from, count
  <2>5. CASE from % WORD_SIZE = 0 /\ end \in Address
    <3>1. W = { a \in Mapped : from <= a /\ a < end }
      BY <1>4, <1>6, <2>2, <2>3, <2>5
    <3> QED
      BY <1>2, <2>1, <3>1 DEF Flat!Dump, from, count
  <2> QED
    BY <2>4, <2>5
<1> QED
  BY <1>7, <1>8

(***************************************************************************)
(* The refinement.                                                         *)
(***************************************************************************)
LEMMA FlatInit == Init => Flat!Init
<1> SUFFICES ASSUME Init PROVE Flat!Init
  OBVIOUS
<1>1. Attached = {}
  BY DEF Init, Attached
<1>2. Mapped = {}
  BY <1>1 DEF Mapped
<1>3. Store = << >> /\ Writable = {}
  BY <1>2, EmptyFunction DEF Store, Writable
<1> QED
  BY <1>3 DEF Init, Flat!Init, Report

LEMMA FlatNext == BusInv /\ BusInv' /\ [Next]_vars => [Flat!Next]_(Flat!vars)
<1> SUFFICES ASSUME BusInv, BusInv', [Next]_vars PROVE Flat!Next \/ UNCHANGED Flat!vars
  OBVIOUS
<1>1. CASE \E m \in Memory : bus_memory_attach(m)
  BY <1>1, FlatAttach DEF Flat!Next
<1>2. CASE \E m \in Memory, c \in Cond : bus_notification_register(m, c)
  BY <1>2, FlatRegister DEF Flat!vars
<1>3. CASE \E new \in {"R", "RW"} : memory_mode_set(new)
  BY <1>3, FlatMode DEF Flat!Next
<1>4. CASE \E a \in Address : bus_word_read(a)
  BY <1>4, FlatRead DEF Flat!Next
<1>5. CASE \E a \in Address, v \in Value : bus_word_write(a, v)
  BY <1>5, FlatWrite DEF Flat!Next
<1>6. CASE \E d \in Dumps : bus_dump(d[1], d[2])
  BY <1>6, FlatDump DEF Flat!Next
<1>7. CASE UNCHANGED vars
  <2>1. UNCHANGED <<raw, mode, Attached, answer>>
    BY <1>7 DEF vars, Attached
  <2> QED
    BY <2>1, FlatSame DEF Flat!vars
<1> QED
  BY <1>1, <1>2, <1>3, <1>4, <1>5, <1>6, <1>7 DEF Next

\* The zones, the translation of addresses, the modes and the printing of ranges
\* together are one flat memory: every step of the bus is a step of FlatMemory, or one
\* that it does not see.
THEOREM BusImplementsFlatMemory == Spec => IsFlatMemory
<1>1. BusInv /\ BusInv' /\ [Next]_vars => [Flat!Next]_(Flat!vars)
  BY FlatNext
<1> QED
  BY BusInit, BusNext, FlatInit, <1>1, PTL DEF Spec, IsFlatMemory, Flat!Spec

(***************************************************************************)
(* The notifications.                                                      *)
(***************************************************************************)
\* No two zones hold the same address.
LEMMA OneZone ==
    ASSUME zones \in Seq(Zone), Placed, ZonesSorted,
           NEW i \in 1 .. Len(zones), NEW j \in 1 .. Len(zones), NEW a \in Address,
           in_zone(zones[i], a), in_zone(zones[j], a)
    PROVE  i = j
<1>1. ASSUME NEW k \in 1 .. Len(zones), in_zone(zones[k], a)
      PROVE  /\ zones[k].from \in Nat /\ zones[k].from <= a /\ a \in Nat
             /\ memory_size_get(zones[k].memory) \in Nat
             /\ a < zones[k].from + memory_size_get(zones[k].memory)
  <2>1. /\ zones[k].memory \in Memory /\ zones[k].from = From[zones[k].memory]
        /\ Within(zones[k].memory, a)
    BY <1>1, ZoneOfMemory
  <2>2. a \in Nat
    BY ArchAssumption DEF Address
  <2> QED
    BY <2>1, <2>2, LayoutFacts DEF Within
<1>2. ASSUME i < j PROVE FALSE
  <2>1. zones[i].from + memory_size_get(zones[i].memory) <= zones[j].from
    BY <1>2 DEF ZonesSorted
  <2>2. a < zones[i].from + memory_size_get(zones[i].memory) /\ zones[j].from <= a
    BY <1>1
  <2>3. /\ zones[i].from \in Nat /\ zones[j].from \in Nat /\ a \in Nat
        /\ memory_size_get(zones[i].memory) \in Nat
    BY <1>1
  <2> QED
    BY <2>1, <2>2, <2>3
<1>3. ASSUME j < i PROVE FALSE
  <2>1. zones[j].from + memory_size_get(zones[j].memory) <= zones[i].from
    BY <1>3 DEF ZonesSorted
  <2>2. a < zones[j].from + memory_size_get(zones[j].memory) /\ zones[i].from <= a
    BY <1>1
  <2>3. /\ zones[i].from \in Nat /\ zones[j].from \in Nat /\ a \in Nat
        /\ memory_size_get(zones[j].memory) \in Nat
    BY <1>1
  <2> QED
    BY <2>1, <2>2, <2>3
<1> QED
  BY <1>2, <1>3

\* A zone holds its own first address.
LEMMA HoldsItsFirst ==
    ASSUME zones \in Seq(Zone), Placed, NEW i \in 1 .. Len(zones)
    PROVE  zones[i].from \in Address /\ in_zone(zones[i], zones[i].from)
<1>1. zones[i] \in Zone
  OBVIOUS
<1>2. /\ zones[i].memory \in Memory /\ zones[i].from \in Address
      /\ zones[i].from = From[zones[i].memory]
  BY <1>1 DEF Zone, Placed
<1> QED
  BY <1>2, LayoutFacts DEF in_zone

LEMMA RegistrationsNext ==
    BusInv /\ BusInv' /\ Registrations /\ [Next]_vars => Registrations'
<1> SUFFICES ASSUME BusInv, BusInv', Registrations, [Next]_vars PROVE Registrations'
  OBVIOUS
<1>t. /\ zones \in Seq(Zone) /\ zones' \in Seq(Zone) /\ Placed /\ ZonesSorted
      /\ registered \in SUBSET (Address \X Cond)
  BY DEF BusInv, TypeOK
<1>u. ASSUME UNCHANGED <<zones, registered>> PROVE Registrations'
  BY <1>u DEF Registrations
<1>1. ASSUME NEW m \in Memory, bus_memory_attach(m) PROVE Registrations'
  <2>1. CASE UNCHANGED zones
    BY <1>1, <1>u, <2>1 DEF bus_memory_attach
  <2>2. CASE /\ \A i \in 1 .. Len(zones) : ~ in_zone(zones[i], From[m])
             /\ zones' = inserted(insertion(From[m]),
                            [memory |-> m, from |-> From[m], notification |-> {}])
    <3> DEFINE pos == insertion(From[m])
               zone == [memory |-> m, from |-> From[m], notification |-> {}]
    <3>1. pos \in 1 .. Len(zones) + 1 /\ Len(zones) \in Nat /\ registered' = registered
      BY <1>1, <1>t, Insertion, LayoutAssumption DEF bus_memory_attach
    <3> HIDE DEF pos
    <3>2. zones' = [k \in 1 .. Len(zones) + 1 |->
                      IF k < pos THEN zones[k] ELSE IF k = pos THEN zone ELSE zones[k - 1]]
      BY <2>2 DEF inserted, pos
    <3> HIDE DEF zone
    <3>3. Len(zones') = Len(zones) + 1
      BY <3>1, <3>2
    \* Nobody has registered for the first address of a memory that is not attached.
    <3>4. { n \in registered : n[1] = From[m] } = {}
      <4>1. SUFFICES ASSUME NEW n \in registered, n[1] = From[m] PROVE FALSE
        OBVIOUS
      <4>2. PICK i \in 1 .. Len(zones) : zones[i].from = From[m]
        BY <4>1 DEF Registrations
      <4> QED
        BY <1>t, <2>2, <4>2, HoldsItsFirst
    <3>5. ASSUME NEW k \in 1 .. Len(zones')
          PROVE  zones'[k].notification = { n \in registered : n[1] = zones'[k].from }
      <4>1. CASE k < pos
        <5>1. k \in 1 .. Len(zones) /\ zones'[k] = zones[k]
          BY <3>1, <3>2, <3>3, <4>1
        <5> QED
          BY <5>1 DEF Registrations
      <4>2. CASE k = pos
        <5>1. zones'[k] = zone
          BY <3>1, <3>2, <4>2
        <5> QED
          BY <3>4, <5>1 DEF zone
      <4>3. CASE k > pos
        <5>1. k - 1 \in 1 .. Len(zones) /\ zones'[k] = zones[k - 1]
          BY <3>1, <3>2, <3>3, <4>3
        <5> QED
          BY <5>1 DEF Registrations
      <4> QED
        BY <3>1, <3>3, <4>1, <4>2, <4>3
    <3>6. ASSUME NEW n \in registered
          PROVE  \E k \in 1 .. Len(zones') : zones'[k].from = n[1]
      <4>1. PICK i \in 1 .. Len(zones) : zones[i].from = n[1]
        BY DEF Registrations
      <4>2. CASE i < pos
        BY <3>1, <3>2, <3>3, <4>1, <4>2
      <4>3. CASE pos <= i
        <5>1. i + 1 \in 1 .. Len(zones') /\ zones'[i + 1] = zones[i]
          BY <3>1, <3>2, <3>3, <4>3
        <5> QED
          BY <4>1, <5>1
      <4> QED
        BY <3>1, <4>2, <4>3
    <3> QED
      BY <3>1, <3>5, <3>6 DEF Registrations
  <2> QED
    BY <1>1, <2>1, <2>2 DEF bus_memory_attach
<1>2. ASSUME NEW m \in Memory, NEW c \in Cond, bus_notification_register(m, c)
      PROVE  Registrations'
  <2> DEFINE z == find_zone(From[m])
             r == <<From[m], c>>
  <2>1. From[m] \in Address
    BY LayoutAssumption
  \* The zone found is the one of the device's memory.
  <2>2. z \in 1 .. Len(zones) /\ zones[z].from = From[m]
    <3>1. PICK i \in 1 .. Len(zones) : zones[i].memory = m
      BY <1>2 DEF bus_notification_register, Attached
    <3>2. zones[i].from = From[m] /\ in_zone(zones[i], From[m])
      BY <1>t, <3>1, HoldsItsFirst DEF Placed
    <3>3. z \in 1 .. Len(zones) /\ in_zone(zones[z], From[m])
      BY <1>t, <2>1, <3>2, FindZone
    <3>4. z = i
      BY <1>t, <2>1, <3>2, <3>3, OneZone
    <3> QED
      BY <3>2, <3>4
  <2>3. ASSUME NEW i \in 1 .. Len(zones), i # z PROVE zones[i].from # From[m]
    BY <1>t, <2>2, <2>3, HoldsItsFirst, OneZone
  <2>4. /\ zones' = [zones EXCEPT ![z].notification = @ \cup {r}]
        /\ registered' = registered \cup {r}
    <3>1. z # 0
      BY <1>t, <2>2
    <3> QED
      BY <1>2, <3>1 DEF bus_notification_register
  <2> HIDE DEF z
  <2>5. /\ Len(zones') = Len(zones)
        /\ \A i \in 1 .. Len(zones) : i # z => zones'[i] = zones[i]
        /\ zones'[z] = [zones[z] EXCEPT !.notification = @ \cup {r}]
    <3>1. DOMAIN zones = 1 .. Len(zones) /\ Len(zones') = Len(zones)
      BY <1>t, <2>4
    <3>2. \A i \in 1 .. Len(zones) : i # z => zones'[i] = zones[i]
      BY <2>4, <3>1, Zenon
    <3>3. zones'[z] = [zones[z] EXCEPT !.notification = @ \cup {r}]
      BY <2>2, <2>4, <3>1, Zenon
    <3> QED
      BY <3>1, <3>2, <3>3
  <2>6. zones[z] \in Zone
    BY <1>t, <2>2
  <2>7. zones'[z].from = From[m] /\ zones'[z].notification = zones[z].notification \cup {r}
    BY <2>2, <2>5, <2>6 DEF Zone
  <2>8. r[1] = From[m]
    OBVIOUS
  <2> HIDE DEF r
  <2>9. zones'[z].notification = { n \in registered' : n[1] = From[m] }
    <3>1. zones[z].notification = { n \in registered : n[1] = From[m] }
      BY <2>2 DEF Registrations
    <3> QED
      BY <2>4, <2>7, <2>8, <3>1
  <2>10. ASSUME NEW i \in 1 .. Len(zones), i # z
         PROVE  zones'[i].notification = { n \in registered' : n[1] = zones'[i].from }
    <3>1. /\ zones'[i] = zones[i] /\ zones[i].from # r[1]
          /\ zones[i].notification = { n \in registered : n[1] = zones[i].from }
      BY <2>3, <2>5, <2>8, <2>10 DEF Registrations
    <3> QED
      BY <2>4, <3>1
  <2>11. ASSUME NEW n \in registered'
         PROVE  \E i \in 1 .. Len(zones) : zones'[i].from = n[1]
    <3>1. CASE n = r
      BY <2>2, <2>7, <2>8, <3>1
    <3>2. CASE n \in registered
      <4>1. PICK i \in 1 .. Len(zones) : zones[i].from = n[1]
        BY <3>2 DEF Registrations
      <4>2. zones'[i].from = zones[i].from
        BY <2>2, <2>5, <2>7
      <4> QED
        BY <4>1, <4>2
    <3> QED
      BY <2>4, <3>1, <3>2
  <2>12. \A i \in 1 .. Len(zones) :
            zones'[i].notification = { n \in registered' : n[1] = zones'[i].from }
    <3>1. zones'[z].notification = { n \in registered' : n[1] = zones'[z].from }
      BY <2>7, <2>9
    <3> QED
      BY <2>10, <3>1
  <2>13. Len(zones') = Len(zones)
    BY <2>5
  <2> QED
    BY <2>11, <2>12, <2>13 DEF Registrations
<1>3. ASSUME NEW a \in Address, bus_word_read(a) PROVE Registrations'
  BY <1>3, <1>u DEF bus_word_read
<1>4. ASSUME NEW a \in Address, NEW v \in Value, bus_word_write(a, v) PROVE Registrations'
  BY <1>4, <1>u DEF bus_word_write
<1>5. ASSUME NEW new \in {"R", "RW"}, memory_mode_set(new) PROVE Registrations'
  BY <1>5, <1>u DEF memory_mode_set
<1>6. ASSUME NEW d \in Dumps, bus_dump(d[1], d[2]) PROVE Registrations'
  BY <1>6, <1>u DEF bus_dump
<1>7. CASE UNCHANGED vars
  BY <1>7, <1>u DEF vars
<1> QED
  BY <1>1, <1>2, <1>3, <1>4, <1>5, <1>6, <1>7 DEF Next

\* The zone a write goes to knows all that registered for its address.
LEMMA WriteNotifies ==
    ASSUME BusInv, Registrations, NEW a \in Address, NEW v \in Value,
           bus_word_write(a, v), answer'.err = "OK"
    PROVE  signalled' = { n[2] : n \in { n \in registered : n[1] = a } }
<1> DEFINE z == find_zone(a)
           e == IF z = 0 THEN "NOWHERE" ELSE SetError(zones[z].memory, translate(zones[z], a))
<1>t. zones \in Seq(Zone) /\ Placed /\ ZonesSorted
  BY DEF BusInv, TypeOK
<1>1. z # 0 /\ signalled' = notified(zones[z], a)
  <2>1. answer'.err = bus_error(e) /\ signalled' = IF e = "OK" THEN notified(zones[z], a) ELSE {}
    BY DEF bus_word_write, Answer
  <2>2. e = "OK"
    <3>1. e \in {"NOWHERE", "NOT_WRITABLE", "NOT_ALIGNED", "OUT_OF_BOUND", "OK"}
      BY DEF SetError, GetError
    <3> HIDE DEF e
    <3> QED
      BY <2>1, <3>1 DEF bus_error
  <2> QED
    BY <2>1, <2>2
<1>2. z \in 1 .. Len(zones) /\ in_zone(zones[z], a)
  BY <1>t, <1>1, FindZone
<1>3. zones[z].notification = { n \in registered : n[1] = zones[z].from }
  BY <1>2 DEF Registrations
<1>4. ASSUME NEW n \in registered, n[1] = a PROVE n[1] = zones[z].from
  <2>1. PICK i \in 1 .. Len(zones) : zones[i].from = a
    BY <1>4 DEF Registrations
  <2>2. in_zone(zones[i], a)
    BY <1>t, <2>1, HoldsItsFirst
  <2>3. i = z
    BY <1>t, <1>2, <2>2, OneZone
  <2> QED
    BY <1>4, <2>1, <2>3
<1>5. { n \in zones[z].notification : n[1] = a } = { n \in registered : n[1] = a }
  BY <1>3, <1>4
<1> QED
  BY <1>1, <1>5 DEF notified

\* However many zones were attached since, and moved the zone a thread registered with, a
\* write that succeeds signals exactly the conditions registered for its address.
THEOREM AllNotifiedHolds == Spec => AllNotified
<1>1. Init => Registrations
  BY DEF Init, Registrations
<1>2. BusInv /\ Registrations /\ [Next]_vars =>
        [\A a \in Address, v \in Value :
           bus_word_write(a, v) /\ answer'.err = "OK" =>
              signalled' = { n[2] : n \in { n \in registered : n[1] = a } }]_vars
  BY WriteNotifies
<1> QED
  BY BusInit, BusNext, RegistrationsNext, <1>1, <1>2, PTL DEF Spec, AllNotified
=============================================================================
