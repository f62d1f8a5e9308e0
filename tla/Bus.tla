-------------------------------- MODULE Bus --------------------------------
(***************************************************************************)
(* The bus and the memories attached to it (bus.c, memory.c).  A memory is *)
(* a block of words with a mode; the bus is a list of zones, each a memory *)
(* placed at an address.  Addresses are unsigned and wrap at Space, as     *)
(* addr_t wraps at 2^32; words are WORD_SIZE bytes.                        *)
(*                                                                         *)
(* vm_create and the devices it creates attach each their own memory; here *)
(* any of the memories may be attached at any time, in any order, again    *)
(* too, between reads, writes, changes of mode and registrations.          *)
(***************************************************************************)
EXTENDS Integers, Sequences

CONSTANTS Space,              \* 2^32: addr_t arithmetic is modulo Space
          WORD_SIZE,          \* bytes in a word
          Value,              \* what a word can hold; 0 among them
          Memory,             \* the memories of the machine
          Bytes,              \* memory -> the size it is created with
          From,               \* memory -> the address it is attached at
          Rom,                \* the memory created read-only
          Cond,               \* condition variables of the device threads
          Dumps               \* ranges that are printed: first address, bytes

Address == 0 .. Space - 1

ROUND_UP(bytes) == (((bytes + WORD_SIZE - 1) % Space) \div WORD_SIZE) * WORD_SIZE

memory_size_get(m) == ROUND_UP(Bytes[m])

(***************************************************************************)
(* What vm_create's layout guarantees as long as the RAM it was asked for  *)
(* is not empty and ends below the lowest device (KEYBOARD_IN_ADDRESS): no *)
(* memory is empty, none runs past the end of the address space, none      *)
(* overlaps another, and all start at a multiple of the word size.         *)
(* bus_memory_attach itself checks only that the first byte is free.       *)
(***************************************************************************)
ASSUME ArchAssumption ==
    /\ WORD_SIZE \in Nat \ {0, 1}
    /\ Space \in Nat \ {0} /\ Space % WORD_SIZE = 0
    /\ 0 \in Value
    /\ Rom \in Memory
    /\ Dumps \subseteq Address \X Address

ASSUME LayoutAssumption ==
    /\ Bytes \in [Memory -> Nat] /\ From \in [Memory -> Address]
    /\ \A m \in Memory :
          /\ memory_size_get(m) \in Nat \ {0}
          /\ memory_size_get(m) % WORD_SIZE = 0
          /\ From[m] + memory_size_get(m) <= Space
          /\ From[m] % WORD_SIZE = 0
    /\ \A m, n \in Memory : m # n =>
          \/ From[m] + memory_size_get(m) <= From[n]
          \/ From[n] + memory_size_get(n) <= From[m]

VARIABLES
    raw,        \* memory -> offset of a word -> what it holds
    mode,       \* memory -> MEM_MODE_R or MEM_MODE_RW
    zones,      \* bus->zones: sequence of [memory, from, notification]
    answer,     \* what the last operation reported
    signalled,  \* the condition variables the last operation signalled
    aborted,    \* the process called abort()
    registered  \* history: every <<address, condition>> registered

vars == <<raw, mode, zones, answer, signalled, aborted, registered>>

Report(err) == [err |-> err]

Answer(err, address) == [err |-> err, address |-> address]

Offsets(m) == { o \in 0 .. memory_size_get(m) - 1 : o % WORD_SIZE = 0 }

\* memory_create: the loop clears Bytes \div WORD_SIZE words, so that a last,
\* partial word keeps what malloc left there.
Cleared(m) == { o \in Offsets(m) : o \div WORD_SIZE < Bytes[m] \div WORD_SIZE }

memory_create ==
    /\ raw \in { r \in [Memory -> UNION { [Offsets(m) -> Value] : m \in Memory }] :
                   \A m \in Memory : /\ r[m] \in [Offsets(m) -> Value]
                                     /\ \A o \in Cleared(m) : r[m][o] = 0 }
    /\ mode = [m \in Memory |-> IF m = Rom THEN "R" ELSE "RW"]

Init ==
    /\ memory_create
    /\ zones = << >>
    /\ answer = Report("none")
    /\ signalled = {} /\ aborted = FALSE /\ registered = {}

-----------------------------------------------------------------------------
(***************************************************************************)
(* memory.c: the error of a read or a write at an offset of a memory.  The *)
(* definitions named slip_* are what a plausible slip in a line would      *)
(* compute instead; no action uses them.                                   *)
(***************************************************************************)
GetError(m, o) ==
    IF o % WORD_SIZE # 0 THEN "NOT_ALIGNED"
    ELSE IF (o + WORD_SIZE) % Space > memory_size_get(m) THEN "OUT_OF_BOUND"
    ELSE "OK"

slip_SetError(m, o) == GetError(m, o)            \* the mode is not looked at

SetError(m, o) == IF mode[m] # "RW" THEN "NOT_WRITABLE" ELSE GetError(m, o)

(***************************************************************************)
(* bus.c: the zones, the search for one, and where a new one is put.       *)
(***************************************************************************)
memory_max_address(m, base) == (memory_size_get(m) + base - 1) % Space

slip_in_zone(zone, address) ==          \* one past the end still inside
    /\ zone.from <= address
    /\ memory_max_address(zone.memory, zone.from) + 1 >= address

in_zone(zone, address) ==
    /\ zone.from <= address
    /\ memory_max_address(zone.memory, zone.from) >= address

translate(zone, address) == (address - zone.from) % Space

\* The index of the first zone that holds the address, 0 (NULL) without one.
find_zone(address) ==
    LET holds == { i \in 1 .. Len(zones) : in_zone(zones[i], address) }
    IN  IF holds = {} THEN 0 ELSE CHOOSE i \in holds : \A j \in holds : i <= j

Attached == { zones[i].memory : i \in 1 .. Len(zones) }

slip_insertion(from) == Len(zones) + 1           \* always at the end

\* Where bus_memory_attach puts a new zone: before the first one that ends
\* above it.
insertion(from) ==
    LET above == { i \in 1 .. Len(zones) :
                     from < memory_max_address(zones[i].memory, zones[i].from) }
    IN  IF above = {} THEN Len(zones) + 1
        ELSE CHOOSE i \in above : \A j \in above : i <= j

slip_inserted(pos, zone) ==                      \* the moved zones are lost
    [k \in 1 .. Len(zones) + 1 |-> IF k < pos THEN zones[k] ELSE
        IF k = pos THEN zone ELSE [zones[k - 1] EXCEPT !.notification = {}]]

\* The new array: the zones before pos, the new one, the zones from pos on.
inserted(pos, zone) ==
    [k \in 1 .. Len(zones) + 1 |-> IF k < pos THEN zones[k]
                                   ELSE IF k = pos THEN zone
                                   ELSE zones[k - 1]]

-----------------------------------------------------------------------------
(***************************************************************************)
(* The operations.                                                         *)
(***************************************************************************)
bus_memory_attach(m) ==
    /\ ~ aborted
    /\ \/ /\ \E i \in 1 .. Len(zones) : in_zone(zones[i], From[m])
          /\ answer' = Report("ZONE_OUT_OF_ORDER")
          /\ UNCHANGED zones
       \/ /\ \A i \in 1 .. Len(zones) : ~ in_zone(zones[i], From[m])
          /\ zones' = inserted(insertion(From[m]),
                        [memory |-> m, from |-> From[m], notification |-> {}])
          /\ answer' = Report("OK")
    /\ signalled' = {}
    /\ UNCHANGED <<raw, mode, aborted, registered>>

slip_bus_error(e) == e                           \* the MemError is passed on

\* The BusError for a MemError, or for an address in no zone; an offset out
\* of bounds calls abort().
bus_error(e) == CASE e \in {"NOWHERE", "NOT_ALIGNED"} -> "INVALID_ADDRESS"
                  [] e = "NOT_WRITABLE"              -> "ILLEGAL_ACCESS"
                  [] OTHER                           -> e

bus_word_read(address) ==
    /\ ~ aborted
    /\ LET z == find_zone(address)
           o == translate(zones[z], address)
           e == IF z = 0 THEN "NOWHERE" ELSE GetError(zones[z].memory, o)
       IN  /\ aborted' = (e = "OUT_OF_BOUND")
           /\ answer' = IF e = "OK"
                        THEN [err |-> "OK", address |-> address,
                              word |-> raw[zones[z].memory][o]]
                        ELSE Answer(bus_error(e), address)
    /\ signalled' = {}
    /\ UNCHANGED <<raw, mode, zones, registered>>

\* The last byte of a range is not printed, and the loop of bus_dump ends at the
\* first word at or past it: never, if there is none below the end of the addresses.
dump_end(from, count) == (from + count - 1) % Space

endless(from, count) ==
    /\ from < dump_end(from, count)
    /\ \A a \in dump_end(from, count) .. Space - 1 : a % WORD_SIZE # from % WORD_SIZE

reached(from, count) ==
    { a \in Address : /\ a % WORD_SIZE = from % WORD_SIZE
                     /\ (endless(from, count) \/ (from <= a /\ a < dump_end(from, count))) }

word_error(address) ==
    LET z == find_zone(address)
    IN  IF z = 0 THEN "NOWHERE" ELSE GetError(zones[z].memory, translate(zones[z], address))

\* bus_dump prints the words it can read, and nothing for the others.
bus_dump(from, count) ==
    /\ ~ aborted
    /\ aborted' = \E a \in reached(from, count) : word_error(a) = "OUT_OF_BOUND"
    /\ answer' = IF endless(from, count) THEN Report("ENDLESS")
                 ELSE [err |-> "DUMP",
                       words |-> [a \in { a \in reached(from, count) : word_error(a) = "OK" } |->
                                    LET zone == zones[find_zone(a)]
                                    IN  raw[zone.memory][translate(zone, a)]]]
    /\ signalled' = {}
    /\ UNCHANGED <<raw, mode, zones, registered>>

\* The conditions bus_word_write signals after a successful write.
notified(zone, address) == { n[2] : n \in { n \in zone.notification : n[1] = address } }

bus_word_write(address, word) ==
    /\ ~ aborted
    /\ LET z == find_zone(address)
           o == translate(zones[z], address)
           e == IF z = 0 THEN "NOWHERE" ELSE SetError(zones[z].memory, o)
       IN  /\ aborted' = (e = "OUT_OF_BOUND")
           /\ answer' = Answer(bus_error(e), address)
           /\ raw' = IF e = "OK" THEN [raw EXCEPT ![zones[z].memory][o] = word]
                                 ELSE raw
           /\ signalled' = IF e = "OK" THEN notified(zones[z], address) ELSE {}
    /\ UNCHANGED <<mode, zones, registered>>

\* A device registers for the first word of a memory it has attached.
bus_notification_register(m, cond) ==
    /\ ~ aborted
    /\ m \in Attached
    /\ LET z == find_zone(From[m])
       IN  /\ aborted' = (z = 0)
           /\ zones' = IF z = 0 THEN zones
                       ELSE [zones EXCEPT ![z].notification = @ \cup {<<From[m], cond>>}]
    /\ registered' = registered \cup {<<From[m], cond>>}
    /\ signalled' = {}
    /\ UNCHANGED <<raw, mode, answer>>

\* main.c opens the ROM for writing while it loads its image.
memory_mode_set(new) ==
    /\ ~ aborted
    /\ mode' = [mode EXCEPT ![Rom] = new]
    /\ answer' = Report("OK") /\ signalled' = {}
    /\ UNCHANGED <<raw, zones, aborted, registered>>

Next ==
    \/ \E m \in Memory : \/ bus_memory_attach(m)
                         \/ \E c \in Cond : bus_notification_register(m, c)
    \/ \E new \in {"R", "RW"} : memory_mode_set(new)
    \/ \E a \in Address : bus_word_read(a) \/ \E v \in Value : bus_word_write(a, v)
    \/ \E d \in Dumps : bus_dump(d[1], d[2])

Spec == Init /\ [][Next]_vars

-----------------------------------------------------------------------------
Zone == [memory : Memory, from : Address, notification : SUBSET (Address \X Cond)]

Errors == {"none", "OK", "OUT_OF_BOUND", "ZONE_OUT_OF_ORDER", "INVALID_ADDRESS", "ILLEGAL_ACCESS",
           "DUMP", "ENDLESS"}

TypeOK ==
    /\ raw \in [Memory -> UNION { [Offsets(m) -> Value] : m \in Memory }]
    /\ \A m \in Memory : raw[m] \in [Offsets(m) -> Value]
    /\ mode \in [Memory -> {"R", "RW"}]
    /\ zones \in Seq(Zone)
    /\ answer.err \in Errors
    /\ signalled \in SUBSET Cond
    /\ aborted \in BOOLEAN
    /\ registered \in SUBSET (Address \X Cond)

\* bus_word_read and bus_word_write never meet an offset past the end of the
\* memory their zone names, and a device always finds its own zone to register
\* with: the abort() of bus.c is out of reach.
NoAbort == ~ aborted

\* Whatever the order of the attachments, the zones stand in the order of
\* their addresses and do not overlap: the first zone that holds an address
\* is the only one.
ZonesSorted ==
    \A i, j \in 1 .. Len(zones) : i < j =>
        zones[i].from + memory_size_get(zones[i].memory) <= zones[j].from

\* A write that succeeds wakes exactly the threads that registered for its
\* address, even when zones were attached, and moved, since.
AllNotified ==
    [][\A a \in Address, v \in Value :
         bus_word_write(a, v) /\ answer'.err = "OK" =>
            signalled' = { n[2] : n \in { n \in registered : n[1] = a } }]_vars

\* The inductive invariant behind NoAbort and ZonesSorted: a zone stands where
\* the layout puts its memory.
Placed == \A i \in 1 .. Len(zones) : zones[i].from = From[zones[i].memory]

BusInv == TypeOK /\ Placed /\ ZonesSorted /\ NoAbort

\* And the one behind AllNotified: the registrations for an address are with the zone
\* that starts there, and with no other.
Registrations ==
    /\ \A n \in registered : \E i \in 1 .. Len(zones) : zones[i].from = n[1]
    /\ \A i \in 1 .. Len(zones) :
          zones[i].notification = { n \in registered : n[1] = zones[i].from }

-----------------------------------------------------------------------------
\* The flat memory the CPU sees: every word of every attached memory, at the
\* address where the layout puts it.
Mapped == UNION { { From[m] + o : o \in Offsets(m) } : m \in Attached }

Owner(a) == CHOOSE m \in Attached : a - From[m] \in Offsets(m)

Store == [a \in Mapped |-> raw[Owner(a)][a - From[Owner(a)]]]

Writable == { a \in Mapped : mode[Owner(a)] = "RW" }

Flat == INSTANCE FlatMemory WITH store <- Store, writable <- Writable

\* Zones, translation and modes together behave as one flat memory: a word
\* reads as what was last written to its address, and attaching or protecting
\* memory never changes what another address reads.
IsFlatMemory == Flat!Spec
=============================================================================
