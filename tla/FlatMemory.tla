----------------------------- MODULE FlatMemory -----------------------------
(***************************************************************************)
(* What the bus promises to the CPU: one flat array of words.  A word that *)
(* is mapped holds what was last written to it; mapping more memory,       *)
(* protecting some, or writing elsewhere never changes it.  There are no   *)
(* zones, no sizes and no translation of addresses here.                   *)
(***************************************************************************)
EXTENDS Integers

CONSTANTS Address,            \* the byte addresses
          Value,              \* what a word can hold
          Dumps               \* the ranges that are printed

VARIABLES store,              \* the mapped words: address -> value
          writable,           \* the mapped words the CPU may write
          answer              \* what the last operation reported

vars == <<store, writable, answer>>

Init == store = << >> /\ writable = {} /\ answer = [err |-> "none"]

\* New words appear beside the old ones.
Map == /\ answer' = [err |-> "OK"]
       /\ DOMAIN store \subseteq DOMAIN store'
       /\ \A a \in DOMAIN store : store'[a] = store[a]
       /\ writable' \cap DOMAIN store = writable
       /\ writable' \subseteq DOMAIN store'

Refuse == /\ answer' = [err |-> "ZONE_OUT_OF_ORDER"]
          /\ UNCHANGED <<store, writable>>

Protect == /\ answer' = [err |-> "OK"]
           /\ UNCHANGED store
           /\ writable' \subseteq DOMAIN store

Read == /\ UNCHANGED <<store, writable>>
        /\ \/ \E a \in DOMAIN store :
                 answer' = [err |-> "OK", address |-> a, word |-> store[a]]
           \/ \E a \in Address \ DOMAIN store :
                 answer' = [err |-> "INVALID_ADDRESS", address |-> a]

Write == /\ UNCHANGED writable
         /\ \/ \E a \in writable, v \in Value :
                  /\ answer' = [err |-> "OK", address |-> a]
                  /\ store' = [store EXCEPT ![a] = v]
            \/ \E a \in Address \ writable :
                  /\ answer' \in { [err |-> e, address |-> a] : e \in
                        IF a \in DOMAIN store THEN {"ILLEGAL_ACCESS"}
                        ELSE {"ILLEGAL_ACCESS", "INVALID_ADDRESS"} }
                  /\ UNCHANGED store

\* A range is printed word by word, its last byte excepted; from an address within a
\* word nothing is, nor of a range that runs past the last address.  A range that is
\* empty or reaches past the last mapped word may be printed for ever.
Dump == /\ UNCHANGED <<store, writable>>
        /\ \E d \in Dumps :
             LET end == d[1] + d[2] - 1
                 words == { a \in DOMAIN store : d[1] <= a /\ a < end }
             IN  \/ answer' = [err |-> "DUMP", words |-> [a \in words |-> store[a]]]
                 \/ /\ d[1] \notin DOMAIN store \/ end \notin Address
                    /\ answer' = [err |-> "DUMP", words |-> << >>]
                 \/ /\ d[2] = 0 \/ \A a \in DOMAIN store : a < end
                    /\ answer' = [err |-> "ENDLESS"]

Next == Dump \/ Map \/ Refuse \/ Protect \/ Read \/ Write

Spec == Init /\ [][Next]_vars
=============================================================================
