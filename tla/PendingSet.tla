----------------------------- MODULE PendingSet -----------------------------
(***************************************************************************)
(* What an interrupt controller promises for a set of interrupts: raising  *)
(* one makes it pending at once, a pending interrupt stays pending until   *)
(* it is delivered, and what is delivered is the lowest-numbered pending   *)
(* interrupt that is not masked, once.  There are no words, bits, threads  *)
(* or half-done updates here.  Interrupts.tla is shown to implement this   *)
(* for the interrupts whose word of active bits no device thread touches.  *)
(***************************************************************************)
EXTENDS Naturals

CONSTANT Line                 \* the interrupt numbers this promise is about

VARIABLES pending,            \* raised and not yet delivered
          masked              \* not to be delivered for now

vars == <<pending, masked>>

Init == pending = {} /\ masked \in SUBSET Line

Raise(i) == /\ pending' = pending \cup {i}
            /\ UNCHANGED masked

Deliver(i) ==
    /\ i \in pending \ masked
    /\ \A j \in pending \ masked : i <= j
    /\ pending' = pending \ {i}
    /\ UNCHANGED masked

SetMask(m) == masked' = m /\ UNCHANGED pending

Next == \/ \E i \in Line : Raise(i) \/ Deliver(i)
        \/ \E m \in SUBSET Line : SetMask(m)

Spec == Init /\ [][Next]_vars
=============================================================================
