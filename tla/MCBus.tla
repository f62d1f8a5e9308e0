------------------------------- MODULE MCBus -------------------------------
(***************************************************************************)
(* Ten bytes of two-byte words.  "ram" at the bottom, "dev" right above    *)
(* it, created with an odd number of bytes so that its second word is not  *)
(* cleared, then a gap, and "rom" up to the very last address.             *)
(***************************************************************************)
EXTENDS Bus

MCMemory == {"ram", "dev", "rom"}
MCBytes == [ram |-> 2, dev |-> 3, rom |-> 2]
MCFrom == [ram |-> 0, dev |-> 2, rom |-> 8]
MCValue == {0, 1}

\* Everything but the last word; two words; from the middle of a word; nothing, from
\* the first address; the last word; the last word and the first, past the end of the
\* address space.
MCDumps == {<<0, 9>>, <<2, 4>>, <<1, 6>>, <<0, 0>>, <<8, 2>>, <<8, 4>>}
=============================================================================
