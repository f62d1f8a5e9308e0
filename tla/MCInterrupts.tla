---------------------------- MODULE MCInterrupts ----------------------------
(***************************************************************************)
(* Two words of two interrupts.  Word 0 holds 0 and the devices' own       *)
(* interrupts (the timer and, on one number here, VSYNC and the keyboard:  *)
(* they are raised by the same thread); word 1 holds two software          *)
(* interrupts, so that priority between private ones is exercised.         *)
(***************************************************************************)
EXTENDS Interrupts
=============================================================================
