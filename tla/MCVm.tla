-------------------------------- MODULE MCVm --------------------------------
(***************************************************************************)
(* The machine in the modes the configuration names.  Nothing in Devices   *)
(* needs a bound: its state space is finite.                               *)
(***************************************************************************)
EXTENDS Devices
=============================================================================
