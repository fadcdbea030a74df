------------------------- MODULE MCMachineSetWaits -------------------------
(* Machinesets of two machines; four machines are enough for a replacement *)
(* and for the second machineset.                                          *)
EXTENDS MachineSetWaits

CONSTANTS m1, m2, m3, m4
=============================================================================
