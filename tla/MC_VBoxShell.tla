---------------------------- MODULE MC_VBoxShell ----------------------------
(* VBoxShell for TLC: two machines and monitors of up to two event-pump    *)
(* slices.                                                                  *)
EXTENDS VBoxShell, TLC

CONSTANTS m1, m2, none

MC_Machines == {m1, m2}
MC_MaxSlices == 2
=============================================================================
