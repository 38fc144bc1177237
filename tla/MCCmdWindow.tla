----------------------------- MODULE MCCmdWindow ----------------------------
(* Instances of CmdWindow for TLC.                                         *)
EXTENDS CmdWindow, TLC

Symmetry == Permutations(Conns)
=============================================================================
