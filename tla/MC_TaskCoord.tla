---------------------------- MODULE MC_TaskCoord ----------------------------
(* Instantiates TaskCoord for TLC: the firmware's 2:00 countdown and one or *)
(* two distinct server answers.                                             *)
EXTENDS TaskCoord

CONSTANTS t1, t2, empty

MC_Texts1 == {t1}
MC_Texts2 == {t1, t2}
=============================================================================
