----------------------------- MODULE MCWinRunner ----------------------------
(* Instance of WinRunner for TLC: an AI id sorts before the seeds.         *)
EXTENDS WinRunner

MCSeedOrder == <<3, 2>>
=============================================================================
