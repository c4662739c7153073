---------------------------- MODULE MCProcesses ----------------------------
(***************************************************************************)
(* Small instances of Processes.                                           *)
(***************************************************************************)
EXTENDS Processes, TLC

CONSTANTS c0, c1, t1, t2, t3, r1, r2

OneCore   == {c0}
TwoCores  == {c0, c1}
MCThread  == {t1, t2, t3}
OneRsp    == {r1}
TwoRsp    == {r1, r2}

ThreadSymmetry == Permutations(Thread)
=============================================================================
