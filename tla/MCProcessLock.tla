---------------------------- MODULE MCProcessLock ----------------------------
(* Instance of ProcessLock for TLC. *)
EXTENDS ProcessLock, TLC

CONSTANTS c0, c1, t1, t2, t3, r1

MCCore   == {c0, c1}
MCThread == {t1, t2, t3}
MCRsp    == {r1}
MCCond   == {not_locked}

ThreadSymmetry == Permutations(Thread)
=============================================================================
