---------------------------- MODULE MCPrimitives ----------------------------
(***************************************************************************)
(* Two cores and three TCBs.  A behaviour has one of the primitives, or    *)
(* none: then the threads are the most general client of the thread system *)
(* (ThreadsSpec).                                                          *)
(***************************************************************************)
EXTENDS Primitives, TLC

CONSTANTS
    c0, c1, t1, t2, t3,
    ClientEpochs    \* bound on the notifications of the most general client

MCCore   == {c0, c1}
MCThread == {t1, t2, t3}
MCCond   == {cv}

\* TCBs are interchangeable.
MCSymmetry == Permutations(MCThread)

NoPrimitive == [class |-> "none"]

ClientInit ==
    /\ ThreadsInit
    /\ obj = NoPrimitive
    /\ at = [x \in Ctx |-> "out"]
    /\ todo = 0

ClientNext ==
    /\ obj = NoPrimitive
    /\ ThreadsNext
    /\ \A cd \in Cond : epoch'[cd] <= ClientEpochs
    /\ UNCHANGED <<obj, at, todo>>

MCInit == PrimInit \/ ClientInit
MCNext == (obj # NoPrimitive /\ PrimNext) \/ ClientNext
MCSpec == MCInit /\ [][MCNext]_workerVars
=============================================================================
