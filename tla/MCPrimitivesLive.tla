-------------------------- MODULE MCPrimitivesLive --------------------------
(***************************************************************************)
(* What must happen at last: calls of the primitives return, and the spin  *)
(* lock below them is taken by somebody.  A behaviour is about one of the  *)
(* two; neither has symmetry, which would not be sound here.               *)
(***************************************************************************)
EXTENDS Primitives, SpinLock

CONSTANTS c0, c1, t1, t2

VARIABLE level      \* "threads" or "lock"

MCCore   == {c0, c1}
MCThread == {t1, t2}
MCCond   == {cv}

liveVars == <<level, workerVars, spinVars>>

\* What does not move has one initial state.
MCInit ==
    /\ PrimInit /\ SpinInit
    /\ \/ level = "threads" /\ \A c \in Cpu : ~disabled[c]
       \/ level = "lock" /\ obj.class = "BlockingLock"

ThreadsMove(Step) == level = "threads" /\ Step /\ UNCHANGED <<level, spinVars>>
LockMoves(Step)   == level = "lock" /\ Step /\ UNCHANGED <<level, workerVars>>

MCNext == ThreadsMove(PrimNext) \/ LockMoves(SpinNext)

\* The fairness of PrimFairSpec and of the lock; while threads move all cores are outside
\* the lock, and nothing is asked of them there.
MCFairness ==
    /\ \A c \in Core : /\ WF_liveVars(ThreadsMove(PrimStep(c)))
                       /\ SF_liveVars(ThreadsMove(Call(c) \/ Finish(c)))
                       /\ SF_liveVars(ThreadsMove(Spawn(c)))
    /\ SpinFairness

MCSpec == MCInit /\ [][MCNext]_liveVars /\ MCFairness

\* Every call of a primitive returns, every thread ends and the machine powers off, in
\* the behaviours that are about threads: the loops of lock, down, sync and get.
PrimitivesEnd == level = "threads" => EverybodyDone
=============================================================================
