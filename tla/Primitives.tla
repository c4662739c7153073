----------------------------- MODULE Primitives -----------------------------
(***************************************************************************)
(* The blocking primitives on top of the thread system, one of them in     *)
(* each behaviour.                                                         *)
(***************************************************************************)
EXTENDS BlockingLock, Semaphore, Barrier, CountDownLatch, Future

PrimTypeOK ==
    /\ ThreadsTypeOK
    /\ \/ obj \in [class : {"BlockingLock"}, locked : BOOLEAN]
       \/ obj \in [class : {"Semaphore", "CountDownLatch"}, count : Nat]
       \/ obj \in [class : {"Barrier"}, count : Nat, party : {Core, Thread}]
       \/ obj \in [class : {"Future"}, ready : BOOLEAN]
    /\ at \in [Ctx -> {"out", "in", "held", "upped", "down1", "down2", "sync",
                       "counted", "insync", "setter", "done"}]
    /\ todo \in 0..MaxActive

PrimInit ==
    /\ ThreadsInit
    /\ todo = MaxActive
    /\ BLInit \/ SemInit \/ BarInit \/ LatchInit \/ FutureInit

\* A call of the primitive.
Call(c) == BLStep(c) \/ SemStep(c) \/ BarStep(c) \/ LatchStep(c) \/ FutureStep(c)

\* A thread gives up its core between two calls, or after the last one.
YieldCore(c) ==
    /\ Yield(c)
    /\ at[Me(c)] \in {"in", "held", "upped", "counted", "done"}
    /\ UNCHANGED <<obj, at, todo>>

PrimStep(c) == System(c) \/ Spawn(c) \/ Finish(c) \/ Call(c) \/ YieldCore(c)

PrimNext ==
    \/ \E c \in Core : PrimStep(c)
    \/ PowerOff /\ UNCHANGED workerVars

PrimSpec == PrimInit /\ [][PrimNext]_workerVars

\* Cores keep executing; a thread that gets to run again and again does not
\* yield for ever in place of its next call or its end; and the program does
\* create the parties of a barrier and the thread that sets a future.
PrimFairSpec ==
    /\ PrimSpec
    /\ \A c \in Core : /\ WF_workerVars(PrimStep(c))
                       /\ SF_workerVars(Call(c) \/ Finish(c))
                       /\ SF_workerVars(Spawn(c))

-----------------------------------------------------------------------------
\* The event the waiters of a barrier, a latch or a future wait for has come.
Open ==
    \/ obj.class \in {"Barrier", "CountDownLatch"} /\ obj.count = 0
    \/ obj.class = "Future" /\ obj.ready

\* Once it has, nobody is parked, and nobody who is still on its way to the
\* condition's queue will get there: notify_all took them all, those between
\* the unlock in wait and post_switch included.
NobodyLeftParked ==
    Open => /\ waiting[cv] = <<>>
            /\ \A x \in Thread :
                 x \in Range(prev) /\ action[x] = "Wait" => Awake(x)

\* Every call returns, every thread ends and the machine powers off.
EverybodyDone == <>halted
=============================================================================
