-------------------------- MODULE CountDownLatch --------------------------
(***************************************************************************)
(* CountDownLatch (kernel/count_down_latch.h).  Every thread either counts *)
(* itself with up() and down(), or waits for the count to become zero with *)
(* sync(); the count may go up and down several times.                     *)
(***************************************************************************)
EXTENDS Workers

LatchInit ==
    /\ obj = [class |-> "CountDownLatch", count |-> 0]
    /\ at = [x \in Ctx |-> IF x \in Core THEN "done" ELSE "out"]

\* up()
LatchUp(c) ==
    /\ CanCall(c, "out")
    /\ obj' = [obj EXCEPT !.count = @ + 1]
    /\ Goto(c, "counted")
    /\ UNCHANGED <<threadVars, todo>>

\* down()
\* Seeded fault: the last one wakes a single waiter.
LatchDownNotifyOne(c) ==
    /\ CanCall(c, "counted")
    /\ obj' = [obj EXCEPT !.count = @ - 1]
    /\ IF obj.count = 1 THEN NotifyOne(c, cv) ELSE UNCHANGED threadVars
    /\ Goto(c, "done")
    /\ UNCHANGED todo

LatchDown(c) ==
    /\ CanCall(c, "counted")
    /\ obj' = [obj EXCEPT !.count = @ - 1]
    /\ IF obj.count = 1 THEN NotifyAll(c, cv) ELSE UNCHANGED threadVars
    /\ Goto(c, "done")
    /\ UNCHANGED todo

\* sync(): one round of its loop.
LatchSyncWait(c) == \E p \in {"out", "insync"} :
    /\ CanCall(c, p)
    /\ obj.count # 0
    /\ Wait(c, cv)
    /\ Goto(c, "insync")
    /\ UNCHANGED <<obj, todo>>

LatchSyncDone(c) == \E p \in {"out", "insync"} :
    /\ CanCall(c, p)
    /\ obj.count = 0
    /\ Goto(c, "done")
    /\ UNCHANGED <<threadVars, obj, todo>>

LatchStep(c) ==
    /\ obj.class = "CountDownLatch"
    /\ LatchUp(c) \/ LatchDown(c) \/ LatchSyncWait(c) \/ LatchSyncDone(c)
=============================================================================
