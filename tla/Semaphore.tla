----------------------------- MODULE Semaphore -----------------------------
(***************************************************************************)
(* Semaphore (kernel/semaphore.h).  Every thread makes two calls: down()   *)
(* and up() in either order, or up() twice.  It may yield in between.      *)
(***************************************************************************)
EXTENDS Workers

CONSTANT N      \* the semaphore's initial count
ASSUME SemaphoreAssumption == N \in Nat

SemInit ==
    /\ obj = [class |-> "Semaphore", count |-> N]
    /\ at = [x \in Ctx |-> IF x \in Core THEN "done" ELSE "out"]

\* A thread has called nothing ("out"), only down() ("held") or only up()
\* ("upped"), or is inside down() as its first or second call.
BeforeDown == {"out", "upped", "down1", "down2"}
BeforeUp   == {"out", "upped", "held"}
AfterDown(p)  == IF p \in {"out", "down1"} THEN "held" ELSE "done"
InsideDown(p) == IF p \in {"out", "down1"} THEN "down1" ELSE "down2"
AfterUp(p)    == IF p = "out" THEN "upped" ELSE "done"

\* down(): the count is tested and taken under the spin lock.
Down(c) == \E p \in BeforeDown :
    /\ CanCall(c, p)
    /\ obj.count # 0
    /\ obj' = [obj EXCEPT !.count = @ - 1]
    /\ Goto(c, AfterDown(p))
    /\ UNCHANGED <<threadVars, todo>>

DownWait(c) == \E p \in BeforeDown :
    /\ CanCall(c, p)
    /\ obj.count = 0
    /\ Wait(c, cv)
    /\ Goto(c, InsideDown(p))
    /\ UNCHANGED <<obj, todo>>

\* up()
\* Seeded fault: only the transition from zero notifies.
UpNotifyAtZero(c) == \E p \in BeforeUp :
    /\ CanCall(c, p)
    /\ obj' = [obj EXCEPT !.count = @ + 1]
    /\ IF obj.count = 0 THEN NotifyOne(c, cv) ELSE UNCHANGED threadVars
    /\ Goto(c, AfterUp(p))
    /\ UNCHANGED todo

Up(c) == \E p \in BeforeUp :
    /\ CanCall(c, p)
    /\ obj' = [obj EXCEPT !.count = @ + 1]
    /\ NotifyOne(c, cv)
    /\ Goto(c, AfterUp(p))
    /\ UNCHANGED todo

SemStep(c) == obj.class = "Semaphore" /\ (Down(c) \/ DownWait(c) \/ Up(c))

-----------------------------------------------------------------------------
\* No wake-up is lost: while threads are parked on not_zero, there are at
\* least as many threads inside down() and certain to run, and to test the
\* count again, as there are units to take.
EnoughAwake ==
    obj.class = "Semaphore" /\ waiting[cv] # <<>> =>
      obj.count <= Cardinality({x \in Thread : at[x] \in {"down1", "down2"} /\ Awake(x)})
=============================================================================
