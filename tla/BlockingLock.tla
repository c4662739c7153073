---------------------------- MODULE BlockingLock ----------------------------
(***************************************************************************)
(* BlockingLock (kernel/blocking_lock.h).  Every context takes the lock    *)
(* once: idle threads while they boot (KPRINT), threads in their work,     *)
(* where the holder may yield.                                             *)
(***************************************************************************)
EXTENDS Workers

BLInit ==
    /\ obj = [class |-> "BlockingLock", locked |-> FALSE]
    /\ at = [x \in Ctx |-> "out"]

\* lock(): the flag is tested under the spin lock, first on entry and again
\* after every return of wait.
Lock(c) ==
    /\ CanCall(c, "out")
    /\ ~obj.locked
    /\ obj' = [obj EXCEPT !.locked = TRUE]
    /\ Goto(c, "in")
    /\ UNCHANGED <<threadVars, todo>>

\* lock() while the flag is set.  An idle thread just keeps trying.
\* Seeded fault: "if" in place of "while".
LockWaitOnce(c) ==
    /\ CanCall(c, "out")
    /\ obj.locked
    /\ Wait(c, cv)
    /\ Goto(c, "in")
    /\ UNCHANGED <<obj, todo>>

LockWait(c) ==
    /\ CanCall(c, "out")
    /\ obj.locked
    /\ Wait(c, cv)
    /\ UNCHANGED <<obj, at, todo>>

\* unlock()
Unlock(c) ==
    /\ CanCall(c, "in")
    /\ obj' = [obj EXCEPT !.locked = FALSE]
    /\ NotifyOne(c, cv)
    /\ Goto(c, "done")
    /\ UNCHANGED todo

BLStep(c) == obj.class = "BlockingLock" /\ (Lock(c) \/ LockWait(c) \/ Unlock(c))

-----------------------------------------------------------------------------
\* At most one context is between lock() and unlock(), whether it blocked,
\* spun as an idle thread or was switched out inside; and the flag says so.
MutualExclusion ==
    obj.class = "BlockingLock" =>
      /\ \A x, y \in Ctx : at[x] = "in" /\ at[y] = "in" => x = y
      /\ obj.locked = \E x \in Ctx : at[x] = "in"

\* No wake-up is lost: whenever the lock is free and threads are parked on
\* not_locked, some contender is certain to run and to try again.
NoLostWakeup ==
    obj.class = "BlockingLock" /\ ~obj.locked /\ waiting[cv] # <<>> =>
      \E x \in Ctx : at[x] = "out" /\ Awake(x)
=============================================================================
