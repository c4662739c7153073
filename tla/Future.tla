------------------------------- MODULE Future -------------------------------
(***************************************************************************)
(* Future (kernel/future.h).  One thread calls set(), the others get().    *)
(* The value is data; get reads it after its unlock, when nobody sets it   *)
(* any more.                                                               *)
(***************************************************************************)
EXTENDS Workers

FutureInit == \E t \in Thread :
    /\ obj = [class |-> "Future", ready |-> FALSE]
    /\ at = [x \in Ctx |-> CASE x \in Core -> "done"
                             [] x = t      -> "setter"
                             [] OTHER      -> "out"]

\* set()
FutureSet(c) ==
    /\ CanCall(c, "setter")
    /\ obj' = [obj EXCEPT !.ready = TRUE]
    /\ NotifyAll(c, cv)
    /\ Goto(c, "done")
    /\ UNCHANGED todo

\* get(): one round of its loop.
FutureWait(c) ==
    /\ CanCall(c, "out")
    /\ ~obj.ready
    /\ Wait(c, cv)
    /\ UNCHANGED <<obj, at, todo>>

FutureGet(c) ==
    /\ CanCall(c, "out")
    /\ obj.ready
    /\ Goto(c, "done")
    /\ UNCHANGED <<threadVars, obj, todo>>

FutureStep(c) ==
    obj.class = "Future" /\ (FutureSet(c) \/ FutureWait(c) \/ FutureGet(c))
=============================================================================
