------------------------------ MODULE Barrier ------------------------------
(***************************************************************************)
(* Barrier (kernel/barrier.h).  The parties are the contexts that call     *)
(* sync() once: the idle threads of all cores when the machine boots       *)
(* (core_main, where a waiting party spins), or threads that block.  The   *)
(* field party of obj is history: the constructor only gets their number.  *)
(***************************************************************************)
EXTENDS Workers

\* at: "out" before sync(), "sync" inside it, "done" after it.
BarInit == \E party \in {Core, Thread} :
    /\ obj = [class |-> "Barrier", count |-> Cardinality(party), party |-> party]
    /\ at = [x \in Ctx |-> IF x \in party THEN "out" ELSE "done"]

\* sync() up to the test of the count: the last party notifies all.
Sync(c) ==
    /\ CanCall(c, "out")
    /\ obj' = [obj EXCEPT !.count = @ - 1]
    /\ IF obj.count = 1
       THEN NotifyAll(c, cv) /\ Goto(c, "done")
       ELSE UNCHANGED threadVars /\ Goto(c, "sync")
    /\ UNCHANGED todo

\* The loop of sync(): wait while the count is not zero (an idle thread only
\* unlocks, pauses and locks again), ...
\* Seeded fault: no loop around the wait.
SyncWaitOnce(c) ==
    /\ CanCall(c, "sync")
    /\ obj.count # 0
    /\ Wait(c, cv)
    /\ Goto(c, "done")
    /\ UNCHANGED <<obj, todo>>

SyncWait(c) ==
    /\ CanCall(c, "sync")
    /\ obj.count # 0
    /\ Wait(c, cv)
    /\ UNCHANGED <<obj, at, todo>>

\* ... and return once it is.
SyncDone(c) ==
    /\ CanCall(c, "sync")
    /\ obj.count = 0
    /\ Goto(c, "done")
    /\ UNCHANGED <<threadVars, obj, todo>>

BarStep(c) == obj.class = "Barrier" /\ (Sync(c) \/ SyncWait(c) \/ SyncDone(c))

-----------------------------------------------------------------------------
\* Nobody leaves sync() before everybody has entered it.
NobodyPassesEarly ==
    obj.class = "Barrier" /\ (\E x \in obj.party : at[x] = "done") =>
      \A x \in obj.party : at[x] # "out"
=============================================================================
