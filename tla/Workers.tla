------------------------------ MODULE Workers ------------------------------
(***************************************************************************)
(* The frame in which the blocking primitives are checked: the machine     *)
(* boots, threads are created a bounded number of times, and each context  *)
(* goes through the calls of one primitive, recorded in at.  The calls are *)
(* in the module of the primitive, one action per critical section of its  *)
(* spin lock: the lock is held from the test of a field to the unlock in   *)
(* Condition::wait or notify.  Module Primitives puts them together.       *)
(***************************************************************************)
EXTENDS Threads

CONSTANT cv     \* the condition variable of the primitive
ASSUME WorkersAssumption == cv \in Cond

VARIABLES
    obj,    \* the primitive: a record of its class and its fields
    at,     \* where a context is in its use of the primitive
    todo    \* threads that may still be created

workerVars == <<threadVars, obj, at, todo>>

\* A booting idle thread is through with the primitive (core_main prints and
\* synchronises before it goes on).
Booted(c) == pc[Me(c)] = "start" => at[Me(c)] = "done"

\* Core c, at place p of its program, runs code that calls the primitive.
CanCall(c, p) ==
    /\ InBody(c) \/ (Free(c) /\ pc[Me(c)] = "start")
    /\ at[Me(c)] = p

Goto(c, p) == at' = [at EXCEPT ![Me(c)] = p]

\* A step of the thread system itself.
System(c) ==
    /\ KernelStep(c)
    /\ Booted(c)
    /\ UNCHANGED <<obj, at, todo>>

\* A context creates a thread.
Spawn(c) ==
    /\ MakeThread(c)
    /\ Booted(c)
    /\ todo > 0
    /\ todo' = todo - 1
    /\ UNCHANGED <<obj, at>>

\* A thread ends; its TCB may be used again.  A barrier is used once.
Finish(c) ==
    /\ Stop(c)
    /\ at[Me(c)] = "done"
    /\ IF obj.class = "Barrier" THEN UNCHANGED at ELSE Goto(c, "out")
    /\ UNCHANGED <<obj, todo>>

\* x is certain to run again without being notified: it runs, is ready, is
\* being made ready, or was switched out in yield, or in wait too late to miss
\* a notification.
Awake(x) ==
    \/ \E c \in Core : current[c] = x
    \/ x \in Range(ready)
    \/ \E y \in Ctx : x \in Range(woken[y])
    \/ \E c \in Core : /\ prev[c] = x
                       /\ \/ action[x] = "Ready"
                          \/ action[x] = "Wait" /\ epoch[cv] # condEpoch[x]
=============================================================================
