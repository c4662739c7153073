------------------------------ MODULE Threads ------------------------------
(***************************************************************************)
(* Kernel threads of p7: the TCBs, the ready and the reaper queue, the     *)
(* context switch with its deferred ("post switch") work, and condition    *)
(* variables (kernel/thread.cc, kernel/thread.h, kernel/condition.h and    *)
(* context_switch_ of kernel/machine.S).                                   *)
(*                                                                         *)
(* A context is the idle thread of a core, named like its core, or a TCB   *)
(* of the heap.  Preemption is off (Pit::init_core returns before it       *)
(* starts the timer), so a core leaves a context only in yield, stop and   *)
(* Condition::wait.  One step is one critical section or one atomic        *)
(* operation of one core; steps of different cores interleave freely.      *)
(* Modules LinkedQueue and SpinLock justify treating a queue operation as  *)
(* one step.                                                               *)
(*                                                                         *)
(* prev[c] # Null says that core c has just switched and still has to run  *)
(* prev[c]->post_switch(); waitOn[x] # Null that x is in Condition::wait,  *)
(* between the unlock and the removal of the next ready thread; woken[x]   *)
(* is what x still has to move to the ready queue in notify_one or         *)
(* notify_all; victim[x] is the TCB that x is deallocating in reap.        *)
(*                                                                         *)
(* What threads do between these operations is left open: ClientStep is    *)
(* the most general client.  The modules of the blocking primitives        *)
(* restrict it to the code of the primitive.                               *)
(***************************************************************************)
EXTENDS Naturals, Sequences, FiniteSets, Functions

CONSTANTS
    Core,       \* the cores; core c is also the name of its idle thread
    Thread,     \* the TCBs the heap can hand out
    Cond,       \* the condition variables
    Bsp,        \* the core with lapic_id 0, which creates the first thread
    Null,       \* nullptr
    MaxEpoch,   \* bound on the epoch of a condition, to keep runs finite
    MaxActive   \* bound on n_active, to keep runs finite

ASSUME ThreadsAssumption ==
    /\ IsFiniteSet(Core) /\ IsFiniteSet(Thread)
    /\ Bsp \in Core
    /\ Core \cap Thread = {}
    /\ Null \notin Core \cup Thread \cup Cond
    /\ MaxEpoch \in Nat
    /\ MaxActive \in Nat

VARIABLES
    current,    \* the context each core runs (fs base)
    prev,       \* the context each core must still post_switch, or Null
    pc,         \* where a context is in thread.cc
    ready,      \* readyQueue
    reaper,     \* reaperQueue
    waiting,    \* Condition::waiting
    epoch,      \* Condition::epoch
    action,     \* TCB::action
    cond,       \* TCB::cond (and cond_lock)
    condEpoch,  \* TCB::cond_epoch
    dpc,        \* TCB::disable_preemption_count
    waitOn,     \* the condition a context is about to wait on
    woken,      \* threads a notifier took off a condition's queue
    victim,     \* the TCB a context is deallocating
    nActive,    \* n_active
    rsp0,       \* whose kernel stack tss.rsp0 of a core points to
    halted      \* shutdown has been called

threadVars == <<current, prev, pc, ready, reaper, waiting, epoch, action, cond,
                condEpoch, dpc, waitOn, woken, victim, nActive, rsp0, halted>>

Ctx == Core \cup Thread

Action == {"Ready", "Stop", "Wait", "None"}

\* A TCB is free, in the reap() of entry(), in its work, in the reap() of
\* make_thread() or past Thread::stop(); an idle thread boots ("start"), goes
\* through make_thread() on the first core, and ends in event_loop().
ThreadPc == {"free", "entry_reap", "body", "mk_reap", "mk_alloc", "stopped"}
IdlePc   == {"start", "mk_reap", "mk_alloc", "booted", "loop_reap", "loop_get"}

ThreadsTypeOK ==
    /\ current \in [Core -> Ctx]
    /\ prev \in [Core -> Ctx \cup {Null}]
    /\ pc \in [Ctx -> ThreadPc \cup IdlePc]
    /\ \A c \in Core : pc[c] \in IdlePc
    /\ \A t \in Thread : pc[t] \in ThreadPc
    /\ ready \in Seq(Thread)
    /\ reaper \in Seq(Thread)
    /\ waiting \in [Cond -> Seq(Thread)]
    /\ epoch \in [Cond -> Nat]
    /\ action \in [Ctx -> Action]
    /\ cond \in [Thread -> Cond \cup {Null}]
    /\ condEpoch \in [Thread -> Nat]
    /\ dpc \in [Ctx -> Nat]
    /\ waitOn \in [Ctx -> Cond \cup {Null}]
    /\ woken \in [Ctx -> Seq(Thread)]
    /\ victim \in [Ctx -> Thread \cup {Null}]
    /\ nActive \in Nat
    /\ rsp0 \in [Core -> Thread \cup {Null}]
    /\ halted \in BOOLEAN

\* Every core is in core_main(), on its idle thread, just after bootstrap():
\* TCB::alloc gives a disable_preemption_count of 1.
ThreadsInit ==
    /\ current = [c \in Core |-> c]
    /\ prev = [c \in Core |-> Null]
    /\ pc = [x \in Ctx |-> IF x \in Core THEN "start" ELSE "free"]
    /\ ready = <<>>
    /\ reaper = <<>>
    /\ waiting = [cd \in Cond |-> <<>>]
    /\ epoch = [cd \in Cond |-> 0]
    /\ action = [x \in Ctx |-> "None"]
    /\ cond = [t \in Thread |-> Null]
    /\ condEpoch = [t \in Thread |-> 0]
    /\ dpc = [x \in Ctx |-> 1]
    /\ waitOn = [x \in Ctx |-> Null]
    /\ woken = [x \in Ctx |-> <<>>]
    /\ victim = [x \in Ctx |-> Null]
    /\ nActive = 0
    /\ rsp0 = [c \in Core |-> Null]
    /\ halted = FALSE

-----------------------------------------------------------------------------
\* The context core c executes, and that it is not inside wait, notify or
\* post_switch.
Me(c) == current[c]
Free(c) ==
    /\ ~halted
    /\ prev[c] = Null
    /\ waitOn[Me(c)] = Null
    /\ woken[Me(c)] = <<>>

\* disable_preemption and enable_preemption of context x.
\* Seeded fault: the count is not raised.
DisableForgotten(x) == UNCHANGED dpc

Disable(x) == dpc' = [dpc EXCEPT ![x] = @ + 1]
Enable(x)  == dpc' = [dpc EXCEPT ![x] = @ - 1]

\* n_active.add_fetch(1)
\* Seeded fault: a flag in place of a counter.
ActivateFlag == nActive' = 1

Activate == nActive' = nActive + 1

\* context_switch_: core c saves the context it runs and continues in next.
\* The caller's stack is not in use any more once post_switch runs.
Switch(c, next) ==
    /\ current' = [current EXCEPT ![c] = next]
    /\ prev' = [prev EXCEPT ![c] = Me(c)]

\* The first lines of post_switch: a thread's kernel stack goes to the TSS.
\* Seeded fault: only a thread that starts sets it.
SetRsp0AtStart(c) ==
    rsp0' = IF Me(c) \in Thread /\ pc[Me(c)] = "entry_reap"
            THEN [rsp0 EXCEPT ![c] = Me(c)] ELSE rsp0

SetRsp0(c) ==
    rsp0' = IF Me(c) \in Thread THEN [rsp0 EXCEPT ![c] = Me(c)] ELSE rsp0

\* The condition p waits on was notified after p looked at its epoch.
\* Seeded fault: no comparison of epochs.
NeverNotified(p) == FALSE

Notified(p) == epoch[cond[p]] # condEpoch[p]

\* TCB::post_switch, run by the new context for the one that was left.  The
\* lock of the condition is held while its epoch is compared and the thread
\* is put on its queue.
PostSwitch(c) ==
    LET p == prev[c] IN
    /\ ~halted
    /\ p # Null
    /\ SetRsp0(c)
    /\ \/ /\ action[p] = "Ready"
          /\ ready' = Append(ready, p)
          /\ UNCHANGED <<reaper, waiting>>
       \/ /\ action[p] = "Stop"
          /\ reaper' = Append(reaper, p)
          /\ UNCHANGED <<ready, waiting>>
       \/ /\ action[p] = "Wait"
          /\ ~Notified(p)
          /\ waiting' = [waiting EXCEPT ![cond[p]] = Append(@, p)]
          /\ UNCHANGED <<ready, reaper>>
       \/ /\ action[p] = "Wait"
          /\ Notified(p)
          /\ ready' = Append(ready, p)
          /\ UNCHANGED <<reaper, waiting>>
       \/ /\ action[p] = "None"
          /\ UNCHANGED <<ready, reaper, waiting>>
    /\ prev' = [prev EXCEPT ![c] = Null]
    /\ Enable(Me(c))
    /\ UNCHANGED <<current, pc, epoch, action, cond, condEpoch, waitOn, woken,
                   victim, nActive, halted>>

\* reap(): one TCB is taken off the reaper queue ...
Reaping == {"entry_reap", "mk_reap", "loop_reap"}

ReapRemove(c) ==
    /\ Free(c)
    /\ pc[Me(c)] \in Reaping
    /\ victim[Me(c)] = Null
    /\ reaper # <<>>
    /\ reaper' = Tail(reaper)
    /\ victim' = [victim EXCEPT ![Me(c)] = Head(reaper)]
    /\ UNCHANGED <<current, prev, pc, ready, waiting, epoch, action, cond,
                   condEpoch, dpc, waitOn, woken, nActive, rsp0, halted>>

\* ... returned to the heap and no longer counted; the last one powers off ...
ReapFree(c) ==
    /\ Free(c)
    /\ victim[Me(c)] # Null
    /\ pc' = [pc EXCEPT ![victim[Me(c)]] = "free"]
    /\ victim' = [victim EXCEPT ![Me(c)] = Null]
    /\ nActive' = nActive - 1
    /\ halted' = (nActive = 1)
    /\ UNCHANGED <<current, prev, ready, reaper, waiting, epoch, action, cond,
                   condEpoch, dpc, waitOn, woken, rsp0>>

\* ... until the queue is empty and the caller goes on.
AfterReap(p) ==
    CASE p = "entry_reap" -> "body"
      [] p = "mk_reap"    -> "mk_alloc"
      [] p = "loop_reap"  -> "loop_get"

ReapDone(c) ==
    /\ Free(c)
    /\ pc[Me(c)] \in Reaping
    /\ victim[Me(c)] = Null
    /\ reaper = <<>>
    /\ pc' = [pc EXCEPT ![Me(c)] = AfterReap(@)]
    /\ UNCHANGED <<current, prev, ready, reaper, waiting, epoch, action, cond,
                   condEpoch, dpc, waitOn, woken, victim, nActive, rsp0, halted>>

\* The rest of make_thread: a TCB with a fresh stack that will start in entry()
\* and with a disable_preemption_count of 1 goes to the ready queue.  action,
\* cond and cond_epoch keep whatever the memory held.
MakeThreadAdd(c, t) ==
    /\ Free(c)
    /\ pc[Me(c)] = "mk_alloc"
    /\ pc[t] = "free"
    /\ pc' = [pc EXCEPT ![t] = "entry_reap",
                        ![Me(c)] = IF Me(c) \in Core THEN "booted" ELSE "body"]
    /\ dpc' = [dpc EXCEPT ![t] = 1]
    /\ ready' = Append(ready, t)
    /\ UNCHANGED <<current, prev, reaper, waiting, epoch, action, cond,
                   condEpoch, waitOn, woken, victim, nActive, rsp0, halted>>

\* Condition::wait after the unlock: with no other thread ready it returns to
\* its caller, which tests the condition again.
WaitReturn(c) ==
    /\ ~halted
    /\ prev[c] = Null
    /\ waitOn[Me(c)] # Null
    /\ ready = <<>>
    /\ waitOn' = [waitOn EXCEPT ![Me(c)] = Null]
    /\ Enable(Me(c))
    /\ UNCHANGED <<current, prev, pc, ready, reaper, waiting, epoch, action,
                   cond, condEpoch, woken, victim, nActive, rsp0, halted>>

\* Condition::wait after the unlock, when it finds a thread to switch to.
WaitSwitch(c) ==
    /\ ~halted
    /\ prev[c] = Null
    /\ waitOn[Me(c)] # Null
    /\ ready # <<>>
    /\ ready' = Tail(ready)
    /\ cond' = [cond EXCEPT ![Me(c)] = waitOn[Me(c)]]
    /\ action' = [action EXCEPT ![Me(c)] = "Wait"]
    /\ waitOn' = [waitOn EXCEPT ![Me(c)] = Null]
    /\ Switch(c, Head(ready))
    /\ UNCHANGED <<pc, reaper, waiting, epoch, condEpoch, dpc, woken, victim,
                   nActive, rsp0, halted>>

\* notify_one and notify_all after the unlock: the woken threads go to the
\* ready queue one at a time.
Wake(c) ==
    /\ ~halted
    /\ prev[c] = Null
    /\ woken[Me(c)] # <<>>
    /\ ready' = Append(ready, Head(woken[Me(c)]))
    /\ woken' = [woken EXCEPT ![Me(c)] = Tail(@)]
    /\ UNCHANGED <<current, prev, pc, reaper, waiting, epoch, action, cond,
                   condEpoch, dpc, waitOn, victim, nActive, rsp0, halted>>

\* core_main: a core enters event_loop(), the first one after it has created
\* the thread for kernel_main.
EnterLoop(c) ==
    /\ Free(c)
    /\ pc[Me(c)] = (IF c = Bsp THEN "booted" ELSE "start")
    /\ Me(c) = c
    /\ pc' = [pc EXCEPT ![c] = "loop_reap"]
    /\ Disable(c)
    /\ UNCHANGED <<current, prev, ready, reaper, waiting, epoch, action, cond,
                   condEpoch, waitOn, woken, victim, nActive, rsp0, halted>>

\* event_loop: the idle thread switches to a ready thread and comes back to
\* the head of its loop.
LoopSwitch(c) ==
    /\ Free(c)
    /\ pc[Me(c)] = "loop_get"
    /\ ready # <<>>
    /\ ready' = Tail(ready)
    /\ action' = [action EXCEPT ![Me(c)] = "None"]
    /\ Disable(Me(c))
    /\ pc' = [pc EXCEPT ![Me(c)] = "loop_reap"]
    /\ Switch(c, Head(ready))
    /\ UNCHANGED <<reaper, waiting, epoch, cond, condEpoch, waitOn, woken,
                   victim, nActive, rsp0, halted>>

\* event_loop: nothing is ready, the core pauses and looks again.
LoopIdle(c) ==
    /\ Free(c)
    /\ pc[Me(c)] = "loop_get"
    /\ ready = <<>>
    /\ pc' = [pc EXCEPT ![Me(c)] = "loop_reap"]
    /\ UNCHANGED <<current, prev, ready, reaper, waiting, epoch, action, cond,
                   condEpoch, dpc, waitOn, woken, victim, nActive, rsp0, halted>>

KernelStep(c) ==
    \/ PostSwitch(c)
    \/ ReapRemove(c)
    \/ ReapFree(c)
    \/ ReapDone(c)
    \/ \E t \in Thread : MakeThreadAdd(c, t)
    \/ WaitReturn(c)
    \/ WaitSwitch(c)
    \/ Wake(c)
    \/ EnterLoop(c)
    \/ LoopSwitch(c)
    \/ LoopIdle(c)

-----------------------------------------------------------------------------
(***************************************************************************)
(* The operations a client calls.                                          *)
(***************************************************************************)

\* Core c is in a place where the code may call a blocking primitive: in the
\* work of a thread, while booting, or in the heap below reap() and alloc().
InClient(c) ==
    Free(c) /\ pc[Me(c)] \in {"body", "start", "booted", "mk_alloc"} \cup Reaping

\* Core c runs the work of a thread.
InBody(c) == Free(c) /\ pc[Me(c)] = "body"

\* make_thread counts the new thread before anything else.
MakeThread(c) ==
    /\ Free(c)
    /\ \/ pc[Me(c)] = "body"
       \/ Me(c) = Bsp /\ pc[Bsp] = "start"
    /\ nActive < MaxActive
    /\ Activate
    /\ pc' = [pc EXCEPT ![Me(c)] = "mk_reap"]
    /\ UNCHANGED <<current, prev, ready, reaper, waiting, epoch, action, cond,
                   condEpoch, dpc, waitOn, woken, victim, rsp0, halted>>

\* Thread::yield; with nobody ready it returns at once.
\* Seeded fault: the thread is made ready before its context is saved.
YieldReadyFirst(c) ==
    /\ InBody(c)
    /\ ready # <<>>
    /\ ready' = Append(Tail(ready), Me(c))
    /\ action' = [action EXCEPT ![Me(c)] = "None"]
    /\ Disable(Me(c))
    /\ Switch(c, Head(ready))
    /\ UNCHANGED <<pc, reaper, waiting, epoch, cond, condEpoch, waitOn, woken,
                   victim, nActive, rsp0, halted>>

Yield(c) ==
    /\ InBody(c)
    /\ ready # <<>>
    /\ ready' = Tail(ready)
    /\ action' = [action EXCEPT ![Me(c)] = "Ready"]
    /\ Disable(Me(c))
    /\ Switch(c, Head(ready))
    /\ UNCHANGED <<pc, reaper, waiting, epoch, cond, condEpoch, waitOn, woken,
                   victim, nActive, rsp0, halted>>

\* Thread::stop, the end of every thread: to a ready thread or to the idle
\* thread of the core.
Stop(c) ==
    /\ InBody(c)
    /\ action' = [action EXCEPT ![Me(c)] = "Stop"]
    /\ Disable(Me(c))
    /\ pc' = [pc EXCEPT ![Me(c)] = "stopped"]
    /\ IF ready = <<>>
       THEN Switch(c, c) /\ UNCHANGED ready
       ELSE Switch(c, Head(ready)) /\ ready' = Tail(ready)
    /\ UNCHANGED <<reaper, waiting, epoch, cond, condEpoch, waitOn, woken,
                   victim, nActive, rsp0, halted>>

\* Condition::wait up to the unlock of the caller's lock.  An idle thread only
\* unlocks, pauses and locks again, which changes nothing here.
Wait(c, cd) ==
    /\ InClient(c)
    /\ Me(c) \in Thread
    /\ condEpoch' = [condEpoch EXCEPT ![Me(c)] = epoch[cd]]
    /\ Disable(Me(c))
    /\ waitOn' = [waitOn EXCEPT ![Me(c)] = cd]
    /\ UNCHANGED <<current, prev, pc, ready, reaper, waiting, epoch, action,
                   cond, woken, victim, nActive, rsp0, halted>>

\* Condition::notify_one up to the unlock.
NotifyOne(c, cd) ==
    /\ InClient(c)
    /\ epoch[cd] < MaxEpoch
    /\ epoch' = [epoch EXCEPT ![cd] = @ + 1]
    /\ IF waiting[cd] = <<>>
       THEN UNCHANGED <<waiting, woken>>
       ELSE /\ waiting' = [waiting EXCEPT ![cd] = Tail(@)]
            /\ woken' = [woken EXCEPT ![Me(c)] = <<Head(waiting[cd])>>]
    /\ UNCHANGED <<current, prev, pc, ready, reaper, action, cond, condEpoch,
                   dpc, waitOn, victim, nActive, rsp0, halted>>

\* Condition::notify_all up to the unlock.
NotifyAll(c, cd) ==
    /\ InClient(c)
    /\ epoch[cd] < MaxEpoch
    /\ epoch' = [epoch EXCEPT ![cd] = @ + 1]
    /\ waiting' = [waiting EXCEPT ![cd] = <<>>]
    /\ woken' = [woken EXCEPT ![Me(c)] = waiting[cd]]
    /\ UNCHANGED <<current, prev, pc, ready, reaper, action, cond, condEpoch,
                   dpc, waitOn, victim, nActive, rsp0, halted>>

ClientStep(c) ==
    \/ MakeThread(c)
    \/ Yield(c)
    \/ Stop(c)
    \/ \E cd \in Cond : Wait(c, cd) \/ NotifyOne(c, cd) \/ NotifyAll(c, cd)

\* shutdown() never returns.
PowerOff == halted /\ UNCHANGED threadVars

ThreadsNext ==
    \/ \E c \in Core : KernelStep(c) \/ ClientStep(c)
    \/ PowerOff

ThreadsSpec == ThreadsInit /\ [][ThreadsNext]_threadVars

-----------------------------------------------------------------------------
(***************************************************************************)
(* Properties.                                                             *)
(***************************************************************************)

\* Everything that holds a pointer to TCB t and will use it.
Places(t) ==
    {<<"current", c>> : c \in {c \in Core : current[c] = t}}
        \cup {<<"prev", c>> : c \in {c \in Core : prev[c] = t}}
        \cup {<<"waiting", cd>> : cd \in {cd \in Cond : t \in Range(waiting[cd])}}
        \cup {<<"woken", x>> : x \in {x \in Ctx : t \in Range(woken[x])}}
        \cup {<<"victim", x>> : x \in {x \in Ctx : victim[x] = t}}
        \cup {<<"ready">> : i \in {i \in {1} : t \in Range(ready)}}
        \cup {<<"reaper">> : i \in {i \in {1} : t \in Range(reaper)}}

\* A TCB is never lost and never in two hands: a live one runs on exactly one
\* core, or waits for one core's post_switch, or is linked once in one queue,
\* or is carried by one notifier or one reaper; a freed one is referenced by
\* nobody.  This is what the deferred post_switch action is for: no core may
\* run a thread whose stack another core has not left yet.
ExactlyOnePlace ==
    /\ \A t \in Thread :
          IF pc[t] = "free" THEN Places(t) = {} ELSE Cardinality(Places(t)) = 1
    /\ IsInjective(ready) /\ IsInjective(reaper)
    /\ \A cd \in Cond : IsInjective(waiting[cd])
    /\ \A x \in Ctx : IsInjective(woken[x])

\* tss.rsp0, where a system call or an interrupt from user mode pushes its
\* frame, belongs to the thread the core runs, however the thread came there:
\* from its start, from yield, from wait, after migrating between cores.
KernelStack ==
    \A c \in Core : current[c] \in Thread /\ prev[c] = Null => rsp0[c] = current[c]

\* The assertions in post_switch, enable_preemption, yield, event_loop and
\* Condition::wait hold, and the disable_preemption_count is back at 0 whenever
\* a thread runs its own code (the assertion of Thread::sleep).
AssertionsHold ==
    \A c \in Core :
      LET x == current[c]  p == prev[c] IN
      /\ p # Null =>
           /\ (action[p] = "None") = (p \in Core)
           /\ action[p] = "Wait" => cond[p] # Null
           /\ dpc[x] > 0
           /\ p # x
      /\ x \in Thread =>
           dpc[x] = IF prev[c] # Null \/ waitOn[x] # Null THEN 1 ELSE 0
      /\ pc[c] \in {"loop_reap", "loop_get"} => dpc[c] >= 2

\* The machine is powered off only when no thread is left and nobody is about
\* to create one.
ShutdownSound ==
    halted =>
      /\ nActive = 0
      /\ \A t \in Thread : pc[t] = "free"
      /\ \A c \in Core : pc[c] \notin {"mk_reap", "mk_alloc"}
=============================================================================
