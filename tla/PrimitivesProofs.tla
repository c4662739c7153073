-------------------------- MODULE PrimitivesProofs --------------------------
(***************************************************************************)
(* The blocking primitives are correct for every number of cores and       *)
(* threads, on top of what ThreadsProofs shows of the thread system.       *)
(***************************************************************************)
EXTENDS Primitives, ThreadsProofs

\* x has unlocked in Condition::wait and is on its way to the queue of cv.
Going(x) == waitOn[x] # Null \/ \E c \in Core : prev[c] = x /\ action[x] = "Wait"

\* x was taken off the queue by a notifier that has not made it ready yet.
Taken(x) == \E y \in Ctx : x \in Range(woken[y])

\* The test on which the primitive calls wait.
MustWait ==
    \/ obj.class = "BlockingLock" /\ obj.locked
    \/ obj.class = "Semaphore" /\ obj.count = 0
    \/ obj.class \in {"Barrier", "CountDownLatch"} /\ obj.count # 0
    \/ obj.class = "Future" /\ ~obj.ready

\* Where in the primitive's code wait is called.
InsideAt ==
    {p \in {"out", "down1", "down2", "sync", "insync"} :
       \/ obj.class \in {"BlockingLock", "Future"} /\ p = "out"
       \/ obj.class = "Semaphore" /\ p \in {"down1", "down2"}
       \/ obj.class = "Barrier" /\ p = "sync"
       \/ obj.class = "CountDownLatch" /\ p = "insync"}

\* No other condition is in use.
CondInv ==
    /\ \A x \in Thread : waitOn[x] \in {Null, cv}
    /\ \A c \in Core : prev[c] \in Thread /\ action[prev[c]] = "Wait" => cond[prev[c]] = cv

\* Who is inside wait is inside the primitive's loop, and has an old epoch
\* unless the reason to wait still holds.
WaitInv ==
    /\ \A x \in Thread :
         Going(x) \/ Taken(x) \/ x \in Range(waiting[cv]) => at[x] \in InsideAt
    /\ \A x \in Thread :
         Going(x) => /\ condEpoch[x] <= epoch[cv]
                     /\ condEpoch[x] = epoch[cv] => MustWait

\* An idle thread is through with the primitive when it leaves core_main.
IdleInv == \A c \in Core : at[c] = "done" \/ pc[c] = "start"

\* The parties that have not called sync() are counted; nobody passes while
\* there are any.
BarrierInv ==
    obj.class = "Barrier" =>
      /\ obj.count = Cardinality({x \in obj.party : at[x] = "out"})
      /\ obj.count # 0 => \A x \in obj.party : at[x] # "done"
      /\ \A x \in Ctx \ obj.party : at[x] = "done"

\* The count of a latch is the number of threads between up() and down().
LatchInv ==
    obj.class = "CountDownLatch" =>
      obj.count = Cardinality({x \in Ctx : at[x] = "counted"})

\* Nobody is parked on a barrier, a latch or a future that is open.
ParkInv ==
    obj.class \in {"Barrier", "CountDownLatch", "Future"} /\ waiting[cv] # <<>> => MustWait

PrimInv ==
    /\ ThreadsInv
    /\ PrimTypeOK
    /\ CondInv
    /\ WaitInv
    /\ IdleInv
    /\ BarrierInv
    /\ LatchInv
    /\ ParkInv
    /\ MutualExclusion
    /\ NoLostWakeup
    /\ EnoughAwake
-----------------------------------------------------------------------------
(***************************************************************************)
(* What the steps of the thread system mean for the waiters.               *)
(***************************************************************************)

\* x is on its way to the queue, and nobody has notified since it looked.
Missed(x) == Going(x) /\ condEpoch[x] = epoch[cv]

\* A step in which nobody waits or notifies: a thread enters wait or leaves the
\* queue only in a call, gets into the queue only if it saw the present epoch, and
\* stays awake unless it is about to park or is through with the primitive.
Quiet ==
    /\ UNCHANGED <<epoch, condEpoch>>
    /\ CondInv'
    /\ \A x \in Thread :
         /\ Going(x)' => Going(x)
         /\ Taken(x)' => Taken(x)
         /\ x \in Range(waiting'[cv]) => x \in Range(waiting[cv]) \/ Missed(x)
         /\ Awake(x) => Awake(x)' \/ Missed(x) \/ at[x] = "done"

\* Steps that move no thread.
LEMMA LocalQuiet ==
    ASSUME CondInv,
           UNCHANGED <<current, prev, ready, waiting, woken, action, cond, waitOn,
                       epoch, condEpoch>>
    PROVE  Quiet
  BY DEF Quiet, CondInv, Going, Taken, Awake, Missed

\* A thread in ready goes on to be ready when the queue grows.
LEMMA ReadyQuiet ==
    ASSUME ThreadsInv, CondInv, NEW t \in Thread, ready' = Append(ready, t),
           UNCHANGED <<current, prev, waiting, woken, action, cond, waitOn, epoch, condEpoch>>
    PROVE  Quiet
  <1>1. Range(ready') = Range(ready) \cup {t}
    BY AppendFacts DEF ThreadsInv, ThreadsTypeOK
  <1> QED BY <1>1 DEF Quiet, CondInv, Going, Taken, Awake, Missed

\* Condition::wait returns because nobody is ready.
LEMMA WaitReturnQuiet ==
    ASSUME ThreadsInv, CondInv, NEW c \in Core, WaitReturn(c)
    PROVE  Quiet
  <1>1. PICK me \in Ctx : me = current[c]
    BY DEF ThreadsInv, ThreadsTypeOK
  <1>2. /\ waitOn' = [waitOn EXCEPT ![me] = Null]
        /\ UNCHANGED <<current, prev, ready, waiting, woken, action, cond, epoch, condEpoch>>
    BY <1>1 DEF WaitReturn, Me
  <1>3. \A x \in Thread : waitOn'[x] = waitOn[x] \/ waitOn'[x] = Null
    BY <1>2, Names DEF ThreadsInv, ThreadsTypeOK
  <1> QED BY <1>2, <1>3 DEF Quiet, CondInv, Going, Taken, Awake, Missed

\* A notifier makes a thread it has taken off the queue ready.
LEMMA WakeQuiet ==
    ASSUME ThreadsInv, CondInv, NEW c \in Core, Wake(c)
    PROVE  Quiet
  <1>1. PICK me \in Ctx : me = current[c]
    BY DEF ThreadsInv, ThreadsTypeOK
  <1>2. /\ woken[me] # <<>> /\ ready' = Append(ready, Head(woken[me]))
        /\ woken' = [woken EXCEPT ![me] = Tail(@)]
        /\ UNCHANGED <<current, prev, waiting, action, cond, waitOn, epoch, condEpoch>>
    BY <1>1 DEF Wake, Me
  <1>3. /\ woken[me] \in Seq(Thread) /\ IsInjective(woken[me]) /\ ready \in Seq(Thread)
        /\ woken \in [Ctx -> Seq(Thread)]
    BY DEF ThreadsInv, ThreadsTypeOK, QueueInv
  <1>4. /\ Head(woken[me]) \in Thread
        /\ Range(Tail(woken[me])) = Range(woken[me]) \ {Head(woken[me])}
    BY <1>2, <1>3, TailFacts
  <1>5. Range(ready') = Range(ready) \cup {Head(woken[me])}
    BY <1>2, <1>3, <1>4, AppendFacts
  <1>6. ASSUME NEW x \in Thread
        PROVE  /\ Taken(x)' => Taken(x)
               /\ Taken(x) => Taken(x)' \/ x \in Range(ready')
    <2>1. \A y \in Ctx : Range(woken'[y]) =
                           IF y = me THEN Range(woken[y]) \ {Head(woken[me])} ELSE Range(woken[y])
      BY <1>2, <1>3, <1>4
    <2> QED BY <1>5, <2>1 DEF Taken
  <1>7. ASSUME NEW x \in Thread, Awake(x) PROVE Awake(x)'
    <2>1. Taken(x) => Awake(x)'
      BY <1>6 DEF Taken, Awake
    <2>2. ~Taken(x) => Awake(x)'
      BY <1>2, <1>5, <1>7 DEF Taken, Awake
    <2> QED BY <2>1, <2>2
  <1> QED BY <1>2, <1>6, <1>7 DEF Quiet, CondInv, Going, Missed

\* Core c switches from me to h: me is left in yield, in stop, in wait or in the
\* event loop.
LEMMA SwitchQuiet ==
    ASSUME ThreadsInv, CondInv, NEW c \in Core, NEW me \in Ctx, NEW h \in Ctx,
           me = current[c], prev[c] = Null,
           current' = [current EXCEPT ![c] = h],
           prev' = [prev EXCEPT ![c] = me],
           \/ h = c /\ ready' = ready
           \/ ready # <<>> /\ h = Head(ready) /\ ready' = Tail(ready),
           UNCHANGED <<waiting, woken, epoch, condEpoch>>,
           \A y \in Ctx \ {me} : action'[y] = action[y] /\ waitOn'[y] = waitOn[y],
           \A y \in Thread \ {me} : cond'[y] = cond[y],
           waitOn'[me] = Null,
           me \in Thread => \/ action'[me] = "Ready"
                            \/ action'[me] = "Stop" /\ at[me] = "done"
                            \/ action'[me] = "Wait" /\ waitOn[me] # Null /\ cond'[me] = cv
    PROVE  Quiet
  <1>1. current \in [Core -> Ctx] /\ prev \in [Core -> Ctx \cup {Null}]
    BY DEF ThreadsInv, ThreadsTypeOK
  <1>2. \A x \in Thread : x \in Range(ready) => x \in Range(ready') \/ x = h
    BY FromReady DEF ThreadsInv, ThreadsTypeOK
  <1>3. /\ current'[c] = h /\ prev'[c] = me
        /\ \A d \in Core \ {c} : current'[d] = current[d] /\ prev'[d] = prev[d]
    BY <1>1
  <1>4. me \in Thread => PlacedAt(me, "current", c)
    BY Running
  <1>5. \A d \in Core : me \in Thread => prev[d] # me
    BY <1>4 DEF PlacedAt
  <1>6. CondInv'
    <2>1. \A x \in Thread : waitOn'[x] \in {Null, cv}
      BY Names DEF CondInv
    <2>2. ASSUME NEW d \in Core, prev'[d] \in Thread, action'[prev'[d]] = "Wait"
          PROVE  cond'[prev'[d]] = cv
      <3>1. CASE d = c
        BY <1>3, <2>2, <3>1
      <3>2. CASE d # c
        <4>1. prev'[d] = prev[d] /\ prev[d] \in Thread /\ prev[d] # me
          BY <1>3, <1>5, <2>2, <3>2
        <4>2. action[prev[d]] = "Wait" /\ cond'[prev[d]] = cond[prev[d]]
          BY <2>2, <4>1, Names
        <4> QED BY <4>1, <4>2 DEF CondInv
      <3> QED BY <3>1, <3>2
    <2> QED BY <2>1, <2>2 DEF CondInv
  <1>7. ASSUME NEW x \in Thread PROVE Going(x)' => Going(x)
    <2>1. CASE x # me
      BY <1>1, <1>3, <2>1, Names DEF Going
    <2>2. CASE x = me
      BY <1>5, <2>2 DEF Going
    <2> QED BY <2>1, <2>2
  <1>8. ASSUME NEW x \in Thread, Awake(x)
        PROVE  Awake(x)' \/ Missed(x) \/ at[x] = "done"
    <2>1. CASE x = me
      <3>1. c \in Core /\ prev'[c] = x
        BY <1>3, <2>1
      <3>2. CASE action'[me] = "Ready"
        BY <2>1, <3>1, <3>2 DEF Awake
      <3>3. CASE action'[me] = "Wait" /\ waitOn[me] # Null
        <4>1. Going(x)
          BY <2>1, <3>3 DEF Going
        <4>2. CASE condEpoch[x] = epoch[cv]
          BY <4>1, <4>2 DEF Missed
        <4>3. CASE condEpoch[x] # epoch[cv]
          BY <2>1, <3>1, <3>3, <4>3 DEF Awake
        <4> QED BY <4>2, <4>3
      <3> QED BY <2>1, <3>2, <3>3
    <2>2. CASE x # me
      <3>1. CASE x \in Range(ready) \/ \E d \in Core : current[d] = x
        BY <1>2, <1>3, <2>2, <3>1 DEF Awake
      <3>2. CASE Taken(x)
        BY <3>2 DEF Taken, Awake
      <3>3. CASE \E d \in Core : /\ prev[d] = x
                                 /\ \/ action[x] = "Ready"
                                    \/ action[x] = "Wait" /\ epoch[cv] # condEpoch[x]
        <4>1. PICK d \in Core : /\ prev[d] = x
                                /\ \/ action[x] = "Ready"
                                   \/ action[x] = "Wait" /\ epoch[cv] # condEpoch[x]
          BY <3>3
        <4>2. d # c /\ prev'[d] = x /\ action'[x] = action[x]
          BY <1>3, <2>2, <4>1, Names
        <4> QED BY <4>1, <4>2 DEF Awake
      <3> QED BY <1>8, <3>1, <3>2, <3>3 DEF Awake, Taken
    <2> QED BY <2>1, <2>2
  <1>9. \A x \in Thread : Taken(x)' => Taken(x)
    BY DEF Taken
  <1> QED BY <1>6, <1>7, <1>8, <1>9 DEF Quiet

\* TCB::post_switch queues a thread on cv only if the epoch has not changed.
LEMMA PostSwitchQuiet ==
    ASSUME ThreadsInv, CondInv, NEW c \in Core, PostSwitch(c)
    PROVE  Quiet
  <1>1. PICK p \in Ctx : p = prev[c]
    BY DEF PostSwitch, ThreadsInv, ThreadsTypeOK
  <1>2. /\ prev' = [prev EXCEPT ![c] = Null]
        /\ UNCHANGED <<current, epoch, action, cond, condEpoch, waitOn, woken>>
    BY DEF PostSwitch
  <1>3. /\ prev \in [Core -> Ctx \cup {Null}] /\ ready \in Seq(Thread)
        /\ waiting \in [Cond -> Seq(Thread)] /\ cv \in Cond /\ CoreInv(c)
    BY WorkersAssumption DEF ThreadsInv, ThreadsTypeOK
  <1>4. prev'[c] = Null /\ \A d \in Core \ {c} : prev'[d] = prev[d]
    BY <1>2, <1>3
  <1>5. p \in Thread => PlacedAt(p, "prev", c)
    <2> SUFFICES ASSUME p \in Thread PROVE PlacedAt(p, "prev", c)
      OBVIOUS
    <2>1. PICK k \in Kind, w \in Ctx \cup Cond : PlacedAt(p, k, w)
      BY DEF ThreadsInv, Placed
    <2> QED BY <1>1, <2>1 DEF PlacedAt
  <1>6. /\ action[p] = "Wait" => cond[p] = cv /\ p \in Thread
        /\ action[p] = "Ready" => p \in Thread
    BY <1>1, <1>3, Names DEF CondInv, CoreInv
  <1>7. \/ /\ p \in Thread /\ ready' = Append(ready, p) /\ waiting' = waiting
        \/ /\ action[p] \in {"None", "Stop"} /\ UNCHANGED <<ready, waiting>>
        \/ /\ action[p] = "Wait" /\ p \in Thread /\ condEpoch[p] = epoch[cv]
           /\ waiting' = [waiting EXCEPT ![cv] = Append(@, p)] /\ ready' = ready
    BY <1>1, <1>6 DEF PostSwitch, Notified
  <1>8. CondInv'
    BY <1>2, <1>4, Names DEF CondInv
  <1>9. ASSUME NEW x \in Thread PROVE (Going(x)' => Going(x)) /\ (Taken(x)' => Taken(x))
    BY <1>2, <1>4, Names DEF Going, Taken
  <1>10. ASSUME NEW x \in Thread, x \in Range(waiting'[cv])
         PROVE  x \in Range(waiting[cv]) \/ Missed(x)
    <2>1. CASE waiting' = waiting
      BY <1>10, <2>1
    <2>2. CASE /\ action[p] = "Wait" /\ p \in Thread /\ condEpoch[p] = epoch[cv]
               /\ waiting' = [waiting EXCEPT ![cv] = Append(@, p)]
      <3>1. Range(waiting'[cv]) = Range(waiting[cv]) \cup {p}
        BY <1>3, <2>2, AppendFacts
      <3> QED BY <1>1, <1>10, <2>2, <3>1 DEF Missed, Going
    <2> QED BY <1>7, <2>1, <2>2
  <1>11. ASSUME NEW x \in Thread, Awake(x) PROVE Awake(x)' \/ Missed(x)
    <2>1. Range(ready) \subseteq Range(ready')
      <3>1. ready' = ready \/ (p \in Thread /\ ready' = Append(ready, p))
        BY <1>7
      <3>2. p \in Thread => Range(Append(ready, p)) = Range(ready) \cup {p}
        BY <1>3, AppendFacts
      <3> QED BY <3>1, <3>2
    <2>2. CASE x # p
      <3>1. \A d \in Core : prev[d] = x => prev'[d] = x
        BY <1>1, <1>4, <2>2
      <3> QED BY <1>2, <1>11, <2>1, <3>1 DEF Awake
    <2>3. CASE x = p
      <3>1. /\ \A d \in Core : current[d] # x
            /\ x \notin Range(ready) /\ \A y \in Ctx : x \notin Range(woken[y])
        BY <1>5, <2>3 DEF PlacedAt
      <3>2. action[x] = "Ready" \/ (action[x] = "Wait" /\ epoch[cv] # condEpoch[x])
        BY <1>11, <3>1 DEF Awake
      <3>3. ready' = Append(ready, x)
        BY <1>7, <2>3, <3>2
      <3>4. x \in Range(ready')
        BY <1>3, <3>3, AppendFacts
      <3> QED BY <3>4 DEF Awake
    <2> QED BY <2>2, <2>3
  <1> QED BY <1>2, <1>8, <1>9, <1>10, <1>11 DEF Quiet

\* All steps of the thread system, the creation of a thread, yield and the end of a
\* thread that is through with the primitive.
LEMMA SystemQuiet ==
    ASSUME ThreadsInv, CondInv, NEW c \in Core,
           KernelStep(c) \/ MakeThread(c) \/ Yield(c) \/ (Stop(c) /\ at[Me(c)] = "done")
    PROVE  Quiet
  <1>1. PICK me \in Ctx : me = current[c]
    BY DEF ThreadsInv, ThreadsTypeOK
  <1>2. ready # <<>> => Head(ready) \in Ctx
    BY FromReady, Names
  <1>3. /\ action \in [Ctx -> Action] /\ waitOn \in [Ctx -> Cond \cup {Null}]
        /\ cond \in [Thread -> Cond \cup {Null}]
    BY DEF ThreadsInv, ThreadsTypeOK
  <1>4. CASE PostSwitch(c)
    BY <1>4, PostSwitchQuiet
  <1>5. CASE ReapRemove(c) \/ ReapFree(c) \/ ReapDone(c) \/ EnterLoop(c) \/ LoopIdle(c)
             \/ MakeThread(c)
    BY <1>5, LocalQuiet DEF ReapRemove, ReapFree, ReapDone, EnterLoop, LoopIdle, MakeThread
  <1>6. ASSUME NEW t \in Thread, MakeThreadAdd(c, t) PROVE Quiet
    BY <1>6, ReadyQuiet DEF MakeThreadAdd
  <1>7. CASE WaitReturn(c)
    BY <1>7, WaitReturnQuiet
  <1>8. CASE Wake(c)
    BY <1>8, WakeQuiet
  <1>9. CASE WaitSwitch(c)
    <2>1. /\ prev[c] = Null /\ waitOn[me] # Null /\ ready # <<>>
          /\ ready' = Tail(ready)
          /\ cond' = [cond EXCEPT ![me] = waitOn[me]]
          /\ action' = [action EXCEPT ![me] = "Wait"]
          /\ waitOn' = [waitOn EXCEPT ![me] = Null]
          /\ current' = [current EXCEPT ![c] = Head(ready)]
          /\ prev' = [prev EXCEPT ![c] = me]
          /\ UNCHANGED <<waiting, woken, epoch, condEpoch>>
      BY <1>1, <1>9 DEF WaitSwitch, Switch, Me
    <2>2. /\ \A y \in Ctx \ {me} : action'[y] = action[y] /\ waitOn'[y] = waitOn[y]
          /\ \A y \in Thread \ {me} : cond'[y] = cond[y]
          /\ waitOn'[me] = Null /\ action'[me] = "Wait"
      BY <1>3, <2>1
    <2>3. me \in Thread => cond'[me] = cv
      BY <1>3, <2>1 DEF CondInv
    <2> QED BY <1>1, <1>2, <2>1, <2>2, <2>3, SwitchQuiet
  <1>10. CASE LoopSwitch(c)
    <2>1. /\ prev[c] = Null /\ waitOn[me] = Null /\ ready # <<>> /\ pc[me] = "loop_get"
          /\ ready' = Tail(ready)
          /\ action' = [action EXCEPT ![me] = "None"]
          /\ current' = [current EXCEPT ![c] = Head(ready)]
          /\ prev' = [prev EXCEPT ![c] = me]
          /\ UNCHANGED <<waiting, woken, epoch, condEpoch, waitOn, cond>>
      BY <1>1, <1>10 DEF LoopSwitch, Switch, Me, Free
    <2>2. me \notin Thread
      BY <2>1 DEF ThreadsInv, ThreadsTypeOK, ThreadPc
    <2>3. \A y \in Ctx \ {me} : action'[y] = action[y]
      BY <1>3, <2>1
    <2> QED BY <1>1, <1>2, <2>1, <2>2, <2>3, SwitchQuiet
  <1>11. CASE Yield(c)
    <2>1. /\ prev[c] = Null /\ waitOn[me] = Null /\ ready # <<>>
          /\ ready' = Tail(ready)
          /\ action' = [action EXCEPT ![me] = "Ready"]
          /\ current' = [current EXCEPT ![c] = Head(ready)]
          /\ prev' = [prev EXCEPT ![c] = me]
          /\ UNCHANGED <<waiting, woken, epoch, condEpoch, waitOn, cond>>
      BY <1>1, <1>11 DEF Yield, InBody, Switch, Me, Free
    <2>2. action'[me] = "Ready" /\ \A y \in Ctx \ {me} : action'[y] = action[y]
      BY <1>3, <2>1
    <2> QED BY <1>1, <1>2, <2>1, <2>2, SwitchQuiet
  <1>12. CASE Stop(c) /\ at[Me(c)] = "done"
    <2>1. PICK h \in Ctx : h = IF ready = <<>> THEN c ELSE Head(ready)
      BY <1>2, Names
    <2>2. /\ prev[c] = Null /\ waitOn[me] = Null /\ at[me] = "done"
          /\ action' = [action EXCEPT ![me] = "Stop"]
          /\ current' = [current EXCEPT ![c] = h]
          /\ prev' = [prev EXCEPT ![c] = me]
          /\ \/ h = c /\ ready' = ready
             \/ ready # <<>> /\ h = Head(ready) /\ ready' = Tail(ready)
          /\ UNCHANGED <<waiting, woken, epoch, condEpoch, waitOn, cond>>
      BY <1>1, <1>12, <2>1 DEF Stop, InBody, Switch, Me, Free
    <2>3. action'[me] = "Stop" /\ \A y \in Ctx \ {me} : action'[y] = action[y]
      BY <1>3, <2>2
    <2> QED BY <1>1, <2>2, <2>3, SwitchQuiet
  <1> QED BY <1>4, <1>5, <1>6, <1>7, <1>8, <1>9, <1>10, <1>11, <1>12 DEF KernelStep

\* A context that calls the primitive runs and is in no queue.
LEMMA CallerFacts ==
    ASSUME ThreadsInv, NEW c \in Core, Free(c), NEW me \in Ctx, me = current[c]
    PROVE  /\ ~Going(me) \/ me \notin Thread
           /\ ~Taken(me) \/ me \notin Thread
           /\ me \notin Range(waiting[cv]) \/ me \notin Thread
           /\ Awake(me) /\ woken[me] = <<>>
  <1>1. waitOn[me] = Null /\ woken[me] = <<>>
    BY DEF Free, Me
  <1>2. me \in Thread => PlacedAt(me, "current", c)
    BY Running
  <1> QED BY <1>1, <1>2, WorkersAssumption DEF PlacedAt, Going, Taken, Awake

\* Condition::wait up to the unlock.
LEMMA WaitFacts ==
    ASSUME ThreadsInv, CondInv, NEW c \in Core, Wait(c, cv), NEW me \in Ctx, me = current[c]
    PROVE  /\ me \in Thread /\ Free(c)
           /\ UNCHANGED <<epoch, waiting, woken, pc>>
           /\ condEpoch'[me] = epoch[cv] /\ epoch[cv] \in Nat
           /\ CondInv'
           /\ \A x \in Thread : /\ x # me => condEpoch'[x] = condEpoch[x]
                                /\ Going(x)' => Going(x) \/ x = me
                                /\ Taken(x)' => Taken(x)
           /\ \A x \in Ctx : Awake(x) => Awake(x)'
  <1>1. /\ Free(c) /\ me \in Thread
        /\ condEpoch' = [condEpoch EXCEPT ![me] = epoch[cv]]
        /\ waitOn' = [waitOn EXCEPT ![me] = cv]
        /\ UNCHANGED <<current, prev, pc, ready, waiting, epoch, action, cond, woken>>
    BY DEF Wait, Me, InClient
  <1>2. /\ condEpoch'[me] = epoch[cv] /\ epoch[cv] \in Nat
        /\ \A x \in Thread : x # me => condEpoch'[x] = condEpoch[x] /\ waitOn'[x] = waitOn[x]
        /\ waitOn'[me] = cv
    BY <1>1, Names, WorkersAssumption DEF ThreadsInv, ThreadsTypeOK
  <1>3. CondInv'
    BY <1>1, <1>2 DEF CondInv
  <1>4. \A x \in Thread : (Going(x)' => Going(x) \/ x = me) /\ (Taken(x)' => Taken(x))
    BY <1>1, <1>2 DEF Going, Taken
  <1>5. ASSUME NEW x \in Ctx, Awake(x) PROVE Awake(x)'
    <2>1. CASE x = me
      BY <1>1, <2>1 DEF Awake
    <2>2. CASE x # me
      <3>1. \A d \in Core : prev[d] = x /\ action[x] = "Wait" => x \in Thread
        BY Names DEF ThreadsInv, CoreInv
      <3> QED BY <1>1, <1>2, <1>5, <2>2, <3>1 DEF Awake
    <2> QED BY <2>1, <2>2
  <1> QED BY <1>1, <1>2, <1>3, <1>4, <1>5

\* notify_one and notify_all up to the unlock: everybody who has not reached the queue
\* yet is awake from now on, and so is the first, or everybody, in the queue.
LEMMA NotifyFacts ==
    ASSUME ThreadsInv, CondInv, WaitInv, NEW c \in Core,
           NotifyOne(c, cv) \/ NotifyAll(c, cv), NEW me \in Ctx, me = current[c]
    PROVE  /\ Free(c) /\ UNCHANGED <<condEpoch, pc>>
           /\ epoch[cv] \in Nat /\ epoch'[cv] = epoch[cv] + 1
           /\ CondInv'
           /\ \A x \in Thread :
                /\ Going(x)' => Going(x)
                /\ Taken(x)' => Taken(x) \/ x \in Range(waiting[cv])
                /\ x \in Range(waiting'[cv]) => x \in Range(waiting[cv])
           /\ \A x \in Ctx : Awake(x) => Awake(x)'
           /\ waiting[cv] = <<>> \/ NotifyAll(c, cv) => waiting'[cv] = <<>>
           /\ waiting[cv] # <<>> => \E x \in Thread : /\ x \in Range(waiting[cv])
                                                      /\ Awake(x)' /\ ~Awake(x)
  <1>1. /\ Free(c) /\ epoch' = [epoch EXCEPT ![cv] = @ + 1]
        /\ UNCHANGED <<current, prev, pc, ready, action, cond, condEpoch, waitOn>>
    BY DEF NotifyOne, NotifyAll, InClient
  <1>2. /\ waiting \in [Cond -> Seq(Thread)] /\ woken \in [Ctx -> Seq(Thread)]
        /\ epoch \in [Cond -> Nat] /\ cv \in Cond /\ woken[me] = <<>>
        /\ waiting[cv] \in Seq(Thread) /\ IsInjective(waiting[cv])
    BY <1>1, WorkersAssumption DEF ThreadsInv, ThreadsTypeOK, QueueInv, Free, Me
  <1>3. epoch[cv] \in Nat /\ epoch'[cv] = epoch[cv] + 1
    BY <1>1, <1>2
  <1>4. waiting[cv] # <<>> =>
          /\ Head(waiting[cv]) \in Thread /\ Head(waiting[cv]) \in Range(waiting[cv])
          /\ Range(Tail(waiting[cv])) = Range(waiting[cv]) \ {Head(waiting[cv])}
    BY <1>2, TailFacts
  <1>5. /\ \A y \in Ctx \ {me} : woken'[y] = woken[y]
        /\ Range(woken'[me]) \subseteq Range(waiting[cv])
        /\ Range(waiting'[cv]) \subseteq Range(waiting[cv])
        /\ waiting[cv] # <<>> => Head(waiting[cv]) \in Range(woken'[me])
        /\ waiting[cv] = <<>> \/ NotifyAll(c, cv) => waiting'[cv] = <<>>
    <2>1. CASE NotifyAll(c, cv)
      <3>1. /\ woken' = [woken EXCEPT ![me] = waiting[cv]]
            /\ waiting' = [waiting EXCEPT ![cv] = <<>>]
        BY <2>1 DEF NotifyAll, Me
      <3>2. woken'[me] = waiting[cv] /\ waiting'[cv] = <<>>
        BY <1>2, <3>1
      <3>3. Range(waiting'[cv]) \subseteq Range(waiting[cv])
        BY <3>2, ShortFacts
      <3> QED BY <1>2, <1>4, <3>1, <3>2, <3>3
    <2>2. CASE NotifyOne(c, cv) /\ waiting[cv] = <<>>
      BY <1>2, <2>2, ShortFacts DEF NotifyOne, NotifyAll
    <2>3. CASE NotifyOne(c, cv) /\ waiting[cv] # <<>>
      <3>1. /\ woken' = [woken EXCEPT ![me] = <<Head(waiting[cv])>>]
            /\ waiting' = [waiting EXCEPT ![cv] = Tail(@)]
        BY <2>3 DEF NotifyOne, Me
      <3>2. Range(<<Head(waiting[cv])>>) = {Head(waiting[cv])}
        BY ShortFacts
      <3>3. woken'[me] = <<Head(waiting[cv])>> /\ waiting'[cv] = Tail(waiting[cv])
        BY <1>2, <3>1
      <3>4. NotifyAll(c, cv) => waiting'[cv] = <<>>
        BY <1>2 DEF NotifyAll
      <3> QED BY <1>2, <1>4, <2>3, <3>1, <3>2, <3>3, <3>4
    <2> QED BY <2>1, <2>2, <2>3
  <1>6. CondInv' /\ \A x \in Thread : Going(x)' => Going(x)
    BY <1>1 DEF CondInv, Going
  <1>7. \A x \in Thread : /\ Taken(x)' => Taken(x) \/ x \in Range(waiting[cv])
                          /\ x \in Range(waiting'[cv]) => x \in Range(waiting[cv])
    BY <1>5 DEF Taken
  <1>8. ASSUME NEW x \in Ctx, Awake(x) PROVE Awake(x)'
    <2>1. CASE \E y \in Ctx : x \in Range(woken[y])
      <3>1. PICK y \in Ctx : x \in Range(woken[y])
        BY <2>1
      <3>2. y # me
        BY <1>2, <3>1, ShortFacts
      <3> QED BY <1>5, <3>1, <3>2 DEF Awake
    <2>2. CASE \E d \in Core : prev[d] = x /\ action[x] = "Wait" /\ epoch[cv] # condEpoch[x]
      <3>1. PICK d \in Core : prev[d] = x /\ action[x] = "Wait"
        BY <2>2
      <3>2. x \in Thread /\ Going(x)
        BY <3>1, Names DEF ThreadsInv, CoreInv, Going
      <3>3. condEpoch[x] <= epoch[cv] /\ condEpoch[x] \in Nat
        BY <3>2 DEF WaitInv, ThreadsInv, ThreadsTypeOK
      <3>4. epoch'[cv] # condEpoch'[x]
        BY <1>1, <1>3, <3>3
      <3> QED BY <1>1, <3>1, <3>4 DEF Awake
    <2>3. CASE \/ \E d \in Core : current[d] = x
               \/ x \in Range(ready)
               \/ \E d \in Core : prev[d] = x /\ action[x] = "Ready"
      BY <1>1, <2>3 DEF Awake
    <2> QED BY <1>8, <2>1, <2>2, <2>3 DEF Awake
  <1>9. ASSUME waiting[cv] # <<>>
        PROVE  \E x \in Thread : x \in Range(waiting[cv]) /\ Awake(x)' /\ ~Awake(x)
    <2>1. PICK x \in Thread : x = Head(waiting[cv])
      BY <1>4, <1>9
    <2>2. x \in Range(waiting[cv]) /\ Awake(x)'
      BY <1>4, <1>5, <1>9, <2>1 DEF Awake
    <2>3. PICK k \in Kind, w \in Ctx \cup Cond : PlacedAt(x, k, w)
      BY DEF ThreadsInv, Placed
    <2>4. k = "waiting"
      BY <1>2, <2>2, <2>3 DEF PlacedAt
    <2>5. ~Awake(x)
      BY <2>3, <2>4 DEF PlacedAt, Awake
    <2> QED BY <2>2, <2>5
  <1> QED BY <1>1, <1>3, <1>5, <1>6, <1>7, <1>8, <1>9
-----------------------------------------------------------------------------
(***************************************************************************)
(* Steps that are not calls of the primitive preserve the invariant.       *)
(***************************************************************************)

\* A queue that is not empty holds a thread.
LEMMA ParkedHead ==
    ASSUME ThreadsInv
    PROVE  waiting[cv] # <<>> <=> \E x \in Thread : x \in Range(waiting[cv])
  <1>1. waiting[cv] \in Seq(Thread)
    BY WorkersAssumption DEF ThreadsInv, ThreadsTypeOK
  <1> QED BY <1>1, TailFacts, ShortFacts

\* In a quiet step nobody gets into the queue but for a reason, and nobody falls
\* asleep; the one that ends is not in the primitive.
LEMMA QuietInv ==
    ASSUME PrimInv, ThreadsInv', Quiet, obj' = obj, todo' \in 0..MaxActive, IdleInv',
           NEW me \in Ctx,
           \/ at' = at
           \/ /\ at' = [at EXCEPT ![me] = "out"] /\ at[me] = "done" /\ obj.class # "Barrier"
              /\ ~Going(me) /\ ~Taken(me) /\ me \notin Range(waiting[cv])
    PROVE  PrimInv'
  <1>1. MustWait' = MustWait /\ InsideAt' = InsideAt
    BY DEF MustWait, InsideAt
  <1>2. PrimTypeOK'
    <2>1. ThreadsTypeOK'
      BY DEF ThreadsInv
    <2>2. at' \in [Ctx -> {"out", "in", "held", "upped", "down1", "down2", "sync",
                           "counted", "insync", "setter", "done"}]
      BY DEF PrimInv, PrimTypeOK
    <2> QED BY <2>1, <2>2 DEF PrimInv, PrimTypeOK
  <1>3. \A x \in Ctx : \/ at'[x] = at[x]
                       \/ x = me /\ at[x] = "done" /\ at'[x] = "out" /\ obj.class # "Barrier"
    BY Names DEF PrimInv, PrimTypeOK
  <1>4. \A x \in Thread : Going(x) \/ Taken(x) \/ x \in Range(waiting[cv]) => at'[x] = at[x]
    BY <1>3, Names DEF PrimInv, PrimTypeOK
  <1>5. \A x \in Thread : Missed(x) => MustWait /\ Going(x)
    BY DEF PrimInv, WaitInv, Missed
  <1>6. WaitInv'
    <2>1. ASSUME NEW x \in Thread, Going(x)' \/ Taken(x)' \/ x \in Range(waiting'[cv])
          PROVE  at'[x] \in InsideAt'
      <3>1. Going(x) \/ Taken(x) \/ x \in Range(waiting[cv])
        BY <1>5, <2>1 DEF Quiet
      <3> QED BY <1>1, <1>4, <3>1 DEF PrimInv, WaitInv
    <2>2. ASSUME NEW x \in Thread, Going(x)'
          PROVE  /\ condEpoch'[x] <= epoch'[cv]
                 /\ condEpoch'[x] = epoch'[cv] => MustWait'
      BY <1>1, <2>2 DEF PrimInv, WaitInv, Quiet
    <2> QED BY <2>1, <2>2 DEF WaitInv
  <1>7. BarrierInv'
    <2>1. CASE at' = at
      BY <2>1 DEF PrimInv, BarrierInv
    <2>2. CASE obj.class # "Barrier"
      BY <2>2 DEF BarrierInv
    <2> QED BY <2>1, <2>2
  <1>8. LatchInv'
    <2>1. {x \in Ctx : at'[x] = "counted"} = {x \in Ctx : at[x] = "counted"}
      BY <1>3
    <2> QED BY <2>1 DEF PrimInv, LatchInv
  <1>9. waiting'[cv] # <<>> => waiting[cv] # <<>> \/ MustWait
    <2>1. waiting'[cv] # <<>> => \E x \in Thread : x \in Range(waiting'[cv])
      <3>1. waiting'[cv] \in Seq(Thread)
        BY WorkersAssumption DEF ThreadsInv, ThreadsTypeOK
      <3> QED BY <3>1, TailFacts
    <2>2. waiting[cv] # <<>> <=> \E x \in Thread : x \in Range(waiting[cv])
      BY ParkedHead DEF PrimInv
    <2> QED BY <1>5, <2>1, <2>2 DEF Quiet
  <1>10. ParkInv'
    BY <1>1, <1>9 DEF PrimInv, ParkInv
  <1>11. MutualExclusion'
    <2>1. \A x \in Ctx : at'[x] = "in" <=> at[x] = "in"
      BY <1>3
    <2> QED BY <2>1 DEF PrimInv, MutualExclusion
  <1>12. NoLostWakeup'
    <2> SUFFICES ASSUME obj.class = "BlockingLock", ~obj.locked, waiting'[cv] # <<>>
                 PROVE  \E x \in Ctx : at'[x] = "out" /\ Awake(x)'
      BY DEF NoLostWakeup
    <2>1. ~MustWait
      BY DEF MustWait
    <2>2. PICK x \in Ctx : at[x] = "out" /\ Awake(x)
      BY <1>9, <2>1 DEF PrimInv, NoLostWakeup
    <2>3. at'[x] = "out"
      BY <1>3, <2>2
    <2>4. CASE x \in Thread
      BY <1>5, <2>1, <2>2, <2>3, <2>4 DEF Quiet
    <2>5. CASE x \in Core
      BY <2>3, <2>5 DEF ThreadsInv, IdleInv, CoreInv, Awake
    <2> QED BY <2>3, <2>4, <2>5, Names
  <1>13. EnoughAwake'
    <2> SUFFICES ASSUME obj.class = "Semaphore", waiting'[cv] # <<>>
                 PROVE  obj.count <= Cardinality({x \in Thread : at'[x] \in {"down1", "down2"}
                                                                 /\ Awake(x)'})
      BY DEF EnoughAwake
    <2> DEFINE S == {x \in Thread : at[x] \in {"down1", "down2"} /\ Awake(x)}
               T == {x \in Thread : at'[x] \in {"down1", "down2"} /\ Awake(x)'}
    <2>1. obj.count \in Nat
      BY DEF PrimInv, PrimTypeOK
    <2>2. IsFiniteSet(T) /\ Cardinality(T) \in Nat
      BY Names, FS_Subset, FS_CardinalityType
    <2>3. CASE obj.count = 0
      BY <2>1, <2>2, <2>3
    <2>4. CASE obj.count # 0
      <3>1. ~MustWait
        BY <2>4 DEF MustWait
      <3>2. obj.count <= Cardinality(S)
        BY <1>9, <3>1 DEF PrimInv, EnoughAwake
      <3>3. S \subseteq T
        BY <1>3, <1>5, <3>1, Names DEF Quiet
      <3>4. Cardinality(S) \in Nat /\ Cardinality(S) <= Cardinality(T)
        BY <2>2, <3>3, FS_Subset, FS_CardinalityType
      <3> QED BY <2>1, <2>2, <3>2, <3>4
    <2> QED BY <2>3, <2>4
  <1> QED BY <1>2, <1>6, <1>7, <1>8, <1>10, <1>11, <1>12, <1>13 DEF PrimInv, Quiet

\* A step of the thread system moves only the idle thread that takes it, which is
\* through with the primitive or does not leave core_main.
LEMMA IdleStep ==
    ASSUME ThreadsInv, IdleInv, NEW c \in Core,
           \/ (KernelStep(c) \/ MakeThread(c)) /\ Booted(c)
           \/ Yield(c) \/ Stop(c),
           NEW d \in Core
    PROVE  at[d] = "done" \/ pc'[d] = "start"
  <1>1. PICK me \in Ctx : me = current[c]
    BY DEF ThreadsInv, ThreadsTypeOK
  <1>2. /\ pc \in [Ctx -> ThreadPc \cup IdlePc] /\ victim \in [Ctx -> Thread \cup {Null}]
        /\ d \in Ctx /\ d \notin Thread /\ pc[d] \in IdlePc
    BY Names DEF ThreadsInv, ThreadsTypeOK
  <1>3. \/ pc' = pc
        \/ \E v : pc' = [pc EXCEPT ![me] = v]
        \/ victim[me] # Null /\ pc' = [pc EXCEPT ![victim[me]] = "free"]
        \/ \E t \in Thread : \E v : pc' = [pc EXCEPT ![t] = "entry_reap", ![me] = v]
    <2>1. CASE PostSwitch(c) \/ ReapRemove(c) \/ WaitReturn(c) \/ WaitSwitch(c) \/ Wake(c) \/ Yield(c)
      BY <2>1 DEF PostSwitch, ReapRemove, WaitReturn, WaitSwitch, Wake, Yield
    <2>2. CASE ReapDone(c)
      BY <1>1, <2>2 DEF ReapDone, Me
    <2>3. CASE EnterLoop(c)
      BY <1>1, <2>3 DEF EnterLoop, Me
    <2>4. CASE LoopSwitch(c)
      BY <1>1, <2>4 DEF LoopSwitch, Me
    <2>5. CASE LoopIdle(c)
      BY <1>1, <2>5 DEF LoopIdle, Me
    <2>6. CASE MakeThread(c)
      BY <1>1, <2>6 DEF MakeThread, Me
    <2>7. CASE Stop(c)
      BY <1>1, <2>7 DEF Stop, Me
    <2>8. CASE ReapFree(c)
      BY <1>1, <2>8 DEF ReapFree, Me
    <2>9. ASSUME NEW t \in Thread, MakeThreadAdd(c, t)
          PROVE  \E v : pc' = [pc EXCEPT ![t] = "entry_reap", ![me] = v]
      BY <1>1, <2>9 DEF MakeThreadAdd, Me
    <2> QED BY <2>1, <2>2, <2>3, <2>4, <2>5, <2>6, <2>7, <2>8, <2>9 DEF KernelStep
  <1>4. CASE d # me
    <2>1. pc'[d] = pc[d]
      <3>1. CASE pc' = pc
        BY <3>1
      <3>2. ASSUME NEW v, pc' = [pc EXCEPT ![me] = v] PROVE pc'[d] = pc[d]
        BY <1>2, <1>4, <3>2
      <3>3. CASE victim[me] # Null /\ pc' = [pc EXCEPT ![victim[me]] = "free"]
        BY <1>2, <3>3
      <3>4. ASSUME NEW t \in Thread, NEW v, pc' = [pc EXCEPT ![t] = "entry_reap", ![me] = v]
            PROVE  pc'[d] = pc[d]
        BY <1>2, <1>4, <3>4
      <3> QED BY <1>3, <3>1, <3>2, <3>3, <3>4
    <2> QED BY <2>1 DEF IdleInv
  <1>5. CASE d = me
    <2>1. CASE Booted(c)
      BY <1>1, <1>5, <2>1 DEF Booted, IdleInv, Me
    <2>2. CASE Yield(c) \/ Stop(c)
      BY <1>1, <1>2, <1>5, <2>2 DEF Yield, Stop, InBody, Me, IdlePc
    <2> QED BY <2>1, <2>2
  <1> QED BY <1>4, <1>5

\* The steps of PrimNext other than calls.
LEMMA OtherStepInv ==
    ASSUME PrimInv, ThreadsInv', NEW c \in Core,
           System(c) \/ Spawn(c) \/ YieldCore(c) \/ Finish(c)
    PROVE  PrimInv'
  <1>1. PICK me \in Ctx : me = current[c]
    BY DEF PrimInv, ThreadsInv, ThreadsTypeOK
  <1>2. Quiet
    BY SystemQuiet DEF PrimInv, System, Spawn, YieldCore, Finish
  <1>3. \A d \in Core : at[d] = "done" \/ pc'[d] = "start"
    BY IdleStep DEF PrimInv, System, Spawn, YieldCore, Finish
  <1>4. todo' \in 0..MaxActive /\ obj' = obj
    BY ThreadsAssumption DEF PrimInv, PrimTypeOK, System, Spawn, YieldCore, Finish
  <1>5. CASE at' = at
    <2>1. IdleInv'
      BY <1>3, <1>5 DEF IdleInv
    <2> QED BY <1>2, <1>4, <1>5, <2>1, QuietInv
  <1>6. CASE Finish(c) /\ obj.class # "Barrier"
    <2>1. /\ at[me] = "done" /\ at' = [at EXCEPT ![me] = "out"]
          /\ Free(c) /\ pc[me] = "body"
      BY <1>1, <1>6 DEF Finish, Stop, InBody, Goto, Me
    <2>2. me \in Thread
      BY <2>1, Names DEF PrimInv, ThreadsInv, ThreadsTypeOK, IdlePc
    <2>3. ~Going(me) /\ ~Taken(me) /\ me \notin Range(waiting[cv])
      BY <1>1, <2>1, <2>2, CallerFacts DEF PrimInv
    <2>4. IdleInv'
      BY <1>3, <2>1, <2>2, Names DEF IdleInv, PrimInv, PrimTypeOK
    <2> QED BY <1>2, <1>4, <1>6, <2>1, <2>3, <2>4, QuietInv
  <1> QED BY <1>5, <1>6 DEF System, Spawn, YieldCore, Finish
-----------------------------------------------------------------------------
(***************************************************************************)
(* The calls preserve the invariant: one lemma per primitive.              *)
(***************************************************************************)

\* What the calls have in common: the caller me runs, and either changes only the
\* primitive and keeps every reason to wait, or waits for a reason, or notifies.
LEMMA CallFacts ==
    ASSUME PrimInv, ThreadsInv', NEW c \in Core, NEW p, CanCall(c, p),
           NEW me \in Ctx, me = current[c],
           obj'.class = obj.class,
           \A x \in Ctx \ {me} : at'[x] = at[x],
           \/ UNCHANGED threadVars /\ (MustWait => MustWait')
           \/ Wait(c, cv) /\ obj' = obj /\ MustWait /\ at'[me] \in InsideAt
           \/ NotifyOne(c, cv) \/ NotifyAll(c, cv)
    PROVE  /\ CondInv' /\ WaitInv' /\ IdleInv'
           /\ Awake(me) /\ \A x \in Ctx : Awake(x) => Awake(x)'
           /\ waiting'[cv] # <<>> => waiting[cv] # <<>>
           /\ me \in Core => pc[me] = "start"
  <1>1. Free(c) /\ pc[me] \in {"body", "start"} /\ at[me] = p
    BY DEF CanCall, InBody, Me
  <1>2. me \in Core => pc[me] = "start"
    BY <1>1 DEF PrimInv, ThreadsInv, ThreadsTypeOK, IdlePc
  <1>3. /\ me \in Thread => ~Going(me) /\ ~Taken(me) /\ me \notin Range(waiting[cv])
        /\ Awake(me)
    BY <1>1, CallerFacts DEF PrimInv
  <1>4. InsideAt' = InsideAt
    BY DEF InsideAt
  <1>5. ASSUME pc' = pc PROVE IdleInv'
    <2>1. \A d \in Core : d # me => at'[d] = at[d]
      BY Names
    <2> QED BY <1>2, <1>5, <2>1 DEF IdleInv, PrimInv
  <1>6. \A x \in Thread : Going(x) \/ Taken(x) \/ x \in Range(waiting[cv])
                            => at'[x] = at[x] /\ at[x] \in InsideAt
    BY <1>3, Names DEF PrimInv, WaitInv
  <1>7. CASE UNCHANGED threadVars /\ (MustWait => MustWait')
    <2>1. /\ \A x : (Going(x)' <=> Going(x)) /\ (Taken(x)' <=> Taken(x)) /\ (Awake(x)' <=> Awake(x))
          /\ UNCHANGED <<waiting, pc, condEpoch, epoch>>
      BY <1>7 DEF threadVars, Going, Taken, Awake
    <2>2. WaitInv'
      BY <1>4, <1>6, <1>7, <2>1 DEF PrimInv, WaitInv
    <2>3. CondInv'
      BY <1>7 DEF threadVars, PrimInv, CondInv
    <2> QED BY <1>2, <1>3, <1>5, <2>1, <2>2, <2>3
  <1>8. CASE Wait(c, cv) /\ obj' = obj /\ MustWait /\ at'[me] \in InsideAt
    <2>1. /\ me \in Thread /\ UNCHANGED <<epoch, waiting, woken, pc>>
          /\ condEpoch'[me] = epoch[cv] /\ epoch[cv] \in Nat
          /\ CondInv'
          /\ \A x \in Thread : /\ x # me => condEpoch'[x] = condEpoch[x]
                               /\ Going(x)' => Going(x) \/ x = me
                               /\ Taken(x)' => Taken(x)
          /\ \A x \in Ctx : Awake(x) => Awake(x)'
      BY <1>8, WaitFacts DEF PrimInv
    <2>2. MustWait' = MustWait
      BY <1>8 DEF MustWait
    <2>3. WaitInv'
      <3>1. ASSUME NEW x \in Thread, Going(x)' \/ Taken(x)' \/ x \in Range(waiting'[cv])
            PROVE  at'[x] \in InsideAt'
        BY <1>4, <1>6, <1>8, <2>1, <3>1
      <3>2. ASSUME NEW x \in Thread, Going(x)'
            PROVE  /\ condEpoch'[x] <= epoch'[cv]
                   /\ condEpoch'[x] = epoch'[cv] => MustWait'
        <4>1. CASE x = me
          BY <1>8, <2>1, <2>2, <4>1
        <4>2. CASE x # me
          BY <2>1, <2>2, <3>2, <4>2 DEF PrimInv, WaitInv
        <4> QED BY <4>1, <4>2
      <3> QED BY <3>1, <3>2 DEF WaitInv
    <2> QED BY <1>2, <1>3, <1>5, <2>1, <2>3
  <1>9. CASE NotifyOne(c, cv) \/ NotifyAll(c, cv)
    <2>1. /\ UNCHANGED <<condEpoch, pc>>
          /\ epoch[cv] \in Nat /\ epoch'[cv] = epoch[cv] + 1
          /\ CondInv'
          /\ \A x \in Thread :
               /\ Going(x)' => Going(x)
               /\ Taken(x)' => Taken(x) \/ x \in Range(waiting[cv])
               /\ x \in Range(waiting'[cv]) => x \in Range(waiting[cv])
          /\ \A x \in Ctx : Awake(x) => Awake(x)'
          /\ waiting[cv] = <<>> => waiting'[cv] = <<>>
      BY <1>9, NotifyFacts DEF PrimInv
    <2>2. WaitInv'
      <3>1. ASSUME NEW x \in Thread, Going(x)' \/ Taken(x)' \/ x \in Range(waiting'[cv])
            PROVE  at'[x] \in InsideAt'
        BY <1>4, <1>6, <2>1, <3>1
      <3>2. ASSUME NEW x \in Thread, Going(x)'
            PROVE  condEpoch'[x] < epoch'[cv]
        <4>1. condEpoch[x] <= epoch[cv] /\ condEpoch[x] \in Nat
          BY <2>1, <3>2 DEF PrimInv, WaitInv, ThreadsInv, ThreadsTypeOK
        <4> QED BY <2>1, <4>1
      <3>3. \A x \in Thread : condEpoch'[x] \in Nat
        BY DEF ThreadsInv, ThreadsTypeOK
      <3>4. epoch'[cv] \in Nat
        BY <2>1
      <3> QED BY <3>1, <3>2, <3>3, <3>4 DEF WaitInv
    <2> QED BY <1>2, <1>3, <1>5, <2>1, <2>2
  <1> QED BY <1>7, <1>8, <1>9

\* The places of a context.
At == {"out", "in", "held", "upped", "down1", "down2", "sync", "counted", "insync",
       "setter", "done"}

\* The caller goes to q and nobody else moves.
LEMMA GotoFacts ==
    ASSUME PrimInv, NEW c \in Core, NEW me \in Ctx, me = current[c], NEW q \in At,
           Goto(c, q) \/ (at' = at /\ at[me] = q)
    PROVE  /\ at' \in [Ctx -> At] /\ at'[me] = q
           /\ \A x \in Ctx \ {me} : at'[x] = at[x]
  BY DEF PrimInv, PrimTypeOK, Goto, Me, At

\* lock() and unlock().
LEMMA BlockingLockInv ==
    ASSUME PrimInv, ThreadsInv', NEW c \in Core, BLStep(c)
    PROVE  PrimInv'
  <1>1. PICK me \in Ctx : me = current[c]
    BY DEF PrimInv, ThreadsInv, ThreadsTypeOK
  <1>2. /\ obj.class = "BlockingLock"
        /\ obj \in [class : {"BlockingLock"}, locked : BOOLEAN]
    BY DEF BLStep, PrimInv, PrimTypeOK
  <1>3. PICK p \in At, q \in At, l \in BOOLEAN :
          /\ CanCall(c, p) /\ at[me] = p
          /\ Goto(c, q) \/ (at' = at /\ at[me] = q)
          /\ obj' = [class |-> "BlockingLock", locked |-> l]
          /\ todo' = todo
          /\ \/ p = "out" /\ q = "in" /\ ~obj.locked /\ l = TRUE /\ UNCHANGED threadVars
             \/ p = "out" /\ q = "out" /\ obj.locked /\ l = TRUE /\ Wait(c, cv) /\ obj' = obj
             \/ p = "in" /\ q = "done" /\ l = FALSE /\ NotifyOne(c, cv)
    <2>1. CASE Lock(c)
      BY <1>1, <1>2, <2>1 DEF Lock, CanCall, Me, At
    <2>2. CASE LockWait(c)
      BY <1>1, <1>2, <2>2 DEF LockWait, CanCall, Me, At
    <2>3. CASE Unlock(c)
      BY <1>1, <1>2, <2>3 DEF Unlock, CanCall, Me, At
    <2> QED BY <2>1, <2>2, <2>3 DEF BLStep
  <1>4. /\ at' \in [Ctx -> At] /\ at'[me] = q
        /\ \A x \in Ctx \ {me} : at'[x] = at[x]
    BY <1>1, <1>3, GotoFacts
  <1>5. /\ obj'.class = "BlockingLock" /\ obj'.locked = l
        /\ MustWait <=> obj.locked
        /\ InsideAt = {"out"}
    BY <1>2, <1>3 DEF MustWait, InsideAt
  <1>6. /\ CondInv' /\ WaitInv' /\ IdleInv'
        /\ waiting'[cv] # <<>> => waiting[cv] # <<>>
    BY <1>1, <1>2, <1>3, <1>4, <1>5, CallFacts
  <1>7. PrimTypeOK'
    BY <1>3, <1>4, <1>5 DEF PrimInv, PrimTypeOK, ThreadsInv, At
  <1>8. MutualExclusion'
    <2>1. /\ \A x, y \in Ctx : at[x] = "in" /\ at[y] = "in" => x = y
          /\ obj.locked = \E x \in Ctx : at[x] = "in"
      BY <1>2 DEF PrimInv, MutualExclusion
    <2>2. CASE p = "out" /\ q = "in" /\ ~obj.locked /\ l = TRUE
      BY <1>3, <1>4, <1>5, <2>1, <2>2 DEF MutualExclusion
    <2>3. CASE p = "out" /\ q = "out" /\ obj.locked /\ l = TRUE
      BY <1>3, <1>4, <1>5, <2>1, <2>3 DEF MutualExclusion
    <2>4. CASE p = "in" /\ q = "done" /\ l = FALSE
      BY <1>3, <1>4, <1>5, <2>1, <2>4 DEF MutualExclusion
    <2> QED BY <1>3, <2>2, <2>3, <2>4
  <1>9. NoLostWakeup'
    <2> SUFFICES ASSUME ~obj'.locked, waiting'[cv] # <<>>
                 PROVE  \E x \in Ctx : at'[x] = "out" /\ Awake(x)'
      BY DEF NoLostWakeup
    <2>1. p = "in" /\ NotifyOne(c, cv)
      BY <1>3, <1>5
    <2>2. PICK x \in Thread : x \in Range(waiting[cv]) /\ Awake(x)'
      BY <1>1, <1>6, <2>1, NotifyFacts DEF PrimInv
    <2>3. at[x] = "out" /\ x \in Ctx
      BY <1>5, <2>2, Names DEF PrimInv, WaitInv
    <2> QED BY <1>3, <1>4, <2>1, <2>2, <2>3
  <1>10. BarrierInv' /\ LatchInv' /\ ParkInv' /\ EnoughAwake'
    BY <1>5 DEF BarrierInv, LatchInv, ParkInv, EnoughAwake
  <1> QED BY <1>6, <1>7, <1>8, <1>9, <1>10 DEF PrimInv

\* down() and up() of the semaphore.
LEMMA SemaphoreInv ==
    ASSUME PrimInv, ThreadsInv', NEW c \in Core, SemStep(c)
    PROVE  PrimInv'
  <1> DEFINE S == {x \in Thread : at[x] \in {"down1", "down2"} /\ Awake(x)}
             T == {x \in Thread : at'[x] \in {"down1", "down2"} /\ Awake(x)'}
             Effect(me, p, q, n) ==
               /\ CanCall(c, p) /\ at[me] = p /\ Goto(c, q)
               /\ obj' = [class |-> "Semaphore", count |-> n]
               /\ todo' = todo
               /\ \/ obj.count # 0 /\ n = obj.count - 1 /\ UNCHANGED threadVars
                  \/ /\ obj.count = 0 /\ n = 0 /\ Wait(c, cv) /\ obj' = obj
                     /\ q \in {"down1", "down2"}
                  \/ p \in BeforeUp /\ n = obj.count + 1 /\ NotifyOne(c, cv)
  <1>1. PICK me \in Ctx : me = current[c]
    BY DEF PrimInv, ThreadsInv, ThreadsTypeOK
  <1>2. /\ obj.class = "Semaphore" /\ obj.count \in Nat
        /\ obj \in [class : {"Semaphore", "CountDownLatch"}, count : Nat]
    BY DEF SemStep, PrimInv, PrimTypeOK
  <1>3. \E p \in At, q \in At, n \in Nat : Effect(me, p, q, n)
    <2>1. ASSUME NEW p \in BeforeDown, CanCall(c, p), obj.count # 0,
                 obj' = [obj EXCEPT !.count = @ - 1], Goto(c, AfterDown(p)),
                 UNCHANGED <<threadVars, todo>>
          PROVE  \E r \in At, q \in At, n \in Nat : Effect(me, r, q, n)
      <3>1. p \in At /\ AfterDown(p) \in At /\ obj.count - 1 \in Nat
        BY <1>2, <2>1 DEF BeforeDown, AfterDown, At
      <3>2. obj' = [class |-> "Semaphore", count |-> obj.count - 1] /\ at[me] = p
        BY <1>1, <1>2, <2>1 DEF CanCall, Me
      <3>3. Effect(me, p, AfterDown(p), obj.count - 1)
        BY <2>1, <3>2
      <3> QED BY <3>1, <3>3
    <2>2. ASSUME NEW p \in BeforeDown, CanCall(c, p), obj.count = 0, Wait(c, cv),
                 Goto(c, InsideDown(p)), UNCHANGED <<obj, todo>>
          PROVE  \E r \in At, q \in At, n \in Nat : Effect(me, r, q, n)
      <3>1. p \in At /\ InsideDown(p) \in At /\ InsideDown(p) \in {"down1", "down2"}
        BY <2>2 DEF BeforeDown, InsideDown, At
      <3>2. obj' = [class |-> "Semaphore", count |-> 0] /\ at[me] = p
        BY <1>1, <1>2, <2>2 DEF CanCall, Me
      <3>3. Effect(me, p, InsideDown(p), 0)
        BY <2>2, <3>1, <3>2
      <3> QED BY <3>1, <3>3
    <2>3. ASSUME NEW p \in BeforeUp, CanCall(c, p),
                 obj' = [obj EXCEPT !.count = @ + 1], NotifyOne(c, cv),
                 Goto(c, AfterUp(p)), UNCHANGED todo
          PROVE  \E r \in At, q \in At, n \in Nat : Effect(me, r, q, n)
      <3>1. p \in At /\ AfterUp(p) \in At /\ obj.count + 1 \in Nat
        BY <1>2, <2>3 DEF BeforeUp, AfterUp, At
      <3>2. obj' = [class |-> "Semaphore", count |-> obj.count + 1] /\ at[me] = p
        BY <1>1, <1>2, <2>3 DEF CanCall, Me
      <3>3. Effect(me, p, AfterUp(p), obj.count + 1)
        BY <2>3, <3>2
      <3> QED BY <3>1, <3>3
    <2> QED BY <2>1, <2>2, <2>3 DEF SemStep, Down, DownWait, Up
  <1>4. PICK p \in At, q \in At, n \in Nat : Effect(me, p, q, n)
    BY <1>3
  <1>5. /\ at' \in [Ctx -> At] /\ at'[me] = q
        /\ \A x \in Ctx \ {me} : at'[x] = at[x]
    BY <1>1, <1>4, GotoFacts
  <1>6. /\ obj'.class = "Semaphore" /\ obj'.count = n
        /\ MustWait <=> obj.count = 0
        /\ InsideAt = {"down1", "down2"}
    BY <1>2, <1>4 DEF MustWait, InsideAt
  <1>7. /\ CondInv' /\ WaitInv' /\ IdleInv'
        /\ \A x \in Ctx : Awake(x) => Awake(x)'
        /\ waiting'[cv] # <<>> => waiting[cv] # <<>>
    BY <1>1, <1>2, <1>4, <1>5, <1>6, CallFacts
  <1>8. PrimTypeOK'
    BY <1>4, <1>5 DEF PrimInv, PrimTypeOK, ThreadsInv, At
  <1>9. EnoughAwake'
    <2> SUFFICES ASSUME waiting'[cv] # <<>> PROVE n <= Cardinality(T)
      BY <1>6 DEF EnoughAwake
    <2>1. obj.count <= Cardinality(S)
      BY <1>2, <1>7 DEF PrimInv, EnoughAwake
    <2>2. /\ IsFiniteSet(S) /\ Cardinality(S) \in Nat
          /\ IsFiniteSet(T) /\ Cardinality(T) \in Nat
      BY Names, FS_Subset, FS_CardinalityType
    <2>3. S \ {me} \subseteq T
      BY <1>5, <1>7, Names
    <2>4. CASE n = 0
      BY <2>2, <2>4
    <2>5. CASE obj.count # 0 /\ n = obj.count - 1
      <3>1. /\ Cardinality(S \ {me}) \in {Cardinality(S), Cardinality(S) - 1}
            /\ Cardinality(S \ {me}) <= Cardinality(T)
        BY <2>2, <2>3, FS_RemoveElement, FS_Subset, SMTT(30)
      <3> QED BY <1>2, <2>1, <2>2, <2>5, <3>1
    <2>6. CASE p \in BeforeUp /\ n = obj.count + 1 /\ NotifyOne(c, cv)
      <3>1. PICK x \in Thread : x \in Range(waiting[cv]) /\ Awake(x)' /\ ~Awake(x)
        BY <1>1, <1>7, <2>6, NotifyFacts DEF PrimInv
      <3>2. at[me] \notin {"down1", "down2"}
        BY <1>4, <2>6 DEF BeforeUp
      <3>3. at[x] \in {"down1", "down2"}
        BY <1>6, <3>1 DEF PrimInv, WaitInv
      <3>4. x \in T /\ x \notin S
        BY <1>5, <3>1, <3>2, <3>3, Names
      <3>5. S \cup {x} \subseteq T
        BY <2>3, <3>2, <3>4
      <3>6. /\ Cardinality(S \cup {x}) = Cardinality(S) + 1
            /\ Cardinality(S \cup {x}) <= Cardinality(T)
        BY <2>2, <3>4, <3>5, FS_AddElement, FS_Subset
      <3> QED BY <1>2, <2>1, <2>2, <2>6, <3>6
    <2> QED BY <1>4, <2>4, <2>5, <2>6
  <1>10. BarrierInv' /\ LatchInv' /\ ParkInv' /\ MutualExclusion' /\ NoLostWakeup'
    BY <1>6 DEF BarrierInv, LatchInv, ParkInv, MutualExclusion, NoLostWakeup
  <1> QED BY <1>7, <1>8, <1>9, <1>10 DEF PrimInv

\* sync() of the barrier.
LEMMA BarrierStepInv ==
    ASSUME PrimInv, ThreadsInv', NEW c \in Core, BarStep(c)
    PROVE  PrimInv'
  <1> DEFINE Effect(me, p, q, n) ==
               /\ CanCall(c, p) /\ at[me] = p
               /\ Goto(c, q) \/ (at' = at /\ at[me] = q)
               /\ obj' = [class |-> "Barrier", count |-> n, party |-> obj.party]
               /\ todo' = todo
               /\ \/ /\ p = "out" /\ obj.count = 1 /\ n = 0
                     /\ NotifyAll(c, cv) /\ q = "done"
                  \/ /\ p = "out" /\ obj.count # 1 /\ n = obj.count - 1
                     /\ UNCHANGED threadVars /\ q = "sync"
                  \/ /\ p = "sync" /\ obj.count # 0 /\ n = obj.count
                     /\ Wait(c, cv) /\ obj' = obj /\ q = "sync"
                  \/ /\ p = "sync" /\ obj.count = 0 /\ n = 0
                     /\ UNCHANGED threadVars /\ obj' = obj /\ q = "done"
             Out == {x \in obj.party : at[x] = "out"}
  <1>1. PICK me \in Ctx : me = current[c]
    BY DEF PrimInv, ThreadsInv, ThreadsTypeOK
  <1>2. /\ obj.class = "Barrier" /\ obj.count \in Nat /\ obj.party \in {Core, Thread}
        /\ obj \in [class : {"Barrier"}, count : Nat, party : {Core, Thread}]
    BY DEF BarStep, PrimInv, PrimTypeOK
  <1>3. /\ obj.count = Cardinality(Out)
        /\ obj.count # 0 => \A x \in obj.party : at[x] # "done"
        /\ \A x \in Ctx \ obj.party : at[x] = "done"
        /\ obj.party \subseteq Ctx
        /\ IsFiniteSet(Out)
    BY <1>2, Names, ThreadsAssumption, FS_Subset DEF PrimInv, BarrierInv
  <1>4. PICK p \in At, q \in At : \E n : Effect(me, p, q, n)
    <2>1. CASE Sync(c)
      <3>1. obj' = [class |-> "Barrier", count |-> obj.count - 1, party |-> obj.party]
        BY <1>2, <2>1 DEF Sync
      <3>2. CASE obj.count = 1
        <4>1. obj.count - 1 = 0
          BY <3>2
        <4>2. obj' = [class |-> "Barrier", count |-> 0, party |-> obj.party]
          BY <3>1, <4>1, Zenon
        <4>3. Effect(me, "out", "done", 0)
          BY <1>1, <2>1, <3>2, <4>2 DEF Sync, CanCall, Me
        <4> QED BY <4>3 DEF At
      <3>3. CASE obj.count # 1
        <4>1. Effect(me, "out", "sync", obj.count - 1)
          BY <1>1, <2>1, <3>1, <3>3 DEF Sync, CanCall, Me
        <4> QED BY <4>1 DEF At
      <3> QED BY <3>2, <3>3
    <2>2. CASE SyncWait(c)
      <3>1. Effect(me, "sync", "sync", obj.count)
        BY <1>1, <1>2, <2>2 DEF SyncWait, CanCall, Me
      <3> QED BY <3>1 DEF At
    <2>3. CASE SyncDone(c)
      <3>1. Effect(me, "sync", "done", 0)
        BY <1>1, <1>2, <2>3 DEF SyncDone, CanCall, Me
      <3> QED BY <3>1 DEF At
    <2> QED BY <2>1, <2>2, <2>3 DEF BarStep
  <1>5. PICK n : Effect(me, p, q, n)
    BY <1>4
  <1>6. /\ at' \in [Ctx -> At] /\ at'[me] = q
        /\ \A x \in Ctx \ {me} : at'[x] = at[x]
    BY <1>1, <1>5, GotoFacts
  <1>7. me \in obj.party
    BY <1>3, <1>5
  <1>8. /\ p = "out" => me \in Out /\ obj.count # 0
        /\ n \in Nat
    <2>1. p = "out" => me \in Out /\ obj.count # 0
      BY <1>3, <1>5, <1>7, FS_EmptySet
    <2> QED BY <1>2, <1>5, <2>1
  <1>9. /\ obj'.class = "Barrier" /\ obj'.count = n /\ obj'.party = obj.party
        /\ MustWait <=> obj.count # 0
        /\ MustWait' <=> n # 0
        /\ InsideAt = {"sync"}
    BY <1>2, <1>5 DEF MustWait, InsideAt
  <1>10. /\ CondInv' /\ WaitInv' /\ IdleInv'
         /\ waiting'[cv] # <<>> => waiting[cv] # <<>>
    <2>1. \/ NotifyAll(c, cv)
          \/ Wait(c, cv) /\ obj' = obj /\ MustWait /\ at'[me] \in InsideAt
          \/ UNCHANGED threadVars /\ (MustWait => n # 0)
      BY <1>2, <1>5, <1>6, <1>9
    <2> QED BY <1>1, <1>2, <1>5, <1>6, <1>9, <2>1, CallFacts
  <1>11. PrimTypeOK'
    <2>1. obj' \in [class : {"Barrier"}, count : Nat, party : {Core, Thread}]
      BY <1>2, <1>5, <1>8
    <2>2. ThreadsTypeOK'
      BY DEF ThreadsInv
    <2>3. todo' \in 0..MaxActive
      BY <1>5 DEF PrimInv, PrimTypeOK
    <2> QED BY <1>6, <2>1, <2>2, <2>3 DEF PrimTypeOK, At
  <1>12. BarrierInv'
    <2>1. \A x \in Ctx \ obj'.party : at'[x] = "done"
      BY <1>3, <1>6, <1>7, <1>9
    <2>2. n # 0 => \A x \in obj'.party : at'[x] # "done"
      BY <1>2, <1>3, <1>5, <1>6, <1>8, <1>9
    <2>3. {x \in obj'.party : at'[x] = "out"} = Out \ {me}
      BY <1>3, <1>5, <1>6, <1>9
    <2>4. n = Cardinality(Out \ {me})
      <3>1. CASE p = "out"
        <4>1. n = obj.count - 1
          BY <1>5, <3>1
        <4>2. Cardinality(Out \ {me}) = Cardinality(Out) - 1
          BY <1>3, <1>8, <3>1, FS_RemoveElement
        <4> QED BY <1>3, <4>1, <4>2
      <3>2. CASE p = "sync"
        <4>1. Out \ {me} = Out /\ n = obj.count
          BY <1>5, <3>2
        <4> QED BY <1>3, <4>1
      <3> QED BY <1>5, <3>1, <3>2
    <2> QED BY <1>9, <2>1, <2>2, <2>3, <2>4 DEF BarrierInv
  <1>13. ParkInv'
    <2>1. CASE NotifyAll(c, cv)
      <3>1. waiting'[cv] = <<>>
        BY <1>1, <2>1, NotifyFacts DEF PrimInv
      <3> QED BY <3>1 DEF ParkInv
    <2>2. CASE n # 0
      BY <1>9, <2>2 DEF ParkInv
    <2>3. CASE obj.count = 0
      BY <1>2, <1>9, <1>10, <2>3 DEF ParkInv, PrimInv
    <2> QED BY <1>2, <1>5, <2>1, <2>2, <2>3
  <1>14. LatchInv' /\ MutualExclusion' /\ NoLostWakeup' /\ EnoughAwake'
    BY <1>9 DEF LatchInv, MutualExclusion, NoLostWakeup, EnoughAwake
  <1> QED BY <1>10, <1>11, <1>12, <1>13, <1>14 DEF PrimInv

\* up(), down() and sync() of the latch.
LEMMA LatchStepInv ==
    ASSUME PrimInv, ThreadsInv', NEW c \in Core, LatchStep(c)
    PROVE  PrimInv'
  <1> DEFINE Effect(me, p, q, n) ==
               /\ CanCall(c, p) /\ at[me] = p /\ Goto(c, q)
               /\ obj' = [class |-> "CountDownLatch", count |-> n]
               /\ todo' = todo
               /\ \/ /\ p = "out" /\ n = obj.count + 1
                     /\ UNCHANGED threadVars /\ q = "counted"
                  \/ /\ p = "counted" /\ n = obj.count - 1 /\ q = "done"
                     /\ IF obj.count = 1 THEN NotifyAll(c, cv) ELSE UNCHANGED threadVars
                  \/ /\ p \in {"out", "insync"} /\ obj.count # 0 /\ n = obj.count
                     /\ Wait(c, cv) /\ obj' = obj /\ q = "insync"
                  \/ /\ p \in {"out", "insync"} /\ obj.count = 0 /\ n = 0
                     /\ UNCHANGED threadVars /\ obj' = obj /\ q = "done"
             Counted == {x \in Ctx : at[x] = "counted"}
  <1>1. PICK me \in Ctx : me = current[c]
    BY DEF PrimInv, ThreadsInv, ThreadsTypeOK
  <1>2. /\ obj.class = "CountDownLatch" /\ obj.count \in Nat
        /\ obj \in [class : {"Semaphore", "CountDownLatch"}, count : Nat]
    BY DEF LatchStep, PrimInv, PrimTypeOK
  <1>3. obj.count = Cardinality(Counted) /\ IsFiniteSet(Counted)
    BY <1>2, Names, FS_Subset DEF PrimInv, LatchInv
  <1>4. PICK p \in At, q \in At : \E n : Effect(me, p, q, n)
    <2>1. CASE LatchUp(c)
      <3>1. Effect(me, "out", "counted", obj.count + 1)
        BY <1>1, <1>2, <2>1 DEF LatchUp, CanCall, Me
      <3> QED BY <3>1 DEF At
    <2>2. CASE LatchDown(c)
      <3>1. Effect(me, "counted", "done", obj.count - 1)
        BY <1>1, <1>2, <2>2 DEF LatchDown, CanCall, Me
      <3> QED BY <3>1 DEF At
    <2>3. ASSUME NEW p \in {"out", "insync"}, CanCall(c, p), obj.count # 0, Wait(c, cv),
                 Goto(c, "insync"), UNCHANGED <<obj, todo>>
          PROVE  Effect(me, p, "insync", obj.count)
      BY <1>1, <1>2, <2>3 DEF CanCall, Me
    <2>4. ASSUME NEW p \in {"out", "insync"}, CanCall(c, p), obj.count = 0,
                 Goto(c, "done"), UNCHANGED <<threadVars, obj, todo>>
          PROVE  Effect(me, p, "done", 0)
      BY <1>1, <1>2, <2>4 DEF CanCall, Me
    <2>5. {"out", "insync", "done"} \subseteq At
      BY DEF At
    <2>6. LatchSyncWait(c) => \E p \in {"out", "insync"} : Effect(me, p, "insync", obj.count)
      BY <2>3 DEF LatchSyncWait
    <2>7. LatchSyncDone(c) => \E p \in {"out", "insync"} : Effect(me, p, "done", 0)
      BY <2>4 DEF LatchSyncDone
    <2> HIDE DEF Effect
    <2> QED BY <2>1, <2>2, <2>5, <2>6, <2>7 DEF LatchStep
  <1>5. PICK n : Effect(me, p, q, n)
    BY <1>4
  <1>6. /\ at' \in [Ctx -> At] /\ at'[me] = q
        /\ \A x \in Ctx \ {me} : at'[x] = at[x]
    BY <1>1, <1>5, GotoFacts
  <1>7. /\ p = "counted" => me \in Counted /\ obj.count # 0
        /\ n \in Nat
    <2>1. p = "counted" => me \in Counted /\ obj.count # 0
      BY <1>3, <1>5, FS_EmptySet
    <2> QED BY <1>2, <1>5, <2>1
  <1>8. /\ obj'.class = "CountDownLatch" /\ obj'.count = n
        /\ MustWait <=> obj.count # 0
        /\ MustWait' <=> n # 0
        /\ InsideAt = {"insync"}
    BY <1>2, <1>5 DEF MustWait, InsideAt
  <1>9. /\ CondInv' /\ WaitInv' /\ IdleInv'
        /\ waiting'[cv] # <<>> => waiting[cv] # <<>>
    <2>1. \/ obj.count = 1 /\ NotifyAll(c, cv)
          \/ Wait(c, cv) /\ obj' = obj /\ MustWait /\ at'[me] \in InsideAt
          \/ UNCHANGED threadVars /\ (MustWait => n # 0)
      BY <1>2, <1>5, <1>6, <1>7, <1>8
    <2> QED BY <1>1, <1>2, <1>5, <1>6, <1>8, <2>1, CallFacts
  <1>10. PrimTypeOK'
    <2>1. obj' \in [class : {"Semaphore", "CountDownLatch"}, count : Nat]
      BY <1>5, <1>7
    <2>2. ThreadsTypeOK'
      BY DEF ThreadsInv
    <2>3. todo' \in 0..MaxActive
      BY <1>5 DEF PrimInv, PrimTypeOK
    <2> QED BY <1>6, <2>1, <2>2, <2>3 DEF PrimTypeOK, At
  <1>11. LatchInv'
    <2>1. CASE p = "out" /\ q = "counted" /\ n = obj.count + 1
      <3>1. {x \in Ctx : at'[x] = "counted"} = Counted \cup {me} /\ me \notin Counted
        BY <1>5, <1>6, <2>1
      <3>2. Cardinality(Counted \cup {me}) = Cardinality(Counted) + 1
        BY <1>3, <3>1, FS_AddElement
      <3> QED BY <1>3, <1>8, <2>1, <3>1, <3>2 DEF LatchInv
    <2>2. CASE p = "counted" /\ q = "done" /\ n = obj.count - 1
      <3>1. {x \in Ctx : at'[x] = "counted"} = Counted \ {me} /\ me \in Counted
        BY <1>5, <1>6, <2>2
      <3> QED BY <1>3, <1>8, <2>2, <3>1, FS_RemoveElement DEF LatchInv
    <2>3. CASE p \in {"out", "insync"} /\ q \in {"insync", "done"} /\ n = obj.count
      <3>1. {x \in Ctx : at'[x] = "counted"} = Counted
        BY <1>5, <1>6, <2>3
      <3> QED BY <1>3, <1>8, <2>3, <3>1 DEF LatchInv
    <2> QED BY <1>5, <2>1, <2>2, <2>3
  <1>12. ParkInv'
    <2>1. CASE NotifyAll(c, cv)
      <3>1. waiting'[cv] = <<>>
        BY <1>1, <2>1, NotifyFacts DEF PrimInv
      <3> QED BY <3>1 DEF ParkInv
    <2>2. CASE n # 0
      BY <1>8, <2>2 DEF ParkInv
    <2>3. CASE obj.count = 0
      BY <1>2, <1>8, <1>9, <2>3 DEF ParkInv, PrimInv
    <2> QED BY <1>2, <1>5, <2>1, <2>2, <2>3
  <1>13. BarrierInv' /\ MutualExclusion' /\ NoLostWakeup' /\ EnoughAwake'
    BY <1>8 DEF BarrierInv, MutualExclusion, NoLostWakeup, EnoughAwake
  <1> QED BY <1>9, <1>10, <1>11, <1>12, <1>13 DEF PrimInv

\* set() and get() of the future.
LEMMA FutureStepInv ==
    ASSUME PrimInv, ThreadsInv', NEW c \in Core, FutureStep(c)
    PROVE  PrimInv'
  <1>1. PICK me \in Ctx : me = current[c]
    BY DEF PrimInv, ThreadsInv, ThreadsTypeOK
  <1>2. obj.class = "Future" /\ obj \in [class : {"Future"}, ready : BOOLEAN]
    BY DEF FutureStep, PrimInv, PrimTypeOK
  <1>3. PICK p \in At, q \in At, r \in BOOLEAN :
          /\ CanCall(c, p) /\ at[me] = p
          /\ Goto(c, q) \/ (at' = at /\ at[me] = q)
          /\ obj' = [class |-> "Future", ready |-> r]
          /\ todo' = todo
          /\ \/ p = "setter" /\ q = "done" /\ r = TRUE /\ NotifyAll(c, cv)
             \/ p = "out" /\ q = "out" /\ ~obj.ready /\ r = FALSE /\ Wait(c, cv) /\ obj' = obj
             \/ p = "out" /\ q = "done" /\ obj.ready /\ r = TRUE /\ UNCHANGED threadVars
    <2>1. CASE FutureSet(c)
      BY <1>1, <1>2, <2>1 DEF FutureSet, CanCall, Me, At
    <2>2. CASE FutureWait(c)
      BY <1>1, <1>2, <2>2 DEF FutureWait, CanCall, Me, At
    <2>3. CASE FutureGet(c)
      BY <1>1, <1>2, <2>3 DEF FutureGet, CanCall, Me, At
    <2> QED BY <2>1, <2>2, <2>3 DEF FutureStep
  <1>4. /\ at' \in [Ctx -> At] /\ at'[me] = q
        /\ \A x \in Ctx \ {me} : at'[x] = at[x]
    BY <1>1, <1>3, GotoFacts
  <1>5. /\ obj'.class = "Future" /\ obj'.ready = r
        /\ MustWait <=> ~obj.ready
        /\ MustWait' <=> ~r
        /\ InsideAt = {"out"}
    BY <1>2, <1>3 DEF MustWait, InsideAt
  <1>6. /\ CondInv' /\ WaitInv' /\ IdleInv'
        /\ waiting'[cv] # <<>> => waiting[cv] # <<>>
    BY <1>1, <1>2, <1>3, <1>4, <1>5, CallFacts
  <1>7. PrimTypeOK'
    BY <1>3, <1>4, <1>5 DEF PrimInv, PrimTypeOK, ThreadsInv, At
  <1>8. ParkInv'
    <2>1. CASE NotifyAll(c, cv)
      <3>1. waiting'[cv] = <<>>
        BY <1>1, <2>1, NotifyFacts DEF PrimInv
      <3> QED BY <3>1 DEF ParkInv
    <2>2. CASE obj.ready = r
      BY <1>2, <1>5, <1>6, <2>2 DEF ParkInv, PrimInv
    <2> QED BY <1>2, <1>3, <2>1, <2>2
  <1>9. BarrierInv' /\ LatchInv' /\ MutualExclusion' /\ NoLostWakeup' /\ EnoughAwake'
    BY <1>5 DEF BarrierInv, LatchInv, MutualExclusion, NoLostWakeup, EnoughAwake
  <1> QED BY <1>6, <1>7, <1>8, <1>9 DEF PrimInv
-----------------------------------------------------------------------------
(***************************************************************************)
(* The theorems.                                                           *)
(***************************************************************************)

\* The invariant holds at boot, for each of the five primitives.
LEMMA PrimInitInv == PrimInit => PrimInv
  <1> SUFFICES ASSUME PrimInit PROVE PrimInv
    OBVIOUS
  <1>1. ThreadsInv
    BY InitInv DEF PrimInit
  <1>2. /\ prev = [c \in Core |-> Null] /\ waitOn = [x \in Ctx |-> Null]
        /\ waiting[cv] = <<>> /\ \A x \in Ctx : woken[x] = <<>>
        /\ \A c \in Core : pc[c] = "start"
    BY Names, WorkersAssumption DEF PrimInit, ThreadsInit
  <1>3. \A x \in Thread : ~Going(x) /\ ~Taken(x) /\ x \notin Range(waiting[cv])
    BY <1>2, Names, ShortFacts DEF Going, Taken
  <1>4. CondInv /\ WaitInv /\ IdleInv /\ ParkInv /\ NoLostWakeup /\ EnoughAwake
    BY <1>2, <1>3, Names DEF CondInv, WaitInv, IdleInv, ParkInv, NoLostWakeup, EnoughAwake
  <1>5. ThreadsTypeOK /\ todo \in 0..MaxActive
    BY <1>1, ThreadsAssumption DEF ThreadsInv, PrimInit
  <1>6. CASE BLInit
    <2>1. PrimTypeOK /\ MutualExclusion /\ BarrierInv /\ LatchInv
      BY <1>5, <1>6 DEF BLInit, PrimTypeOK, MutualExclusion, BarrierInv, LatchInv
    <2> QED BY <1>1, <1>4, <2>1 DEF PrimInv
  <1>7. CASE SemInit
    <2>1. PrimTypeOK /\ MutualExclusion /\ BarrierInv /\ LatchInv
      BY <1>5, <1>7, SemaphoreAssumption
         DEF SemInit, PrimTypeOK, MutualExclusion, BarrierInv, LatchInv
    <2> QED BY <1>1, <1>4, <2>1 DEF PrimInv
  <1>8. CASE BarInit
    <2>1. PICK party \in {Core, Thread} :
            /\ obj = [class |-> "Barrier", count |-> Cardinality(party), party |-> party]
            /\ at = [x \in Ctx |-> IF x \in party THEN "out" ELSE "done"]
      BY <1>8 DEF BarInit
    <2>2. party \subseteq Ctx /\ Cardinality(party) \in Nat
      BY Names, ThreadsAssumption, FS_CardinalityType
    <2>3. {x \in obj.party : at[x] = "out"} = party
      BY <2>1, <2>2
    <2>4. BarrierInv
      BY <2>1, <2>2, <2>3 DEF BarrierInv
    <2>5. PrimTypeOK /\ MutualExclusion /\ LatchInv
      BY <1>5, <2>1, <2>2 DEF PrimTypeOK, MutualExclusion, LatchInv
    <2> QED BY <1>1, <1>4, <2>4, <2>5 DEF PrimInv
  <1>9. CASE LatchInit
    <2>1. {x \in Ctx : at[x] = "counted"} = {}
      BY <1>9 DEF LatchInit
    <2>2. LatchInv
      BY <1>9, <2>1, FS_EmptySet DEF LatchInit, LatchInv
    <2>3. PrimTypeOK /\ MutualExclusion /\ BarrierInv
      BY <1>5, <1>9 DEF LatchInit, PrimTypeOK, MutualExclusion, BarrierInv
    <2> QED BY <1>1, <1>4, <2>2, <2>3 DEF PrimInv
  <1>10. CASE FutureInit
    <2>1. PrimTypeOK /\ MutualExclusion /\ BarrierInv /\ LatchInv
      BY <1>5, <1>10 DEF FutureInit, PrimTypeOK, MutualExclusion, BarrierInv, LatchInv
    <2> QED BY <1>1, <1>4, <2>1 DEF PrimInv
  <1> QED BY <1>6, <1>7, <1>8, <1>9, <1>10 DEF PrimInit

\* Every step of the program is a step of the thread system under some client, or
\* none: what ThreadsProofs shows carries over.
LEMMA PrimImplementsThreads == PrimNext => [ThreadsNext]_threadVars
  <1> SUFFICES ASSUME PrimNext PROVE ThreadsNext \/ UNCHANGED threadVars
    OBVIOUS
  <1>1. ASSUME NEW c \in Core, Call(c)
        PROVE  Wait(c, cv) \/ NotifyOne(c, cv) \/ NotifyAll(c, cv) \/ UNCHANGED threadVars
    <2>1. CASE BLStep(c)
      BY <2>1 DEF BLStep, Lock, LockWait, Unlock
    <2>2. CASE SemStep(c)
      BY <2>2 DEF SemStep, Down, DownWait, Up
    <2>3. CASE BarStep(c)
      BY <2>3 DEF BarStep, Sync, SyncWait, SyncDone
    <2>4. CASE LatchStep(c)
      BY <2>4 DEF LatchStep, LatchUp, LatchDown, LatchSyncWait, LatchSyncDone
    <2>5. CASE FutureStep(c)
      BY <2>5 DEF FutureStep, FutureSet, FutureWait, FutureGet
    <2> QED BY <1>1, <2>1, <2>2, <2>3, <2>4, <2>5 DEF Call
  <1>2. ASSUME NEW c \in Core, PrimStep(c)
        PROVE  KernelStep(c) \/ ClientStep(c) \/ UNCHANGED threadVars
    <2>1. CASE Call(c)
      BY <1>1, <2>1, WorkersAssumption DEF ClientStep
    <2>2. CASE System(c) \/ Spawn(c) \/ Finish(c) \/ YieldCore(c)
      BY <2>2 DEF System, Spawn, Finish, YieldCore, ClientStep
    <2> QED BY <1>2, <2>1, <2>2 DEF PrimStep
  <1> QED BY <1>2 DEF PrimNext, ThreadsNext

\* Every step of the thread system and of a primitive preserves the invariant.
LEMMA PrimNextInv == PrimInv /\ [PrimNext]_workerVars => PrimInv'
  <1> SUFFICES ASSUME PrimInv, [PrimNext]_workerVars PROVE PrimInv'
    OBVIOUS
  <1>1. ThreadsInv'
    <2>1. [ThreadsNext]_threadVars
      BY PrimImplementsThreads DEF workerVars
    <2> QED BY <2>1, NextInv DEF PrimInv
  <1>2. ASSUME NEW c \in Core, PrimStep(c) PROVE PrimInv'
    BY <1>1, <1>2, OtherStepInv, BlockingLockInv, SemaphoreInv, BarrierStepInv,
       LatchStepInv, FutureStepInv DEF PrimStep, Call
  <1>3. CASE UNCHANGED workerVars
    <2>1. UNCHANGED <<obj, at, todo, pc, current, prev, ready, waiting, woken, action,
                      cond, waitOn, epoch, condEpoch>>
      BY <1>3 DEF workerVars, threadVars
    <2>2. Quiet
      BY <2>1, LocalQuiet DEF PrimInv
    <2>3. IdleInv' /\ todo' \in 0..MaxActive
      BY <2>1 DEF PrimInv, PrimTypeOK, IdleInv
    <2> QED BY <1>1, <2>1, <2>2, <2>3, Names, QuietInv
  <1> QED BY <1>2, <1>3 DEF PrimNext

\* The inductive invariant holds in every state of every program that uses one of
\* the primitives.
THEOREM PrimInvariant == PrimSpec => []PrimInv
  BY PrimInitInv, PrimNextInv, PTL DEF PrimSpec

\* A program that uses a primitive is one of the clients ThreadsProofs is about: the
\* composition implements the thread system, so all its theorems hold of it.
THEOREM PrimRefinesThreads == PrimSpec => ThreadsSpec
  <1>1. PrimInit => ThreadsInit
    BY DEF PrimInit
  <1>2. [PrimNext]_workerVars => [ThreadsNext]_threadVars
    BY PrimImplementsThreads DEF workerVars
  <1> QED BY <1>1, <1>2, PTL DEF PrimSpec, ThreadsSpec

\* BlockingLock: at most one context is between lock() and unlock(), and isLocked
\* says whether there is one.
THEOREM PrimMutualExclusion == PrimSpec => []MutualExclusion
  BY PrimInvariant, PTL DEF PrimInv

\* BlockingLock: unlock() loses no wake-up, though a waiter reaches the queue of
\* not_locked only in post_switch, after its lock is released.
THEOREM PrimNoLostWakeup == PrimSpec => []NoLostWakeup
  BY PrimInvariant, PTL DEF PrimInv

\* Semaphore: up() notifies one thread per unit, also when several units come before
\* any waiter has run.
THEOREM PrimEnoughAwake == PrimSpec => []EnoughAwake
  BY PrimInvariant, PTL DEF PrimInv

\* Barrier: nobody leaves sync() before everybody has entered it, whether the parties
\* spin on their idle threads or block.
THEOREM PrimNobodyPassesEarly == PrimSpec => []NobodyPassesEarly
  <1>1. PrimInv => NobodyPassesEarly
    <2> SUFFICES ASSUME PrimInv, obj.class = "Barrier",
                        NEW y \in obj.party, at[y] = "done", NEW x \in obj.party
                 PROVE  at[x] # "out"
      BY DEF NobodyPassesEarly
    <2> DEFINE Out == {z \in obj.party : at[z] = "out"}
    <2>1. /\ Cardinality(Out) = 0
          /\ obj.party \in {Core, Thread}
      BY DEF PrimInv, BarrierInv, PrimTypeOK
    <2>2. IsFiniteSet(Out)
      BY <2>1, ThreadsAssumption, FS_Subset
    <2>3. Out = {}
      BY <2>1, <2>2, FS_EmptySet
    <2> QED BY <2>3
  <1> QED BY <1>1, PrimInvariant, PTL

\* Barrier, CountDownLatch and Future: once the event has come nobody is parked, and
\* nobody between the unlock in wait and post_switch will be.
THEOREM PrimNobodyLeftParked == PrimSpec => []NobodyLeftParked
  <1>1. PrimInv => NobodyLeftParked
    <2> SUFFICES ASSUME PrimInv, Open PROVE NobodyLeftParked
      BY DEF NobodyLeftParked
    <2>1. ~MustWait /\ obj.class \in {"Barrier", "CountDownLatch", "Future"}
      BY DEF Open, MustWait
    <2>2. waiting[cv] = <<>>
      BY <2>1 DEF PrimInv, ParkInv
    <2>3. ASSUME NEW x \in Thread, x \in Range(prev), action[x] = "Wait" PROVE Awake(x)
      <3>1. PICK c \in Core : prev[c] = x
        BY <2>3 DEF PrimInv, ThreadsInv, ThreadsTypeOK, Range
      <3>2. condEpoch[x] # epoch[cv]
        BY <2>1, <2>3, <3>1 DEF PrimInv, WaitInv, Going
      <3> QED BY <2>3, <3>1, <3>2 DEF Awake
    <2> QED BY <2>2, <2>3 DEF NobodyLeftParked
  <1> QED BY <1>1, PrimInvariant, PTL
=============================================================================
