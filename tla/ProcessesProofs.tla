-------------------------- MODULE ProcessesProofs --------------------------
(***************************************************************************)
(* Pids name one process and a living parent collects its own children,    *)
(* for every number of cores, threads, table slots and forks; and a        *)
(* process, whose thread fork makes without make_thread, is still a well   *)
(* placed thread.                                                          *)
(***************************************************************************)
EXTENDS Processes, ThreadsProofs

\* The first core creates one thread, before there is any other; until that thread
\* has registered as pid 1 it is alone and the table is empty.
BootInv ==
    /\ \A t \in Thread : pc[t] \notin {"mk_reap", "mk_alloc"}
    /\ \A t \in Thread : pc[t] = "stopped" => at[t] = "exit"
    /\ \A c \in Core : pc[c] \in {"mk_reap", "mk_alloc"} => c = Bsp
    /\ pc[Bsp] \in {"start", "mk_reap", "mk_alloc"} =>
         /\ \A t \in Thread : pc[t] = "free" /\ at[t] = "boot"
         /\ \A p \in Pid : ~used[p]
    /\ \A t \in Thread : pc[t] # "free" /\ at[t] = "boot" =>
         /\ \A u \in Thread \ {t} : pc[u] = "free"
         /\ \A p \in Pid : ~used[p]

\* What a living process and its system call hold are pids.
ArgInv ==
    \A t \in Thread : Alive(t) =>
      /\ pid[t] \in Pid
      /\ at[t] \in {"fork", "waitpid"} => arg[t] \in Pid

\* Forks are numbered as they happen.
HistInv ==
    /\ serial \in [Pid -> Nat] /\ creator \in [Pid -> Nat] /\ id \in [Thread -> Nat]
    /\ \A p \in Pid : serial[p] <= forks /\ creator[p] <= forks
    /\ \A t \in Thread : id[t] <= forks

\* t has allocated a pid for its child and not made the child's thread yet.
Forking(t) == Alive(t) /\ at[t] = "fork"

\* While a process lives, its children's slots name its pid: it keeps its pid, and
\* nobody else was created by the same fork.
FamilyInv ==
    /\ parent[1] = 0
    /\ \A t, u \in Thread : Alive(t) /\ Alive(u) /\ id[t] = id[u] => t = u
    /\ \A t \in Thread, p \in Pid \ {1} :
         Alive(t) /\ used[p] /\ creator[p] = id[t] => parent[p] = pid[t]
    /\ \A t \in Thread : Forking(t) =>
         /\ \A u \in Thread : Alive(u) => id[u] # serial[arg[t]]
         /\ \A u \in Thread \ {t} : Forking(u) => serial[arg[u]] # serial[arg[t]]
         /\ \A p \in Pid : creator[p] # serial[arg[t]]

ProcInv ==
    /\ ThreadsInv
    /\ ProcTypeOK
    /\ BootInv
    /\ ArgInv
    /\ HistInv
    /\ PidsDistinct
    /\ FamilyInv

\* What a call leaves alone when it neither changes the table nor makes a process.
tableRest == <<used, parent, exited, pid, forks, serial, id, creator>>
-----------------------------------------------------------------------------
(***************************************************************************)
(* The threads of processes.                                               *)
(***************************************************************************)

\* fork puts a new TCB on the ready queue and counts it, without make_thread.
LEMMA ForkAddThreads ==
    ASSUME ThreadsInv, NEW c \in Core, ForkAdd(c)
    PROVE  ThreadsInv'
  <1>1. PICK n \in Thread :
          /\ Free(c) /\ pc[n] = "free" /\ nActive' = nActive + 1
          /\ pc' = [pc EXCEPT ![n] = "entry_reap"]
          /\ dpc' = [dpc EXCEPT ![n] = 1]
          /\ ready' = Append(ready, n)
          /\ UNCHANGED <<current, prev, reaper, waiting, epoch, action, cond, condEpoch,
                         waitOn, woken, victim, rsp0, halted>>
    BY DEF ForkAdd, Runs, InBody, Activate
  <1>2. PICK w0 \in Ctx \cup Cond : PlacedAt(n, "free", w0)
    BY <1>1 DEF ThreadsInv, Placed, PlacedAt
  <1>3. /\ pc'[n] = "entry_reap" /\ dpc'[n] = 1 /\ n \notin Core
        /\ \A y \in Ctx \ {n} : pc'[y] = pc[y] /\ dpc'[y] = dpc[y]
    BY <1>1, Names DEF ThreadsInv, ThreadsTypeOK
  <1>4. /\ ready' \in Seq(Thread) /\ IsInjective(ready')
        /\ Range(ready') = Range(ready) \cup {n}
    BY <1>1, <1>2, AppendFacts DEF PlacedAt, ThreadsInv, ThreadsTypeOK, QueueInv
  <1>5. QueueInv'
    BY <1>1, <1>4 DEF ThreadsInv, QueueInv
  <1>6. ThreadsTypeOK'
    <2>1. /\ pc' \in [Ctx -> ThreadPc \cup IdlePc]
          /\ \A d \in Core : pc'[d] \in IdlePc
          /\ \A t \in Thread : pc'[t] \in ThreadPc
      <3>1. pc'[n] \in ThreadPc
        BY <1>3 DEF ThreadPc
      <3>2. pc' \in [Ctx -> ThreadPc \cup IdlePc]
        BY <1>1, <1>3, <3>1 DEF ThreadsInv, ThreadsTypeOK
      <3> QED BY <1>3, <3>1, <3>2, Names DEF ThreadsInv, ThreadsTypeOK
    <2>2. dpc' \in [Ctx -> Nat]
      BY <1>1 DEF ThreadsInv, ThreadsTypeOK
    <2>3. nActive' \in Nat
      BY <1>1 DEF ThreadsInv, ThreadsTypeOK
    <2> QED BY <1>1, <1>4, <2>1, <2>2, <2>3 DEF ThreadsInv, ThreadsTypeOK
  <1>7. ASSUME NEW t \in Thread PROVE Placed(t)'
    <2>1. CASE t = n
      <3>1. PlacedAt(t, "ready", w0)'
        BY <1>1, <1>2, <1>3, <1>4, <2>1 DEF PlacedAt
      <3> QED BY <3>1 DEF Placed, Kind
    <2>2. CASE t # n
      <3>1. PICK k \in Kind, w \in Ctx \cup Cond : PlacedAt(t, k, w)
        BY DEF ThreadsInv, Placed
      <3>2. dpc'[t] = dpc[t] /\ pc'[t] = pc[t]
        BY <1>3, <2>2, Names
      <3>3. PlacedAt(t, k, w)'
        BY <1>1, <1>4, <2>2, <3>1, <3>2 DEF PlacedAt
      <3> QED BY <3>3 DEF Placed
    <2> QED BY <2>1, <2>2
  <1>8. \A d \in Core : CoreInv(d)'
    <2>1. \A d \in Core : current[d] \in Ctx /\ current[d] # n /\ d # n
      BY <1>2, <1>3 DEF PlacedAt, ThreadsInv, ThreadsTypeOK
    <2> QED BY <1>1, <1>3, <2>1, CoreFrame, Names
  <1>9. CountInv'
    <2>1. Live' = Live \cup {n} /\ n \notin Live /\ IsFiniteSet(Live)
      <3>1. \A y \in Thread : (pc'[y] # "free") <=> (pc[y] # "free" \/ y = n)
        BY <1>1, <1>3, Names
      <3> QED BY <1>1, <3>1, Names, FS_Subset DEF Live
    <2>2. Making' = Making /\ IsFiniteSet(Making)
      <3>1. \A y \in Ctx : (pc'[y] \in {"mk_reap", "mk_alloc"})
                              <=> (pc[y] \in {"mk_reap", "mk_alloc"})
        BY <1>1, <1>3
      <3> QED BY <3>1, Names, FS_Subset DEF Making
    <2>3. Cardinality(Live') = Cardinality(Live) + 1
      BY <2>1, FS_AddElement
    <2>4. Cardinality(Live) \in Nat /\ Cardinality(Making) \in Nat
      BY <2>1, <2>2, FS_CardinalityType
    <2> QED BY <1>1, <2>2, <2>3, <2>4 DEF CountInv, ThreadsInv, Free
  <1> QED BY <1>5, <1>6, <1>7, <1>8, <1>9 DEF ThreadsInv

\* Every other step is one of the thread system.
LEMMA ProcThreads == ThreadsInv /\ [ProcNext]_procVars => ThreadsInv'
  <1> SUFFICES ASSUME ThreadsInv, [ProcNext]_procVars PROVE ThreadsInv'
    OBVIOUS
  <1>1. ASSUME NEW c \in Core, Kernel(c) PROVE [ThreadsNext]_threadVars
    BY <1>1 DEF Kernel, ThreadsNext, ClientStep
  <1>2. ASSUME NEW c \in Core, Syscall(c), ~ForkAdd(c) PROVE [ThreadsNext]_threadVars
    <2>1. CASE UNCHANGED threadVars
      BY <2>1
    <2>2. CASE Yield(c) \/ Stop(c)
      BY <2>2 DEF ThreadsNext, ClientStep
    <2> QED BY <1>2, <2>1, <2>2
            DEF Syscall, Register, SchedYield, SchedYieldReturn, Fork, ForkFull, ChildReturn,
                Exit, ExitStop, Waitpid, WaitpidFail, WaitpidReap, WaitpidYield
  <1>3. CASE UNCHANGED procVars
    BY <1>3, NextInv DEF procVars
  <1> QED BY <1>1, <1>2, <1>3, NextInv, ForkAddThreads DEF ProcNext
-----------------------------------------------------------------------------
(***************************************************************************)
(* Steps that make no process and do not change the table.                 *)
(***************************************************************************)

\* Thread t runs: if it has registered, booting is over.
LEMMA RunsFacts ==
    ASSUME ProcInv, NEW c \in Core, NEW t \in Thread, NEW a, Runs(c, t, a)
    PROVE  /\ pc[t] = "body" /\ t = current[c] /\ at[t] = a /\ Free(c)
           /\ a # "boot" => /\ pc[Bsp] \notin {"start", "mk_reap", "mk_alloc"}
                            /\ \A u \in Thread : pc[u] = "free" \/ at[u] # "boot"
           /\ a \notin {"boot", "exit"} => Alive(t)
  BY DEF Runs, InBody, Me, ProcInv, BootInv, Alive

\* The thread system moves nobody into or out of a process.
LEMMA KernelBoot ==
    ASSUME ThreadsInv, BootInv, NEW c \in Core,
           KernelStep(c) \/ (Me(c) \in Core /\ MakeThread(c)),
           UNCHANGED <<used, at>>
    PROVE  BootInv' /\ \A t \in Thread : Alive(t)' <=> Alive(t)
  <1>1. PICK me \in Ctx : me = current[c]
    BY DEF ThreadsInv, ThreadsTypeOK
  <1>2. /\ pc \in [Ctx -> ThreadPc \cup IdlePc]
        /\ \A d \in Core : pc[d] \in IdlePc
        /\ \A t \in Thread : pc[t] \in ThreadPc
    BY DEF ThreadsInv, ThreadsTypeOK
  <1>3. CASE pc' = pc
    BY <1>3 DEF BootInv, Alive
  <1>4. ASSUME NEW v, pc' = [pc EXCEPT ![me] = v],
               \/ me \in Core /\ v \notin {"start", "mk_reap", "mk_alloc"}
               \/ /\ me = Bsp /\ pc[me] \in {"start", "mk_reap"}
                  /\ v \in {"mk_reap", "mk_alloc"}
               \/ me \in Thread /\ pc[me] = "entry_reap" /\ v = "body"
        PROVE  BootInv' /\ \A t \in Thread : Alive(t)' <=> Alive(t)
    <2>1. pc'[me] = v /\ \A y \in Ctx \ {me} : pc'[y] = pc[y]
      BY <1>2, <1>4
    <2>2. \A t \in Thread : \/ pc'[t] = pc[t]
                            \/ pc[t] = "entry_reap" /\ pc'[t] = "body"
      BY <1>4, <2>1, Names
    <2>3. /\ \A d \in Core : pc'[d] \in {"mk_reap", "mk_alloc"} => d = Bsp
          /\ pc'[Bsp] \in {"start", "mk_reap", "mk_alloc"}
               => pc[Bsp] \in {"start", "mk_reap", "mk_alloc"}
      BY <1>4, <2>1, Names DEF BootInv
    <2> QED BY <2>2, <2>3 DEF BootInv, Alive
  <1>5. CASE \/ PostSwitch(c) \/ ReapRemove(c) \/ WaitReturn(c) \/ WaitSwitch(c) \/ Wake(c)
    <2>1. pc' = pc
      BY <1>5 DEF PostSwitch, ReapRemove, WaitReturn, WaitSwitch, Wake
    <2> QED BY <1>3, <2>1
  <1>6. CASE ReapDone(c)
    <2>1. pc[me] \in Reaping /\ pc' = [pc EXCEPT ![me] = AfterReap(pc[me])]
      BY <1>1, <1>6 DEF ReapDone, Me
    <2>2. \/ me \in Core /\ AfterReap(pc[me]) \notin {"start", "mk_reap", "mk_alloc"}
          \/ /\ me = Bsp /\ pc[me] \in {"start", "mk_reap"}
             /\ AfterReap(pc[me]) \in {"mk_reap", "mk_alloc"}
          \/ me \in Thread /\ pc[me] = "entry_reap" /\ AfterReap(pc[me]) = "body"
      <3>1. CASE me \in Thread
        BY <1>2, <2>1, <3>1 DEF Reaping, AfterReap, BootInv, ThreadPc
      <3>2. CASE me \in Core
        BY <1>2, <2>1, <3>2 DEF Reaping, AfterReap, BootInv, IdlePc
      <3> QED BY <3>1, <3>2, Names
    <2> QED BY <1>4, <2>1, <2>2
  <1>7. CASE LoopSwitch(c) \/ LoopIdle(c)
    <2>1. pc[me] = "loop_get" /\ pc' = [pc EXCEPT ![me] = "loop_reap"]
      BY <1>1, <1>7 DEF LoopSwitch, LoopIdle, Me
    <2>2. me \in Core
      BY <1>2, <2>1, Names DEF ThreadPc
    <2> QED BY <1>4, <2>1, <2>2
  <1>8. CASE EnterLoop(c)
    <2>1. me = c /\ pc' = [pc EXCEPT ![me] = "loop_reap"]
      BY <1>1, <1>8 DEF EnterLoop, Me
    <2> QED BY <1>4, <2>1
  <1>9. CASE Me(c) \in Core /\ MakeThread(c)
    <2>1. /\ me \in Core /\ (pc[me] = "body" \/ (me = Bsp /\ pc[me] = "start"))
          /\ pc' = [pc EXCEPT ![me] = "mk_reap"]
      BY <1>1, <1>9 DEF MakeThread, Me
    <2>2. me = Bsp /\ pc[me] = "start"
      BY <1>2, <2>1 DEF IdlePc
    <2> QED BY <1>4, <2>1, <2>2
  <1>10. CASE ReapFree(c)
    <2>1. victim[me] \in Thread /\ pc' = [pc EXCEPT ![victim[me]] = "free"]
      BY <1>1, <1>10 DEF ReapFree, Me, ThreadsInv, ThreadsTypeOK
    <2>2. PICK v \in Thread : v = victim[me]
      BY <2>1
    <2>3. pc[v] = "stopped"
      <3>1. PICK k \in Kind, w \in Ctx \cup Cond : PlacedAt(v, k, w)
        BY DEF ThreadsInv, Placed
      <3>2. k = "victim"
        BY <2>2, <3>1 DEF PlacedAt
      <3> QED BY <3>1, <3>2 DEF PlacedAt
    <2>4. pc'[v] = "free" /\ \A y \in Ctx \ {v} : pc'[y] = pc[y]
      BY <1>2, <2>1, <2>2, Names
    <2>5. at[v] = "exit"
      BY <2>3 DEF BootInv
    <2>6. \A d \in Core : pc'[d] = pc[d]
      BY <2>4, Names
    <2>7. BootInv'
      BY <2>3, <2>4, <2>5, <2>6, Names DEF BootInv
    <2>8. \A t \in Thread : Alive(t)' <=> Alive(t)
      BY <2>4, <2>5, Names DEF Alive
    <2> QED BY <2>7, <2>8
  <1>11. ASSUME NEW n \in Thread, MakeThreadAdd(c, n)
         PROVE  BootInv' /\ \A t \in Thread : Alive(t)' <=> Alive(t)
    <2>1. /\ pc[me] = "mk_alloc"
          /\ pc' = [pc EXCEPT ![n] = "entry_reap",
                              ![me] = IF me \in Core THEN "booted" ELSE "body"]
      BY <1>1, <1>11 DEF MakeThreadAdd, Me
    <2>2. me \in Core /\ me = Bsp
      BY <2>1, Names DEF BootInv
    <2>3. /\ pc'[n] = "entry_reap" /\ pc'[Bsp] = "booted"
          /\ \A y \in Ctx \ {n, Bsp} : pc'[y] = pc[y]
      BY <1>2, <2>1, <2>2, Names
    <2>4. /\ \A t \in Thread : pc[t] = "free" /\ at[t] = "boot"
          /\ \A p \in Pid : ~used[p]
      BY <2>1, <2>2 DEF BootInv
    <2>5. \A t \in Thread \ {n} : pc'[t] = "free"
      BY <2>3, <2>4, Names
    <2>6. \A d \in Core : pc'[d] = pc[d] \/ d = Bsp
      BY <2>3, Names
    <2>7. BootInv'
      BY <2>3, <2>4, <2>5, <2>6, Names DEF BootInv
    <2>8. \A t \in Thread : Alive(t)' <=> Alive(t)
      BY <2>4 DEF Alive
    <2> QED BY <2>7, <2>8
  <1> QED BY <1>5, <1>6, <1>7, <1>8, <1>9, <1>10, <1>11 DEF KernelStep

\* Nobody is born and the table stays.
LEMMA FrameInv ==
    ASSUME ProcInv, UNCHANGED tableRest,
           \A t \in Thread : /\ Alive(t)' => Alive(t)
                             /\ Forking(t)' => Forking(t) /\ arg'[t] = arg[t]
    PROVE  HistInv' /\ PidsDistinct' /\ FamilyInv'
  <1>1. UNCHANGED <<used, parent, exited, pid, forks, serial, id, creator>>
    BY DEF tableRest
  <1>2. HistInv'
    BY <1>1 DEF ProcInv, HistInv
  <1>3. PidsDistinct'
    <2> SUFFICES ASSUME NEW t \in Thread, Alive(t)'
                 PROVE  /\ used'[pid'[t]] /\ ~exited'[pid'[t]]
                        /\ \A u \in Thread \ {t} : Alive(u)' => pid'[u] # pid'[t]
                        /\ at'[t] = "fork" =>
                             /\ used'[arg'[t]] /\ ~exited'[arg'[t]]
                             /\ \A u \in Thread : Alive(u)' =>
                                   /\ pid'[u] # arg'[t]
                                   /\ u # t /\ at'[u] = "fork" => arg'[u] # arg'[t]
      BY DEF PidsDistinct
    <2>1. Alive(t)
      OBVIOUS
    <2>2. \A u \in Thread : Alive(u)' /\ at'[u] = "fork" => Forking(u) /\ arg'[u] = arg[u]
      BY DEF Forking
    <2> QED BY <1>1, <2>1, <2>2 DEF ProcInv, PidsDistinct, Forking
  <1>4. FamilyInv'
    BY <1>1 DEF ProcInv, FamilyInv
  <1> QED BY <1>2, <1>3, <1>4

\* A registered process moves in its program.
LEMMA CallBoot ==
    ASSUME ProcInv, NEW c \in Core, NEW t \in Thread, NEW a, Runs(c, t, a), a # "boot",
           pc' = pc, at'[t] # "boot", \A u \in Thread \ {t} : at'[u] = at[u]
    PROVE  BootInv'
  <1>1. /\ pc[t] = "body" /\ pc[Bsp] \notin {"start", "mk_reap", "mk_alloc"}
        /\ \A u \in Thread : pc[u] = "free" \/ at[u] # "boot"
    BY RunsFacts
  <1> QED BY <1>1 DEF ProcInv, BootInv

\* The calls that only move the caller.
LEMMA MoveInv ==
    ASSUME ProcInv, ThreadsInv', NEW c \in Core, NEW t \in Thread,
           NEW a \in {"user", "yield", "child", "waitpid"}, Runs(c, t, a),
           NEW b \in {"user", "yield", "waitpid"},
           pc' = pc, at' = [at EXCEPT ![t] = b], UNCHANGED tableRest,
           arg' \in [Thread -> Pid \cup {0}], \A u \in Thread \ {t} : arg'[u] = arg[u],
           b = "waitpid" => arg'[t] \in Pid,
           nextPid' \in Pid \ {1}, gs28' \in [Core -> Rsp], ursp' \in [Thread -> Rsp]
    PROVE  ProcInv'
  <1>1. Alive(t) /\ at[t] = a
    BY RunsFacts
  <1>2. at'[t] = b /\ \A u \in Thread \ {t} : at'[u] = at[u]
    BY DEF ProcInv, ProcTypeOK
  <1>3. \A u \in Thread : /\ Alive(u)' <=> Alive(u)
                          /\ Forking(u)' => Forking(u) /\ u # t
    BY <1>1, <1>2 DEF Alive, Forking
  <1>4. BootInv'
    BY <1>2, CallBoot
  <1>5. HistInv' /\ PidsDistinct' /\ FamilyInv'
    BY <1>3, FrameInv
  <1>6. ArgInv'
    <2>1. pid' = pid
      BY DEF tableRest
    <2> QED BY <1>2, <1>3, <2>1 DEF ProcInv, ArgInv
  <1>7. ProcTypeOK'
    <2>1. /\ ThreadsTypeOK' /\ UNCHANGED <<used, parent, exited, pid, forks>>
      BY DEF ThreadsInv, tableRest
    <2>2. at' \in [Thread -> {"boot", "user", "yield", "fork", "child", "waitpid", "exit"}]
      BY DEF ProcInv, ProcTypeOK
    <2> QED BY <2>1, <2>2 DEF ProcInv, ProcTypeOK
  <1> QED BY <1>4, <1>5, <1>6, <1>7 DEF ProcInv

\* A remainder.
LEMMA Remainder ==
    ASSUME NEW m \in Nat, NEW n \in Nat, n > 0 PROVE m % n \in Nat /\ m % n <= n - 1
  OBVIOUS

\* The search for a pid stays in the table, and never gives out pid 1.
LEMMA CandidateFacts ==
    ASSUME ProcInv, NEW k \in Nat
    PROVE  Candidate(k) \in Pid \ {1}
  <1>1. nextPid \in Nat /\ nextPid >= 2 /\ MaxProcesses - 2 \in Nat /\ MaxProcesses - 2 > 0
    BY ProcessesAssumption DEF ProcInv, ProcTypeOK, Pid
  <1>2. nextPid - 2 + k \in Nat
    BY <1>1
  <1>3. PICK r \in Nat : /\ r = (nextPid - 2 + k) % (MaxProcesses - 2)
                         /\ r <= (MaxProcesses - 2) - 1
    BY <1>1, <1>2, Remainder
  <1>4. Candidate(k) = 2 + r
    BY <1>3 DEF Candidate
  <1> QED BY <1>3, <1>4, ProcessesAssumption DEF Pid

\* sched_yield, a refused fork, the start of a child, waitpid without a result.
LEMMA PlainCalls ==
    ASSUME ProcInv, ThreadsInv', NEW c \in Core,
           \/ SchedYield(c) \/ SchedYieldReturn(c) \/ ForkFull(c) \/ ChildReturn(c)
           \/ Waitpid(c) \/ WaitpidFail(c) \/ WaitpidYield(c)
    PROVE  ProcInv'
  <1>1. /\ gs28 \in [Core -> Rsp] /\ ursp \in [Thread -> Rsp] /\ nextPid \in Pid \ {1}
        /\ arg \in [Thread -> Pid \cup {0}]
        /\ at \in [Thread -> {"boot", "user", "yield", "fork", "child", "waitpid", "exit"}]
    BY DEF ProcInv, ProcTypeOK
  <1>2. ASSUME NEW t \in Thread, NEW v \in Rsp, Enter(c, t, v)
        PROVE  gs28' \in [Core -> Rsp] /\ ursp' \in [Thread -> Rsp]
    BY <1>1, <1>2 DEF Enter
  <1>3. ASSUME NEW t \in Thread, Leave(c, t)
        PROVE  /\ gs28' \in [Core -> Rsp] /\ ursp' \in [Thread -> Rsp]
               /\ at' = [at EXCEPT ![t] = "user"]
               /\ arg' \in [Thread -> Pid \cup {0}] /\ \A u \in Thread \ {t} : arg'[u] = arg[u]
    BY <1>1, <1>3 DEF Leave
  <1>4. UNCHANGED threadVars => pc' = pc
    BY DEF threadVars
  <1>5. Yield(c) => pc' = pc
    BY DEF Yield
  <1>6. CASE SchedYield(c)
    BY <1>1, <1>2, <1>5, <1>6, MoveInv, ZenonT(30) DEF SchedYield, tableVars, tableRest
  <1>7. CASE SchedYieldReturn(c)
    BY <1>1, <1>3, <1>4, <1>7, MoveInv DEF SchedYieldReturn, tableVars, tableRest
  <1>8. CASE ForkFull(c)
    <2>1. PICK t \in Thread, v \in Rsp :
            /\ Runs(c, t, "user") /\ Enter(c, t, v) /\ nextPid' = Candidate(MaxProcesses)
            /\ UNCHANGED <<threadVars, at, arg>> /\ UNCHANGED tableRest
      BY <1>8 DEF ForkFull, tableRest
    <2>2. at' = [at EXCEPT ![t] = "user"]
      BY <1>1, <2>1, RunsFacts
    <2>3. nextPid' \in Pid \ {1}
      BY <2>1, CandidateFacts, ProcessesAssumption
    <2> QED BY <1>1, <1>2, <1>4, <2>1, <2>2, <2>3, MoveInv
  <1>9. CASE ChildReturn(c)
    <2>1. PICK t \in Thread :
            /\ Runs(c, t, "child") /\ gs28' = [gs28 EXCEPT ![c] = ursp[t]]
            /\ at' = [at EXCEPT ![t] = "user"]
            /\ UNCHANGED <<threadVars, nextPid, ursp, arg>> /\ UNCHANGED tableRest
      BY <1>9 DEF ChildReturn, tableVars, tableRest
    <2>2. gs28' \in [Core -> Rsp]
      BY <1>1, <2>1
    <2> QED BY <1>1, <1>4, <2>1, <2>2, MoveInv
  <1>10. CASE Waitpid(c)
    <2>1. PICK t \in Thread, v \in Rsp, p \in Pid :
            /\ Runs(c, t, "user") /\ Enter(c, t, v) /\ arg' = [arg EXCEPT ![t] = p]
            /\ at' = [at EXCEPT ![t] = "waitpid"]
            /\ UNCHANGED <<threadVars, nextPid>> /\ UNCHANGED tableRest
      BY <1>10 DEF Waitpid, tableVars, tableRest
    <2>2. /\ arg' \in [Thread -> Pid \cup {0}] /\ arg'[t] \in Pid
          /\ \A u \in Thread \ {t} : arg'[u] = arg[u]
      BY <1>1, <2>1
    <2> QED BY <1>1, <1>2, <1>4, <2>1, <2>2, MoveInv
  <1>11. CASE WaitpidFail(c)
    BY <1>1, <1>3, <1>4, <1>11, MoveInv DEF WaitpidFail, tableVars, tableRest
  <1>12. CASE WaitpidYield(c)
    <2>1. PICK t \in Thread :
            /\ Runs(c, t, "waitpid") /\ pc' = pc
            /\ UNCHANGED <<nextPid, gs28, ursp, at, arg>> /\ UNCHANGED tableRest
      BY <1>4, <1>5, <1>12 DEF WaitpidYield, tableVars, tableRest
    <2>2. at' = [at EXCEPT ![t] = "waitpid"] /\ Alive(t) /\ at[t] = "waitpid"
      BY <1>1, <2>1, RunsFacts
    <2>3. arg'[t] \in Pid
      BY <2>1, <2>2 DEF ProcInv, ArgInv
    <2> QED BY <1>1, <2>1, <2>2, <2>3, MoveInv
  <1> QED BY <1>6, <1>7, <1>8, <1>9, <1>10, <1>11, <1>12

\* The thread system, and the end of a thread that has exited.
LEMMA KernelInv ==
    ASSUME ProcInv, ThreadsInv', NEW c \in Core, Kernel(c) \/ ExitStop(c)
    PROVE  ProcInv'
  <1>1. /\ UNCHANGED tableRest
        /\ UNCHANGED <<used, parent, exited, nextPid, pid, gs28, ursp, at, arg, forks>>
    BY DEF Kernel, ExitStop, tableVars, tableRest
  <1>2. BootInv' /\ \A t \in Thread : Alive(t)' <=> Alive(t)
    <2>1. CASE Kernel(c)
      BY <1>1, <2>1, KernelBoot DEF Kernel, ProcInv
    <2>2. CASE ExitStop(c)
      <3>1. PICK t \in Thread : Runs(c, t, "exit") /\ Stop(c)
        BY <2>2 DEF ExitStop
      <3>2. /\ t = current[c] /\ at[t] = "exit"
            /\ pc[Bsp] \notin {"start", "mk_reap", "mk_alloc"}
            /\ \A u \in Thread : pc[u] = "free" \/ at[u] # "boot"
        BY <3>1, RunsFacts
      <3>0. pc' = [pc EXCEPT ![t] = "stopped"]
        BY <3>1, <3>2 DEF Stop, Me
      <3>3. pc'[t] = "stopped" /\ \A y \in Ctx \ {t} : pc'[y] = pc[y]
        BY <3>0, Names DEF ProcInv, ThreadsInv, ThreadsTypeOK
      <3>4. \A d \in Core : pc'[d] = pc[d]
        BY <3>3, Names
      <3>5. BootInv'
        BY <1>1, <3>2, <3>3, <3>4, Names DEF ProcInv, BootInv
      <3>6. \A u \in Thread : Alive(u)' <=> Alive(u)
        BY <1>1, <3>2, <3>3, Names DEF Alive
      <3> QED BY <3>5, <3>6
    <2> QED BY <2>1, <2>2
  <1>3. HistInv' /\ PidsDistinct' /\ FamilyInv'
    BY <1>1, <1>2, FrameInv DEF Forking
  <1>4. ArgInv'
    BY <1>1, <1>2 DEF ProcInv, ArgInv
  <1>5. ProcTypeOK'
    BY <1>1 DEF ProcInv, ProcTypeOK, ThreadsInv
  <1> QED BY <1>2, <1>3, <1>4, <1>5 DEF ProcInv

\* kernel_main registers as pid 1: nobody else is there.
LEMMA RegisterInv ==
    ASSUME ProcInv, ThreadsInv', NEW c \in Core, Register(c)
    PROVE  ProcInv'
  <1>1. PICK t \in Thread :
          /\ Runs(c, t, "boot")
          /\ pid' = [pid EXCEPT ![t] = 1]
          /\ used' = [p \in Pid |-> p = 1]
          /\ parent' = [p \in Pid |-> 0]
          /\ exited' = [p \in Pid |-> FALSE]
          /\ nextPid' = 2
          /\ at' = [at EXCEPT ![t] = "user"]
          /\ UNCHANGED <<pc, gs28, ursp, arg, forks, serial, id, creator>>
    BY DEF Register, threadVars
  <1>2. /\ pc[t] = "body" /\ at[t] = "boot" /\ 1 \in Pid /\ 2 \in Pid
        /\ \A u \in Thread \ {t} : pc[u] = "free"
    BY <1>1, RunsFacts, ProcessesAssumption DEF ProcInv, BootInv, Pid
  <1>3. /\ pid'[t] = 1 /\ at'[t] = "user" /\ \A u \in Thread \ {t} : at'[u] = at[u]
    BY <1>1 DEF ProcInv, ProcTypeOK
  <1>4. \A u \in Thread : Alive(u)' <=> u = t
    BY <1>1, <1>2, <1>3 DEF Alive
  <1>5. /\ used'[1] /\ ~exited'[1] /\ parent'[1] = 0
        /\ \A p \in Pid \ {1} : ~used'[p]
    BY <1>1, <1>2
  <1>6. PidsDistinct'
    BY <1>3, <1>4, <1>5 DEF PidsDistinct
  <1>7. FamilyInv'
    BY <1>3, <1>4, <1>5 DEF FamilyInv, Forking
  <1>8. ArgInv'
    BY <1>2, <1>3, <1>4 DEF ArgInv
  <1>9. HistInv'
    BY <1>1 DEF ProcInv, HistInv
  <1>10. BootInv'
    <2>1. pc[Bsp] \notin {"start", "mk_reap", "mk_alloc"}
      BY <1>2 DEF ProcInv, BootInv
    <2> QED BY <1>1, <1>2, <1>3, <2>1 DEF ProcInv, BootInv
  <1>11. ProcTypeOK'
    <2>1. /\ used' \in [Pid -> BOOLEAN] /\ parent' \in [Pid -> Pid \cup {0}]
          /\ exited' \in [Pid -> BOOLEAN] /\ nextPid' \in Pid \ {1}
      BY <1>1, <1>2
    <2>2. /\ pid' \in [Thread -> Pid \cup {0}]
          /\ at' \in [Thread -> {"boot", "user", "yield", "fork", "child", "waitpid", "exit"}]
      BY <1>1, <1>2 DEF ProcInv, ProcTypeOK
    <2> QED BY <1>1, <2>1, <2>2 DEF ProcInv, ProcTypeOK, ThreadsInv
  <1> QED BY <1>6, <1>7, <1>8, <1>9, <1>10, <1>11 DEF ProcInv

\* fork allocates a slot: its pid is nobody's, and the number it gets is new.
LEMMA ForkInv ==
    ASSUME ProcInv, ThreadsInv', NEW c \in Core, Fork(c)
    PROVE  ProcInv'
  <1>1. PICK t \in Thread, v \in Rsp, k \in Unused :
          /\ Runs(c, t, "user")
          /\ forks < MaxForks
          /\ Enter(c, t, v)
          /\ used' = [used EXCEPT ![Candidate(k)] = TRUE]
          /\ parent' = [parent EXCEPT ![Candidate(k)] = pid[t]]
          /\ exited' = [exited EXCEPT ![Candidate(k)] = FALSE]
          /\ arg' = [arg EXCEPT ![t] = Candidate(k)]
          /\ creator' = [creator EXCEPT ![Candidate(k)] = id[t]]
          /\ serial' = [serial EXCEPT ![Candidate(k)] = forks + 1]
          /\ nextPid' = Candidate(k + 1)
          /\ forks' = forks + 1
          /\ at' = [at EXCEPT ![t] = "fork"]
          /\ UNCHANGED <<pc, pid, id>>
    BY DEF Fork, CurrentPid, threadVars
  <1>2. k \in Nat /\ k + 1 \in Nat /\ ~used[Candidate(k)]
    BY ProcessesAssumption DEF Unused
  <1>3. PICK p \in Pid \ {1} : p = Candidate(k)
    BY <1>2, CandidateFacts
  <1>4. /\ pc[t] = "body" /\ at[t] = "user" /\ Alive(t)
    BY <1>1, RunsFacts
  <1>5. /\ forks \in 0..MaxForks /\ MaxForks \in Nat
        /\ used \in [Pid -> BOOLEAN] /\ parent \in [Pid -> Pid \cup {0}]
        /\ exited \in [Pid -> BOOLEAN] /\ arg \in [Thread -> Pid \cup {0}]
        /\ at \in [Thread -> {"boot", "user", "yield", "fork", "child", "waitpid", "exit"}]
        /\ creator \in [Pid -> Nat] /\ serial \in [Pid -> Nat] /\ id \in [Thread -> Nat]
    BY ProcessesAssumption DEF ProcInv, ProcTypeOK, HistInv
  <1>6. /\ ~used[p] /\ used'[p] /\ ~exited'[p] /\ parent'[p] = pid[t]
        /\ creator'[p] = id[t] /\ serial'[p] = forks + 1
        /\ \A q \in Pid \ {p} : /\ used'[q] = used[q] /\ exited'[q] = exited[q]
                                /\ parent'[q] = parent[q] /\ creator'[q] = creator[q]
                                /\ serial'[q] = serial[q]
    BY <1>1, <1>2, <1>3, <1>5
  <1>7. /\ arg'[t] = p /\ at'[t] = "fork"
        /\ \A u \in Thread \ {t} : arg'[u] = arg[u] /\ at'[u] = at[u]
    BY <1>1, <1>3, <1>5
  <1>8. \A u \in Thread : /\ Alive(u)' <=> Alive(u)
                          /\ Forking(u)' <=> Forking(u) \/ u = t
    BY <1>1, <1>4, <1>7 DEF Alive, Forking
  <1>9. /\ \A u \in Thread : Alive(u) => pid[u] \in Pid \ {p} /\ used[pid[u]]
        /\ \A u \in Thread : Forking(u) => arg[u] \in Pid \ {p} /\ used[arg[u]] /\ u # t
    BY <1>4, <1>6 DEF ProcInv, PidsDistinct, ArgInv, Forking
  <1>10. PidsDistinct'
    <2> SUFFICES ASSUME NEW x \in Thread, Alive(x)'
                 PROVE  /\ used'[pid'[x]] /\ ~exited'[pid'[x]]
                        /\ \A u \in Thread \ {x} : Alive(u)' => pid'[u] # pid'[x]
                        /\ at'[x] = "fork" =>
                             /\ used'[arg'[x]] /\ ~exited'[arg'[x]]
                             /\ \A u \in Thread : Alive(u)' =>
                                   /\ pid'[u] # arg'[x]
                                   /\ u # x /\ at'[u] = "fork" => arg'[u] # arg'[x]
      BY DEF PidsDistinct
    <2>1. /\ used'[pid'[x]] /\ ~exited'[pid'[x]]
          /\ \A u \in Thread \ {x} : Alive(u)' => pid'[u] # pid'[x]
      BY <1>1, <1>6, <1>8, <1>9 DEF ProcInv, PidsDistinct
    <2>2. ASSUME at'[x] = "fork", x = t
          PROVE  /\ used'[arg'[x]] /\ ~exited'[arg'[x]]
                 /\ \A u \in Thread : Alive(u)' =>
                       /\ pid'[u] # arg'[x]
                       /\ u # x /\ at'[u] = "fork" => arg'[u] # arg'[x]
      BY <1>1, <1>6, <1>7, <1>8, <1>9, <2>2 DEF Forking
    <2>3. ASSUME at'[x] = "fork", x # t
          PROVE  /\ used'[arg'[x]] /\ ~exited'[arg'[x]]
                 /\ \A u \in Thread : Alive(u)' =>
                       /\ pid'[u] # arg'[x]
                       /\ u # x /\ at'[u] = "fork" => arg'[u] # arg'[x]
      <3>1. Forking(x) /\ arg'[x] = arg[x] /\ arg[x] \in Pid \ {p}
        BY <1>7, <1>8, <1>9, <2>3 DEF Forking
      <3> QED BY <1>1, <1>6, <1>7, <1>8, <3>1 DEF ProcInv, PidsDistinct, Forking
    <2> QED BY <2>1, <2>2, <2>3
  <1>11. HistInv'
    <2>1. /\ serial' \in [Pid -> Nat] /\ creator' \in [Pid -> Nat] /\ id' \in [Thread -> Nat]
      BY <1>1, <1>3, <1>5
    <2>2. \A q \in Pid : serial[q] <= forks /\ creator[q] <= forks
      BY DEF ProcInv, HistInv
    <2>3. \A u \in Thread : id[u] <= forks
      BY DEF ProcInv, HistInv
    <2>4. \A q \in Pid : serial'[q] <= forks' /\ creator'[q] <= forks'
      BY <1>1, <1>5, <1>6, <2>2, <2>3
    <2>5. \A u \in Thread : id'[u] <= forks'
      BY <1>1, <1>5, <2>3
    <2> QED BY <2>1, <2>4, <2>5 DEF HistInv
  <1>12. FamilyInv'
    <2>1. parent'[1] = 0
      BY <1>6, ProcessesAssumption DEF ProcInv, FamilyInv, Pid
    <2>2. \A x, u \in Thread : Alive(x)' /\ Alive(u)' /\ id'[x] = id'[u] => x = u
      BY <1>1, <1>8 DEF ProcInv, FamilyInv
    <2>3. ASSUME NEW x \in Thread, NEW q \in Pid \ {1}, Alive(x)', used'[q], creator'[q] = id'[x]
          PROVE  parent'[q] = pid'[x]
      <3>1. CASE q = p
        BY <1>1, <1>4, <1>6, <1>8, <2>3, <3>1 DEF ProcInv, FamilyInv
      <3>2. CASE q # p
        BY <1>1, <1>6, <1>8, <2>3, <3>2 DEF ProcInv, FamilyInv
      <3> QED BY <3>1, <3>2
    <2>4. /\ \A u \in Thread : id[u] # forks + 1
          /\ \A q \in Pid : creator[q] # forks + 1 /\ serial[q] # forks + 1
      BY <1>5 DEF ProcInv, HistInv
    <2>5. ASSUME NEW x \in Thread, Forking(x)'
          PROVE  /\ \A u \in Thread : Alive(u)' => id'[u] # serial'[arg'[x]]
                 /\ \A u \in Thread \ {x} : Forking(u)' => serial'[arg'[u]] # serial'[arg'[x]]
                 /\ \A q \in Pid : creator'[q] # serial'[arg'[x]]
      <3>1. CASE x = t
        <4>1. serial'[arg'[x]] = forks + 1
          BY <1>6, <1>7, <3>1
        <4>2. \A u \in Thread \ {x} : Forking(u)' => serial'[arg'[u]] = serial[arg[u]]
                                                     /\ arg[u] \in Pid
          BY <1>6, <1>7, <1>8, <1>9, <3>1
        <4>3. \A q \in Pid : creator'[q] # forks + 1
          BY <1>6, <2>4
        <4> QED BY <1>1, <2>4, <4>1, <4>2, <4>3
      <3>2. CASE x # t
        <4>1. Forking(x) /\ arg'[x] = arg[x] /\ serial'[arg'[x]] = serial[arg[x]]
              /\ arg[x] \in Pid
          BY <1>6, <1>7, <1>8, <1>9, <2>5, <3>2
        <4>2. \A u \in Thread : Alive(u)' => id'[u] # serial[arg[x]]
          BY <1>1, <1>8, <4>1 DEF ProcInv, FamilyInv
        <4>3. \A q \in Pid : creator'[q] # serial[arg[x]]
          BY <1>4, <1>6, <4>1 DEF ProcInv, FamilyInv
        <4>4. ASSUME NEW u \in Thread \ {x}, Forking(u)'
              PROVE  serial'[arg'[u]] # serial[arg[x]]
          <5>1. CASE u = t
            BY <1>6, <1>7, <2>4, <4>1, <5>1
          <5>2. CASE u # t
            BY <1>6, <1>7, <1>8, <1>9, <4>1, <4>4, <5>2 DEF ProcInv, FamilyInv
          <5> QED BY <5>1, <5>2
        <4> QED BY <4>1, <4>2, <4>3, <4>4
      <3> QED BY <3>1, <3>2
    <2> QED BY <2>1, <2>2, <2>3, <2>5 DEF FamilyInv
  <1>13. ArgInv'
    BY <1>1, <1>7, <1>8 DEF ProcInv, ArgInv
  <1>14. BootInv'
    BY <1>1, <1>7, CallBoot
  <1>15. ProcTypeOK'
    <2>1. pid[t] \in Pid
      BY <1>4 DEF ProcInv, ArgInv
    <2>2. /\ used' \in [Pid -> BOOLEAN] /\ parent' \in [Pid -> Pid \cup {0}]
          /\ exited' \in [Pid -> BOOLEAN] /\ arg' \in [Thread -> Pid \cup {0}]
          /\ at' \in [Thread -> {"boot", "user", "yield", "fork", "child", "waitpid", "exit"}]
      BY <1>1, <1>3, <1>5, <2>1
    <2>3. nextPid' \in Pid \ {1} /\ forks' \in 0..MaxForks
      BY <1>1, <1>2, <1>5, CandidateFacts
    <2>4. gs28' \in [Core -> Rsp] /\ ursp' \in [Thread -> Rsp]
      BY <1>1 DEF Enter, ProcInv, ProcTypeOK
    <2> QED BY <1>1, <2>2, <2>3, <2>4 DEF ProcInv, ProcTypeOK, ThreadsInv
  <1> QED BY <1>10, <1>11, <1>12, <1>13, <1>14, <1>15 DEF ProcInv

\* The rest of fork: the child takes the pid and the number its parent got for it.
LEMMA ForkAddInv ==
    ASSUME ProcInv, ThreadsInv', NEW c \in Core, ForkAdd(c)
    PROVE  ProcInv'
  <1>1. PICK t \in Thread, child \in Thread :
          /\ Runs(c, t, "fork")
          /\ pc[child] = "free"
          /\ pc' = [pc EXCEPT ![child] = "entry_reap"]
          /\ pid' = [pid EXCEPT ![child] = arg[t]]
          /\ ursp' = [ursp EXCEPT ![child] = gs28[c], ![t] = gs28[c]]
          /\ at' = [at EXCEPT ![child] = "child", ![t] = "user"]
          /\ id' = [id EXCEPT ![child] = serial[arg[t]]]
          /\ arg' = [arg EXCEPT ![t] = 0]
          /\ UNCHANGED <<used, parent, exited, nextPid, gs28, forks, serial, creator>>
    BY DEF ForkAdd, tableVars
  <1>2. /\ pc[t] = "body" /\ at[t] = "fork" /\ Alive(t) /\ child # t
        /\ pc[Bsp] \notin {"start", "mk_reap", "mk_alloc"}
        /\ \A u \in Thread : pc[u] = "free" \/ at[u] # "boot"
    BY <1>1, RunsFacts
  <1>3. PICK p \in Pid : p = arg[t]
    BY <1>2 DEF ProcInv, ArgInv
  <1>4. /\ pc \in [Ctx -> ThreadPc \cup IdlePc]
        /\ pid \in [Thread -> Pid \cup {0}] /\ arg \in [Thread -> Pid \cup {0}]
        /\ at \in [Thread -> {"boot", "user", "yield", "fork", "child", "waitpid", "exit"}]
        /\ serial \in [Pid -> Nat] /\ id \in [Thread -> Nat]
        /\ gs28 \in [Core -> Rsp] /\ ursp \in [Thread -> Rsp]
    BY DEF ProcInv, ProcTypeOK, HistInv, ThreadsTypeOK
  <1>5. /\ pc'[child] = "entry_reap" /\ pid'[child] = p /\ id'[child] = serial[p]
        /\ at'[child] = "child" /\ arg'[t] = 0 /\ at'[t] = "user"
        /\ \A u \in Thread \ {child} : pid'[u] = pid[u] /\ id'[u] = id[u]
        /\ \A u \in Thread \ {t} : arg'[u] = arg[u]
        /\ \A u \in Thread \ {t, child} : at'[u] = at[u]
    BY <1>1, <1>2, <1>3, <1>4, Names
  <1>6. \A y \in Ctx \ {child} : pc'[y] = pc[y]
    BY <1>1, <1>4
  <1>7. \A u \in Thread : /\ Alive(u)' <=> Alive(u) \/ u = child
                          /\ Forking(u)' <=> Forking(u) /\ u # t
                          /\ Alive(u) => u # child
                          /\ Forking(u) => u # child
    BY <1>1, <1>2, <1>5, <1>6, Names DEF Alive, Forking
  <1>8. /\ used[p] /\ ~exited[p]
        /\ \A u \in Thread : Alive(u) => pid[u] # p
        /\ \A u \in Thread \ {t} : Forking(u) => arg[u] # p
    BY <1>2, <1>3 DEF ProcInv, PidsDistinct, Forking
  <1>9. /\ \A u \in Thread : Alive(u) => id[u] # serial[p]
        /\ \A u \in Thread \ {t} : Forking(u) => serial[arg[u]] # serial[p]
        /\ \A q \in Pid : creator[q] # serial[p]
    BY <1>2, <1>3 DEF ProcInv, FamilyInv, Forking
  <1>10. PidsDistinct'
    <2>1. ASSUME NEW x \in Thread, Alive(x)'
          PROVE  /\ used'[pid'[x]] /\ ~exited'[pid'[x]]
                 /\ \A u \in Thread \ {x} : Alive(u)' => pid'[u] # pid'[x]
      <3>1. CASE x = child
        BY <1>1, <1>5, <1>7, <1>8, <3>1
      <3>2. CASE x # child
        BY <1>1, <1>5, <1>7, <1>8, <2>1, <3>2 DEF ProcInv, PidsDistinct
      <3> QED BY <3>1, <3>2
    <2>2. ASSUME NEW x \in Thread, Forking(x)'
          PROVE  /\ used'[arg'[x]] /\ ~exited'[arg'[x]]
                 /\ \A u \in Thread : Alive(u)' => pid'[u] # arg'[x]
                 /\ \A u \in Thread \ {x} : Forking(u)' => arg'[u] # arg'[x]
      <3>1. Forking(x) /\ x # t /\ x # child /\ arg'[x] = arg[x]
        BY <1>5, <1>7, <2>2
      <3>2. used'[arg'[x]] /\ ~exited'[arg'[x]]
        BY <1>1, <3>1 DEF ProcInv, PidsDistinct, Forking
      <3>3. \A u \in Thread : Alive(u)' => pid'[u] # arg'[x]
        BY <1>5, <1>7, <1>8, <3>1 DEF ProcInv, PidsDistinct, Forking
      <3>4. \A u \in Thread \ {x} : Forking(u)' => arg'[u] # arg'[x]
        BY <1>5, <1>7, <3>1 DEF ProcInv, PidsDistinct, Forking
      <3> QED BY <3>2, <3>3, <3>4
    <2> QED BY <2>1, <2>2 DEF PidsDistinct, Forking
  <1>11. FamilyInv'
    <2>1. parent'[1] = 0
      BY <1>1 DEF ProcInv, FamilyInv
    <2>2. \A x, u \in Thread : Alive(x)' /\ Alive(u)' /\ id'[x] = id'[u] => x = u
      BY <1>5, <1>7, <1>9 DEF ProcInv, FamilyInv
    <2>3. \A x \in Thread, q \in Pid \ {1} :
            Alive(x)' /\ used'[q] /\ creator'[q] = id'[x] => parent'[q] = pid'[x]
      BY <1>1, <1>5, <1>7, <1>9 DEF ProcInv, FamilyInv
    <2>4. ASSUME NEW x \in Thread, Forking(x)'
          PROVE  /\ \A u \in Thread : Alive(u)' => id'[u] # serial'[arg'[x]]
                 /\ \A u \in Thread \ {x} : Forking(u)' => serial'[arg'[u]] # serial'[arg'[x]]
                 /\ \A q \in Pid : creator'[q] # serial'[arg'[x]]
      <3>1. Forking(x) /\ x # t /\ x # child /\ arg'[x] = arg[x] /\ serial' = serial
        BY <1>1, <1>5, <1>7, <2>4
      <3>2. \A u \in Thread : Alive(u)' => id'[u] # serial[arg[x]]
        BY <1>5, <1>7, <1>9, <3>1 DEF ProcInv, FamilyInv
      <3>3. \A u \in Thread \ {x} : Forking(u)' => serial[arg'[u]] # serial[arg[x]]
        BY <1>5, <1>7, <3>1 DEF ProcInv, FamilyInv
      <3>4. \A q \in Pid : creator'[q] # serial[arg[x]]
        BY <1>1, <3>1 DEF ProcInv, FamilyInv
      <3> QED BY <3>1, <3>2, <3>3, <3>4
    <2> QED BY <2>1, <2>2, <2>3, <2>4 DEF FamilyInv
  <1>12. HistInv'
    <2>1. id' \in [Thread -> Nat]
      BY <1>1, <1>3, <1>4
    <2>2. \A u \in Thread : id'[u] <= forks
      BY <1>3, <1>5 DEF ProcInv, HistInv
    <2> QED BY <1>1, <2>1, <2>2 DEF ProcInv, HistInv
  <1>13. ArgInv'
    BY <1>5, <1>7 DEF ProcInv, ArgInv
  <1>14. BootInv'
    <2>1. /\ \A d \in Core : pc'[d] = pc[d]
          /\ \A u \in Thread \ {child} : pc'[u] = pc[u]
      BY <1>6, Names
    <2>2. \A u \in Thread : pc'[u] = "free" \/ at'[u] # "boot"
      BY <1>2, <1>5, <2>1
    <2> QED BY <1>2, <1>5, <2>1, <2>2, Names DEF ProcInv, BootInv
  <1>15. ProcTypeOK'
    <2>1. /\ pid' \in [Thread -> Pid \cup {0}] /\ arg' \in [Thread -> Pid \cup {0}]
          /\ ursp' \in [Thread -> Rsp]
      BY <1>1, <1>3, <1>4
    <2>2. at' \in [Thread -> {"boot", "user", "yield", "fork", "child", "waitpid", "exit"}]
      BY <1>1, <1>4
    <2> QED BY <1>1, <2>1, <2>2 DEF ProcInv, ProcTypeOK, ThreadsInv
  <1> QED BY <1>10, <1>11, <1>12, <1>13, <1>14, <1>15 DEF ProcInv

\* exit marks the caller's slot; nobody else alive has its pid.
LEMMA ExitInv ==
    ASSUME ProcInv, ThreadsInv', NEW c \in Core, Exit(c)
    PROVE  ProcInv'
  <1>1. PICK t \in Thread, v \in Rsp :
          /\ Runs(c, t, "user") /\ Enter(c, t, v)
          /\ exited' = [exited EXCEPT ![pid[t]] = exited[pid[t]] \/ used[pid[t]]]
          /\ at' = [at EXCEPT ![t] = "exit"]
          /\ UNCHANGED <<pc, used, parent, nextPid, pid, arg, forks, serial, id, creator>>
    BY DEF Exit, CurrentPid, threadVars
  <1>2. Alive(t) /\ at[t] = "user" /\ pc[t] = "body"
    BY <1>1, RunsFacts
  <1>3. at'[t] = "exit" /\ \A u \in Thread \ {t} : at'[u] = at[u]
    BY <1>1 DEF ProcInv, ProcTypeOK
  <1>4. \A u \in Thread : /\ Alive(u)' <=> Alive(u) /\ u # t
                          /\ Forking(u)' <=> Forking(u)
                          /\ Forking(u) => u # t
    BY <1>1, <1>2, <1>3 DEF Alive, Forking
  <1>5. pid[t] \in Pid /\ \A q \in Pid \ {pid[t]} : exited'[q] = exited[q]
    BY <1>1, <1>2 DEF ProcInv, ArgInv, ProcTypeOK
  <1>6. PidsDistinct'
    <2>1. ASSUME NEW x \in Thread, Alive(x)'
          PROVE  /\ used'[pid'[x]] /\ ~exited'[pid'[x]]
                 /\ \A u \in Thread \ {x} : Alive(u)' => pid'[u] # pid'[x]
      <3>1. Alive(x) /\ x # t /\ pid[x] \in Pid /\ pid[x] # pid[t]
        BY <1>2, <1>4, <2>1 DEF ProcInv, ArgInv, PidsDistinct
      <3> QED BY <1>1, <1>4, <1>5, <3>1 DEF ProcInv, PidsDistinct
    <2>2. ASSUME NEW x \in Thread, Forking(x)'
          PROVE  /\ used'[arg'[x]] /\ ~exited'[arg'[x]]
                 /\ \A u \in Thread : Alive(u)' => pid'[u] # arg'[x]
                 /\ \A u \in Thread \ {x} : Forking(u)' => arg'[u] # arg'[x]
      <3>1. Forking(x) /\ arg[x] \in Pid /\ arg[x] # pid[t]
        BY <1>2, <1>4, <2>2 DEF ProcInv, ArgInv, PidsDistinct, Forking
      <3> QED BY <1>1, <1>4, <1>5, <3>1 DEF ProcInv, PidsDistinct, Forking
    <2> QED BY <2>1, <2>2 DEF PidsDistinct, Forking
  <1>7. FamilyInv'
    BY <1>1, <1>4 DEF ProcInv, FamilyInv
  <1>8. HistInv'
    BY <1>1 DEF ProcInv, HistInv
  <1>9. ArgInv'
    BY <1>1, <1>3, <1>4 DEF ProcInv, ArgInv
  <1>10. BootInv'
    BY <1>1, <1>3, CallBoot
  <1>11. ProcTypeOK'
    <2>1. exited' \in [Pid -> BOOLEAN]
      BY <1>1, <1>5 DEF ProcInv, ProcTypeOK
    <2>2. gs28' \in [Core -> Rsp] /\ ursp' \in [Thread -> Rsp]
      BY <1>1 DEF Enter, ProcInv, ProcTypeOK
    <2>3. at' \in [Thread -> {"boot", "user", "yield", "fork", "child", "waitpid", "exit"}]
      BY <1>1 DEF ProcInv, ProcTypeOK
    <2> QED BY <1>1, <2>1, <2>2, <2>3 DEF ProcInv, ProcTypeOK, ThreadsInv
  <1> QED BY <1>6, <1>7, <1>8, <1>9, <1>10, <1>11 DEF ProcInv

\* waitpid frees the slot of a process that has exited: it is nobody's pid any more.
LEMMA WaitpidReapInv ==
    ASSUME ProcInv, ThreadsInv', NEW c \in Core, WaitpidReap(c)
    PROVE  ProcInv'
  <1>1. PICK t \in Thread :
          /\ Runs(c, t, "waitpid") /\ exited[arg[t]]
          /\ used' = [used EXCEPT ![arg[t]] = FALSE]
          /\ ursp' = [ursp EXCEPT ![t] = gs28[c]]
          /\ at' = [at EXCEPT ![t] = "user"]
          /\ arg' = [arg EXCEPT ![t] = 0]
          /\ UNCHANGED <<pc, gs28, parent, exited, nextPid, pid, forks, serial, id, creator>>
    BY DEF WaitpidReap, Leave, threadVars
  <1>2. Alive(t) /\ at[t] = "waitpid" /\ pc[t] = "body"
    BY <1>1, RunsFacts
  <1>3. PICK p \in Pid : p = arg[t] /\ exited[p]
    BY <1>1, <1>2 DEF ProcInv, ArgInv
  <1>4. /\ at'[t] = "user" /\ \A u \in Thread \ {t} : at'[u] = at[u] /\ arg'[u] = arg[u]
    BY <1>1 DEF ProcInv, ProcTypeOK
  <1>5. /\ ~used'[p] /\ \A q \in Pid \ {p} : used'[q] = used[q]
    BY <1>1, <1>3 DEF ProcInv, ProcTypeOK
  <1>6. \A u \in Thread : /\ Alive(u)' <=> Alive(u)
                          /\ Forking(u)' <=> Forking(u)
                          /\ Forking(u) => u # t
    BY <1>1, <1>2, <1>4 DEF Alive, Forking
  <1>7. /\ \A u \in Thread : Alive(u) => pid[u] \in Pid \ {p}
        /\ \A u \in Thread : Forking(u) => arg[u] \in Pid \ {p}
    BY <1>3 DEF ProcInv, ArgInv, PidsDistinct, Forking
  <1>8. PidsDistinct'
    <2>1. ASSUME NEW x \in Thread, Alive(x)'
          PROVE  /\ used'[pid'[x]] /\ ~exited'[pid'[x]]
                 /\ \A u \in Thread \ {x} : Alive(u)' => pid'[u] # pid'[x]
      BY <1>1, <1>5, <1>6, <1>7, <2>1 DEF ProcInv, PidsDistinct
    <2>2. ASSUME NEW x \in Thread, Forking(x)'
          PROVE  /\ used'[arg'[x]] /\ ~exited'[arg'[x]]
                 /\ \A u \in Thread : Alive(u)' => pid'[u] # arg'[x]
                 /\ \A u \in Thread \ {x} : Forking(u)' => arg'[u] # arg'[x]
      <3>1. Forking(x) /\ arg'[x] = arg[x] /\ arg[x] \in Pid \ {p}
        BY <1>4, <1>6, <1>7, <2>2
      <3>2. used'[arg'[x]] /\ ~exited'[arg'[x]] /\ \A u \in Thread : Alive(u)' => pid'[u] # arg'[x]
        BY <1>1, <1>5, <1>6, <3>1 DEF ProcInv, PidsDistinct, Forking
      <3>3. \A u \in Thread \ {x} : Forking(u)' => arg'[u] # arg'[x]
        BY <1>4, <1>6, <3>1 DEF ProcInv, PidsDistinct, Forking
      <3> QED BY <3>2, <3>3
    <2> QED BY <2>1, <2>2 DEF PidsDistinct, Forking
  <1>9. FamilyInv'
    <2>1. \A x \in Thread, q \in Pid \ {1} :
            Alive(x)' /\ used'[q] /\ creator'[q] = id'[x] => parent'[q] = pid'[x]
      BY <1>1, <1>5, <1>6 DEF ProcInv, FamilyInv
    <2>2. \A x \in Thread : Forking(x)' => Forking(x) /\ arg'[x] = arg[x]
      BY <1>4, <1>6
    <2> QED BY <1>1, <1>6, <2>1, <2>2 DEF ProcInv, FamilyInv
  <1>10. HistInv'
    BY <1>1 DEF ProcInv, HistInv
  <1>11. ArgInv'
    BY <1>1, <1>4, <1>6 DEF ProcInv, ArgInv
  <1>12. BootInv'
    BY <1>1, <1>4, CallBoot
  <1>13. ProcTypeOK'
    <2>1. used' \in [Pid -> BOOLEAN]
      BY <1>1, <1>3 DEF ProcInv, ProcTypeOK
    <2>2. ursp' \in [Thread -> Rsp] /\ arg' \in [Thread -> Pid \cup {0}]
      BY <1>1 DEF ProcInv, ProcTypeOK
    <2>3. at' \in [Thread -> {"boot", "user", "yield", "fork", "child", "waitpid", "exit"}]
      BY <1>1 DEF ProcInv, ProcTypeOK
    <2> QED BY <1>1, <2>1, <2>2, <2>3 DEF ProcInv, ProcTypeOK, ThreadsInv
  <1> QED BY <1>8, <1>9, <1>10, <1>11, <1>12, <1>13 DEF ProcInv
-----------------------------------------------------------------------------
(***************************************************************************)
(* The invariant.                                                          *)
(***************************************************************************)
LEMMA ProcInitInv == ProcInit => ProcInv
  <1> SUFFICES ASSUME ProcInit PROVE ProcInv
    OBVIOUS
  <1>1. ThreadsInv
    BY InitInv DEF ProcInit
  <1>2. \A t \in Thread : at[t] = "boot" /\ ~Alive(t)
    BY DEF ProcInit, Alive
  <1>3. /\ \A t \in Thread : pc[t] = "free"
        /\ \A d \in Core : pc[d] = "start"
    BY Names DEF ProcInit, ThreadsInit
  <1>4. BootInv
    BY <1>2, <1>3 DEF BootInv, ProcInit
  <1>5. ArgInv /\ PidsDistinct
    BY <1>2 DEF ArgInv, PidsDistinct
  <1>6. HistInv
    BY DEF ProcInit, HistInv
  <1>7. FamilyInv
    BY <1>2, ProcessesAssumption DEF FamilyInv, Forking, ProcInit, Pid
  <1>8. ProcTypeOK
    <2>1. 2 \in Pid \ {1}
      BY ProcessesAssumption DEF Pid
    <2>2. PICK v \in Rsp : gs28 = [c \in Core |-> v] /\ ursp = [t \in Thread |-> v]
      BY DEF ProcInit
    <2>3. forks \in 0..MaxForks
      BY ProcessesAssumption DEF ProcInit
    <2> QED BY <1>1, <2>1, <2>2, <2>3 DEF ProcInit, ProcTypeOK, ThreadsInv
  <1> QED BY <1>1, <1>4, <1>5, <1>6, <1>7, <1>8 DEF ProcInv

\* Every step of the thread system and of a system call preserves the invariant.
LEMMA ProcNextInv == ProcInv /\ [ProcNext]_procVars => ProcInv'
  <1> SUFFICES ASSUME ProcInv, [ProcNext]_procVars PROVE ProcInv'
    OBVIOUS
  <1>1. ThreadsInv'
    BY ProcThreads DEF ProcInv
  <1>2. ASSUME NEW c \in Core, Kernel(c) \/ Syscall(c) PROVE ProcInv'
    BY <1>1, <1>2, KernelInv, RegisterInv, PlainCalls, ForkInv, ForkAddInv, ExitInv,
       WaitpidReapInv DEF Syscall
  <1>3. CASE UNCHANGED procVars
    <2>1. /\ UNCHANGED tableRest /\ UNCHANGED <<pc, nextPid, gs28, ursp, at, arg>>
      BY <1>3 DEF procVars, threadVars, tableVars, tableRest
    <2>2. UNCHANGED <<used, parent, exited, pid, forks>>
      BY <2>1 DEF tableRest
    <2>3. HistInv' /\ PidsDistinct' /\ FamilyInv'
      BY <2>1, FrameInv DEF Alive, Forking
    <2>4. BootInv' /\ ArgInv'
      BY <2>1, <2>2 DEF ProcInv, BootInv, ArgInv, Alive
    <2>5. ProcTypeOK'
      BY <1>1, <2>1, <2>2 DEF ProcInv, ProcTypeOK, ThreadsInv
    <2> QED BY <1>1, <2>3, <2>4, <2>5 DEF ProcInv
  <1> QED BY <1>2, <1>3 DEF ProcNext

\* The inductive invariant holds: the threads of processes are placed like every
\* other thread although fork makes them without make_thread, and the table, the
\* pids and the calls under way fit together.
THEOREM ProcInvariant == ProcSpec => []ProcInv
  <1> QED BY ProcInitInv, ProcNextInv, PTL DEF ProcSpec

\* A pid names one process, whatever the order of fork, exit and waitpid
\* (processTable, kernel/syscall.cc).
THEOREM ProcPidsDistinct == ProcSpec => []PidsDistinct
  <1>1. ProcInv => PidsDistinct
    BY DEF ProcInv
  <1> QED BY <1>1, ProcInvariant, PTL

\* A step that frees a slot whose creator is alive is that creator's own waitpid.
LEMMA CollectStep ==
    ASSUME ProcInv, [ProcNext]_procVars, NEW p \in Pid, used[p], ~used'[p],
           NEW u \in Thread, Alive(u), id[u] = creator[p]
    PROVE  CollectedByCreator(p)
  <1>1. CASE used' = used
    BY <1>1
  <1>2. ASSUME NEW c \in Core, Register(c) PROVE FALSE
    <2>1. PICK t \in Thread : Runs(c, t, "boot")
      BY <1>2 DEF Register
    <2> QED BY <2>1, RunsFacts DEF ProcInv, BootInv
  <1>3. ASSUME NEW c \in Core, Fork(c) PROVE FALSE
    <2>1. PICK k \in Unused : used' = [used EXCEPT ![Candidate(k)] = TRUE]
      BY <1>3 DEF Fork
    <2> QED BY <2>1 DEF ProcInv, ProcTypeOK
  <1>4. ASSUME NEW c \in Core, WaitpidReap(c) PROVE CollectedByCreator(p)
    <2>1. PICK t \in Thread :
            /\ Runs(c, t, "waitpid") /\ parent[arg[t]] = pid[t]
            /\ used' = [used EXCEPT ![arg[t]] = FALSE]
      BY <1>4 DEF WaitpidReap, IsChild, CurrentPid
    <2>2. Alive(t) /\ t = current[c] /\ at[t] = "waitpid"
      BY <2>1, RunsFacts
    <2>3. arg[t] = p
      BY <2>1 DEF ProcInv, ProcTypeOK
    <2>4. pid[t] \in Pid /\ parent[p] = pid[t]
      BY <2>1, <2>2, <2>3 DEF ProcInv, ArgInv
    <2>5. p # 1
      BY <2>4 DEF ProcInv, FamilyInv, Pid
    <2>6. parent[p] = pid[u]
      BY <2>5 DEF ProcInv, FamilyInv
    <2>7. u = t
      BY <2>2, <2>4, <2>6 DEF ProcInv, PidsDistinct
    <2> QED BY <2>2, <2>3, <2>7 DEF CollectedByCreator
  <1>5. ASSUME NEW c \in Core, Kernel(c) \/ Syscall(c)
        PROVE  \/ used' = used \/ Register(c) \/ Fork(c) \/ WaitpidReap(c)
    BY <1>5 DEF Kernel, Syscall, SchedYield, SchedYieldReturn, ForkFull, ForkAdd, ChildReturn,
                Exit, ExitStop, Waitpid, WaitpidFail, WaitpidYield, tableVars
  <1>6. UNCHANGED procVars => used' = used
    BY DEF procVars, tableVars
  <1> QED BY <1>1, <1>2, <1>3, <1>4, <1>5, <1>6 DEF ProcNext

\* While the process that forked a child lives, nobody else collects the child:
\* pids are used again, but never that of a living parent (waitpid's test of parent).
THEOREM ProcLivingParentCollects == ProcSpec => LivingParentCollects
  <1>1. ProcInv /\ [ProcNext]_procVars =>
          [\A p \in Pid :
             used[p] /\ ~used'[p] /\ (\E u \in Thread : Alive(u) /\ id[u] = creator[p])
               => CollectedByCreator(p)]_procVars
    BY CollectStep
  <1> QED BY <1>1, ProcInvariant, PTL DEF ProcSpec, LivingParentCollects
=============================================================================
