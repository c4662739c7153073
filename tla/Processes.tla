----------------------------- MODULE Processes -----------------------------
(***************************************************************************)
(* Processes: the process table and the system calls sched_yield, fork,    *)
(* exit and waitpid (kernel/syscall.cc), with the way a system call saves  *)
(* and restores the user stack pointer (kernel/machine.S).  A process is a *)
(* thread of module Threads whose work is a user program; the first one is *)
(* started by kernel_main and has pid 1.                                   *)
(*                                                                         *)
(* A user program is an arbitrary sequence of these calls with arbitrary   *)
(* arguments, at arbitrary stack depths.  Each action is one critical      *)
(* section of processLock or one switch.  The exit status is data that     *)
(* nothing branches on and is left out.                                    *)
(*                                                                         *)
(* id and creator are history variables: pids are used again, the number   *)
(* of the fork that created a process is not.                              *)
(***************************************************************************)
EXTENDS Threads

CONSTANTS
    MaxProcesses,   \* size of processTable; pids are 1..MaxProcesses-1
    MaxForks,       \* bound on the number of successful forks
    Rsp             \* user stack pointers

ASSUME ProcessesAssumption ==
    /\ MaxProcesses \in Nat /\ MaxProcesses > 2
    /\ MaxForks \in Nat
    /\ Rsp # {}

VARIABLES
    used, parent, exited,   \* processTable
    nextPid,
    pid,        \* TCB::pid
    gs28,       \* TSS.rsp1 of a core, the scratch slot for the user's rsp
    ursp,       \* a process' stack pointer: in user mode, at its last entry
    at,         \* where a thread is in the user program or in a system call
    arg,        \* the pid a fork has allocated or a waitpid asks for
    forks,      \* history: successful forks so far
    serial,     \* history: the number of the fork that filled a slot
    id,         \* history: the number of the fork that created a thread
    creator     \* history: id of the process that forked the one in a slot

tableVars == <<used, parent, exited, nextPid>>
procVars == <<threadVars, tableVars, pid, gs28, ursp, at, arg, forks, serial, id, creator>>

Pid == 1..(MaxProcesses - 1)

ProcTypeOK ==
    /\ ThreadsTypeOK
    /\ used \in [Pid -> BOOLEAN]
    /\ parent \in [Pid -> Pid \cup {0}]
    /\ exited \in [Pid -> BOOLEAN]
    /\ nextPid \in Pid \ {1}
    /\ pid \in [Thread -> Pid \cup {0}]
    /\ gs28 \in [Core -> Rsp]
    /\ ursp \in [Thread -> Rsp]
    /\ at \in [Thread -> {"boot", "user", "yield", "fork", "child", "waitpid", "exit"}]
    /\ arg \in [Thread -> Pid \cup {0}]
    /\ forks \in 0..MaxForks

ProcInit ==
    /\ ThreadsInit
    /\ used = [p \in Pid |-> FALSE]
    /\ parent = [p \in Pid |-> 0]
    /\ exited = [p \in Pid |-> FALSE]
    /\ nextPid = 2
    /\ pid = [t \in Thread |-> 0]
    /\ \E v \in Rsp : gs28 = [c \in Core |-> v] /\ ursp = [t \in Thread |-> v]
    /\ at = [t \in Thread |-> "boot"]
    /\ arg = [t \in Thread |-> 0]
    /\ forks = 0
    /\ serial = [p \in Pid |-> 0]
    /\ id = [t \in Thread |-> 0]
    /\ creator = [p \in Pid |-> 0]

-----------------------------------------------------------------------------
\* Core c runs thread t, which is at place a.
Runs(c, t, a) == InBody(c) /\ t = Me(c) /\ at[t] = a

\* Entry of a system call: the user's stack pointer v goes to the core's slot.
Enter(c, t, v) ==
    /\ gs28' = [gs28 EXCEPT ![c] = v]
    /\ ursp' = [ursp EXCEPT ![t] = v]

\* Exit of a system call: the stack pointer is what the slot of this core holds.
Leave(c, t) ==
    /\ ursp' = [ursp EXCEPT ![t] = gs28[c]]
    /\ at' = [at EXCEPT ![t] = "user"]
    /\ arg' = [arg EXCEPT ![t] = 0]
    /\ UNCHANGED gs28

\* ensure_current_pid: every caller is registered, as the first process or by fork.
CurrentPid(t) == pid[t]

\* kernel_main registers its thread as pid 1 and enters the user program.
Register(c) == \E t \in Thread :
    /\ Runs(c, t, "boot")
    /\ pid' = [pid EXCEPT ![t] = 1]
    /\ used' = [p \in Pid |-> p = 1]
    /\ parent' = [p \in Pid |-> 0]
    /\ exited' = [p \in Pid |-> FALSE]
    /\ nextPid' = 2
    /\ at' = [at EXCEPT ![t] = "user"]
    /\ UNCHANGED <<threadVars, gs28, ursp, arg, forks, serial, id, creator>>

\* sched_yield; when nobody is ready it is an entry followed by an exit.
SchedYield(c) == \E t \in Thread, v \in Rsp :
    /\ Runs(c, t, "user")
    /\ Enter(c, t, v)
    /\ Yield(c)
    /\ at' = [at EXCEPT ![t] = "yield"]
    /\ UNCHANGED <<tableVars, pid, arg, forks, serial, id, creator>>

SchedYieldReturn(c) == \E t \in Thread :
    /\ Runs(c, t, "yield")
    /\ Leave(c, t)
    /\ UNCHANGED <<threadVars, tableVars, pid, forks, serial, id, creator>>

\* allocate_pid_locked: the k-th candidate, in cyclic order from nextPid.
Candidate(k) == 2 + ((nextPid - 2 + k) % (MaxProcesses - 2))
Unused == {k \in 0..(MaxProcesses - 3) : ~used[Candidate(k)]}

\* The heap has a TCB for every fork under way, and for one more.
RoomForChild ==
    Cardinality({t \in Thread : at[t] = "fork"})
      < Cardinality({t \in Thread : pc[t] = "free"})

\* fork up to the unlock of processLock: the child gets a pid and a table slot.
Fork(c) == \E t \in Thread, v \in Rsp :
    /\ Runs(c, t, "user")
    /\ forks < MaxForks
    /\ RoomForChild
    /\ Enter(c, t, v)
    /\ \E k \in Unused :
          /\ \A j \in Unused : k <= j
          /\ LET p == Candidate(k) IN
             /\ used' = [used EXCEPT ![p] = TRUE]
             /\ parent' = [parent EXCEPT ![p] = CurrentPid(t)]
             /\ exited' = [exited EXCEPT ![p] = FALSE]
             /\ arg' = [arg EXCEPT ![t] = p]
             /\ creator' = [creator EXCEPT ![p] = id[t]]
             /\ serial' = [serial EXCEPT ![p] = forks + 1]
          /\ nextPid' = Candidate(k + 1)
    /\ forks' = forks + 1
    /\ at' = [at EXCEPT ![t] = "fork"]
    /\ UNCHANGED <<threadVars, pid, id>>

\* fork with a full table returns -1; the search has moved nextPid.
ForkFull(c) == \E t \in Thread, v \in Rsp :
    /\ Runs(c, t, "user")
    /\ Unused = {}
    /\ Enter(c, t, v)
    /\ nextPid' = Candidate(MaxProcesses)
    /\ UNCHANGED <<threadVars, used, parent, exited, pid, at, arg, forks, serial, id, creator>>

\* The rest of fork: the child's TCB is counted and made ready, the parent
\* returns to user mode.
ForkAdd(c) == \E t, child \in Thread :
    /\ Runs(c, t, "fork")
    /\ pc[child] = "free"
    /\ Activate
    /\ pc' = [pc EXCEPT ![child] = "entry_reap"]
    /\ dpc' = [dpc EXCEPT ![child] = 1]
    /\ ready' = Append(ready, child)
    /\ pid' = [pid EXCEPT ![child] = arg[t]]
    /\ ursp' = [ursp EXCEPT ![child] = gs28[c], ![t] = gs28[c]]
    /\ at' = [at EXCEPT ![child] = "child", ![t] = "user"]
    /\ id' = [id EXCEPT ![child] = serial[arg[t]]]
    /\ arg' = [arg EXCEPT ![t] = 0]
    /\ UNCHANGED <<current, prev, reaper, waiting, epoch, action, cond, condEpoch,
                   waitOn, woken, victim, rsp0, halted, tableVars, gs28, forks,
                   serial, creator>>

\* fork_child_entry after its post_switch and reap: the child enters user mode
\* with the parent's stack pointer, by way of the core's slot.
ChildReturn(c) == \E t \in Thread :
    /\ Runs(c, t, "child")
    /\ gs28' = [gs28 EXCEPT ![c] = ursp[t]]
    /\ at' = [at EXCEPT ![t] = "user"]
    /\ UNCHANGED <<threadVars, tableVars, pid, ursp, arg, forks, serial, id, creator>>

\* exit: the slot is marked, then the thread stops.  In between the parent may
\* already collect the process and its pid may be given away.
Exit(c) == \E t \in Thread, v \in Rsp :
    /\ Runs(c, t, "user")
    /\ Enter(c, t, v)
    /\ exited' = [exited EXCEPT ![CurrentPid(t)] = @ \/ used[CurrentPid(t)]]
    /\ at' = [at EXCEPT ![t] = "exit"]
    /\ UNCHANGED <<threadVars, used, parent, nextPid, pid, arg, forks, serial, id, creator>>

ExitStop(c) == \E t \in Thread :
    /\ Runs(c, t, "exit")
    /\ Stop(c)
    /\ UNCHANGED <<tableVars, pid, gs28, ursp, at, arg, forks, serial, id, creator>>

\* waitpid, entry; a pid out of range or options return -1 at once.
Waitpid(c) == \E t \in Thread, v \in Rsp, p \in Pid :
    /\ Runs(c, t, "user")
    /\ Enter(c, t, v)
    /\ arg' = [arg EXCEPT ![t] = p]
    /\ at' = [at EXCEPT ![t] = "waitpid"]
    /\ UNCHANGED <<threadVars, tableVars, pid, forks, serial, id, creator>>

\* One round of waitpid's loop: p must be a used slot whose parent is the caller.
\* Seeded fault: the parent is not compared.
IsAnyone(t, p) == used[p]

IsChild(t, p) == used[p] /\ parent[p] = CurrentPid(t)

WaitpidFail(c) == \E t \in Thread :
    /\ Runs(c, t, "waitpid")
    /\ ~IsChild(t, arg[t])
    /\ Leave(c, t)
    /\ UNCHANGED <<threadVars, tableVars, pid, forks, serial, id, creator>>

\* Seeded fault: a living child is collected.
WaitpidReapLiving(c) == \E t \in Thread :
    /\ Runs(c, t, "waitpid")
    /\ IsChild(t, arg[t])
    /\ used' = [used EXCEPT ![arg[t]] = FALSE]
    /\ Leave(c, t)
    /\ UNCHANGED <<threadVars, parent, exited, nextPid, pid, forks, serial, id, creator>>

WaitpidReap(c) == \E t \in Thread :
    /\ Runs(c, t, "waitpid")
    /\ IsChild(t, arg[t])
    /\ exited[arg[t]]
    /\ used' = [used EXCEPT ![arg[t]] = FALSE]
    /\ Leave(c, t)
    /\ UNCHANGED <<threadVars, parent, exited, nextPid, pid, forks, serial, id, creator>>

WaitpidYield(c) == \E t \in Thread :
    /\ Runs(c, t, "waitpid")
    /\ IsChild(t, arg[t])
    /\ ~exited[arg[t]]
    /\ IF ready = <<>> THEN UNCHANGED threadVars ELSE Yield(c)
    /\ UNCHANGED <<tableVars, pid, gs28, ursp, at, arg, forks, serial, id, creator>>

\* The thread system; the only thread made by make_thread is kernel_main's.
Kernel(c) ==
    /\ KernelStep(c) \/ (Me(c) \in Core /\ MakeThread(c))
    /\ UNCHANGED <<tableVars, pid, gs28, ursp, at, arg, forks, serial, id, creator>>

Syscall(c) ==
    \/ Register(c)
    \/ SchedYield(c) \/ SchedYieldReturn(c)
    \/ Fork(c) \/ ForkFull(c) \/ ForkAdd(c) \/ ChildReturn(c)
    \/ Exit(c) \/ ExitStop(c)
    \/ Waitpid(c) \/ WaitpidFail(c) \/ WaitpidReap(c) \/ WaitpidYield(c)

ProcNext ==
    \/ \E c \in Core : Kernel(c) \/ Syscall(c)
    \/ PowerOff /\ UNCHANGED procVars

ProcSpec == ProcInit /\ [][ProcNext]_procVars

\* Cores keep executing, and a process that keeps running in user mode
\* eventually calls exit.
ProcFairSpec ==
    /\ ProcSpec
    /\ \A c \in Core : WF_procVars(Kernel(c) \/ Syscall(c)) /\ SF_procVars(Exit(c))

-----------------------------------------------------------------------------
\* Process t has started and has not called exit.
Alive(t) == pc[t] # "free" /\ at[t] \notin {"boot", "exit"}

\* A pid names one process: the slot of a living process is used and not marked
\* exited, no two living processes have the same pid, and the pid a fork has
\* just allocated belongs to nobody yet.  exit marks its slot long before the
\* TCB is gone, so slots, pids and TCBs are recycled at different times.
PidsDistinct ==
    \A t \in Thread : Alive(t) =>
      /\ used[pid[t]] /\ ~exited[pid[t]]
      /\ \A u \in Thread \ {t} : Alive(u) => pid[u] # pid[t]
      /\ at[t] = "fork" =>
           /\ used[arg[t]] /\ ~exited[arg[t]]
           /\ \A u \in Thread : Alive(u) =>
                 pid[u] # arg[t] /\ (u # t /\ at[u] = "fork" => arg[u] # arg[t])

\* The thread that collects slot p in this step was created by the process
\* that forked the process in p.
CollectedByCreator(p) ==
    \E c \in Core : LET t == current[c] IN
      t \in Thread /\ at[t] = "waitpid" /\ arg[t] = p /\ id[t] = creator[p]

\* While the process that forked a child is alive, nobody else collects it.
LivingParentCollects ==
    [][\A p \in Pid :
         used[p] /\ ~used'[p] /\ (\E u \in Thread : Alive(u) /\ id[u] = creator[p])
           => CollectedByCreator(p)]_procVars

\* t polls in waitpid for a slot that is used and not marked exited.
Polls(t) == Alive(t) /\ at[t] = "waitpid" /\ used[arg[t]] /\ ~exited[arg[t]]

\* The processes in S wait for one another, each for a slot that names it as parent.
WaitInCircle(S) ==
    \A t \in S :
      /\ Polls(t) /\ parent[arg[t]] = pid[t]
      /\ \E u \in S : pid[u] = arg[t]

\* One of them has not forked the process it waits for: its pid was somebody else's.
WaitOnRecycled ==
    \E S \in SUBSET Thread \ {{}} :
      WaitInCircle(S) /\ \E t \in S : creator[arg[t]] # id[t]

\* When every process that keeps running calls exit at last, every waitpid returns
\* and the machine powers off, however pids are recycled; the one exception is a
\* circle of processes that wait for one another through a slot whose parent field
\* has outlived the process it named, and they poll for ever.
AllProcessesEnd == <>halted \/ <>[]WaitOnRecycled

\* Processes do not wait for one another in a circle: "a process cannot invert the
\* hierarchical process tree by attempting to wait on its own creator"
\* (048.dir/init.c), the loop of waitpid.
NobodyWaitsInCircle == \A S \in SUBSET Thread \ {{}} : ~WaitInCircle(S)

\* A system call returns on the stack it was made from: "save user RSP in
\* trusted percore/per thread storage, and only return to it at exit"
\* (REPORT.txt), the sequence around gs:28 in syscallHandler_.
UserStackKept ==
    [][\A t \in Thread :
         at[t] \in {"yield", "fork", "waitpid"} /\ at'[t] = "user"
           => ursp'[t] = ursp[t]]_procVars
=============================================================================
