----------------------------- MODULE ProcessLock -----------------------------
(***************************************************************************)
(* processLock as a lock that is held over time.  In Processes each of its *)
(* critical sections is one step; one of them is not: a fork that finds no *)
(* free pid prints before it unlocks (syscall.cc), and printing takes      *)
(* putch_spin, a BlockingLock, which may switch the thread out.  Meanwhile *)
(* a core that wants processLock can only spin.                            *)
(*                                                                         *)
(* A text is one character long, and say_lock, which the KPRINT of fork    *)
(* takes around it, is left out: with it more threads wait.  The port is   *)
(* always ready.                                                           *)
(***************************************************************************)
EXTENDS Processes

CONSTANT not_locked     \* the condition of putch_spin, a member of Cond

VARIABLES
    holder,     \* the thread that holds processLock, or Null
    locked,     \* putch_spin is taken
    printing    \* of each thread: "no", "before", "in" or "after" putch

lockVars == <<procVars, holder, locked, printing>>

PLInit ==
    /\ ProcInit
    /\ holder = Null
    /\ locked = FALSE
    /\ printing = [t \in Thread |-> "no"]

\* Core c runs a thread that has come this far in printing.
Prints(c, p) == InBody(c) /\ printing[Me(c)] = p

Goes(c, p) == printing' = [printing EXCEPT ![Me(c)] = p]

\* Each text is one notification: there are no more of them than MaxEpoch.
MayPrint ==
    epoch[not_locked] + Cardinality({t \in Thread : printing[t] # "no"}) < MaxEpoch

\* fork without a free pid: processLock is not given up before KPRINT.
ForkRefused(c) ==
    /\ Prints(c, "no") /\ MayPrint
    /\ holder = Null
    /\ ForkFull(c)
    /\ holder' = Me(c)
    /\ Goes(c, "before")
    /\ UNCHANGED locked

\* write: the text is a process'.
SysWrite(c) == \E v \in Rsp :
    /\ Prints(c, "no") /\ MayPrint
    /\ Runs(c, Me(c), "user")
    /\ Enter(c, Me(c), v)
    /\ Goes(c, "before")
    /\ UNCHANGED <<threadVars, tableVars, pid, at, arg, forks, serial, id, creator,
                   holder, locked>>

\* putch: putch_spin is taken at once, or waited for, ...
PutchLock(c) ==
    /\ Prints(c, "before")
    /\ ~locked
    /\ locked' = TRUE
    /\ Goes(c, "in")
    /\ UNCHANGED <<procVars, holder>>

PutchWait(c) ==
    /\ Prints(c, "before")
    /\ locked
    /\ Wait(c, not_locked)
    /\ UNCHANGED <<tableVars, pid, gs28, ursp, at, arg, forks, serial, id, creator,
                   holder, locked, printing>>

\* ... and given back when the character is out.
PutchUnlock(c) ==
    /\ Prints(c, "in")
    /\ locked' = FALSE
    /\ NotifyOne(c, not_locked)
    /\ Goes(c, "after")
    /\ UNCHANGED <<tableVars, pid, gs28, ursp, at, arg, forks, serial, id, creator, holder>>

\* The call returns; a refused fork unlocks processLock first.
PrintReturn(c) ==
    /\ Prints(c, "after")
    /\ holder' = IF holder = Me(c) THEN Null ELSE holder
    /\ ursp' = [ursp EXCEPT ![Me(c)] = gs28[c]]
    /\ Goes(c, "no")
    /\ UNCHANGED <<threadVars, tableVars, pid, gs28, at, arg, forks, serial, id, creator, locked>>

\* The calls of Processes; those that take processLock need it to be free.
Locking(c) == Fork(c) \/ Exit(c) \/ WaitpidFail(c) \/ WaitpidReap(c) \/ WaitpidYield(c)

Lockless(c) ==
    \/ Register(c) \/ SchedYield(c) \/ SchedYieldReturn(c) \/ ForkAdd(c)
    \/ ChildReturn(c) \/ ExitStop(c) \/ Waitpid(c)

Calls(c) ==
    /\ Prints(c, "no")
    /\ (holder = Null /\ Locking(c)) \/ Lockless(c)
    /\ UNCHANGED <<holder, locked, printing>>

PLNext ==
    \/ \E c \in Core :
          \/ Kernel(c) /\ UNCHANGED <<holder, locked, printing>>
          \/ Calls(c) \/ ForkRefused(c) \/ SysWrite(c)
          \/ PutchLock(c) \/ PutchWait(c) \/ PutchUnlock(c) \/ PrintReturn(c)
    \/ PowerOff /\ UNCHANGED lockVars

PLSpec == PLInit /\ [][PLNext]_lockVars

-----------------------------------------------------------------------------
\* Core c is in the loop of SpinLock::lock and nothing takes it out of there: it does
\* not give up its thread.
Spins(c) == Prints(c, "no") /\ at[Me(c)] = "waitpid" /\ holder # Null

\* Whoever holds processLock can still get a core: the cores do not all spin for it
\* while the holder is on none of them.  "All cores get to participate" and "All
\* threads get a fair share of resources" (README), the KPRINT under processLock.
HolderGetsCore == ~\A c \in Core : Spins(c)
=============================================================================
