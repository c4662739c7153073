------------------------------ MODULE SpinLock ------------------------------
(***************************************************************************)
(* SpinLock (kernel/spin_lock.cc, kernel/spin_lock.h) at the granularity   *)
(* of its memory accesses: the test-and-set word, the fields was_disabled  *)
(* and count_it that only the lock protects, the interrupt flag of each    *)
(* core, and the maximum with the compare-and-swap loop of AtomicMax       *)
(* (kernel/atomic.h).  The other two statistics are sums that are added to *)
(* atomically and only printed; they are left out.                         *)
(*                                                                         *)
(* A core enters lock() with interrupts on or, in a handler or inside      *)
(* another critical section, off.  The time spent in a critical section is *)
(* any member of Cycles.                                                   *)
(***************************************************************************)
EXTENDS Naturals

CONSTANTS
    Cpu,        \* the cores
    Cycles      \* lengths of critical sections, as rdtsc measures them

ASSUME SpinLockAssumption == Cycles \subseteq Nat

VARIABLES
    taken, was_disabled, count_it,  \* fields of the lock
    maximum,                        \* max_critical_section_cycles
    disabled,   \* interrupt flag of each core (TRUE: interrupts are off)
    stage,      \* where each core is in lock() or unlock()
    was,        \* local of tryLock, and of unlock
    counted,    \* local c of unlock
    elapsed,    \* local of unlock
    old,        \* local of AtomicMax::update
    before,     \* history: the interrupt flag when lock() was called
    recorded    \* history: the values AtomicMax::update has returned for

spinVars == <<taken, was_disabled, count_it, maximum, disabled, stage,
              was, counted, elapsed, old, before, recorded>>

Stage == {"out", "disable", "exchange", "save", "fail", "in", "read", "clear",
          "restore", "get", "cas"}

SpinTypeOK ==
    /\ taken \in BOOLEAN
    /\ was_disabled \in BOOLEAN
    /\ count_it \in BOOLEAN
    /\ maximum \in Nat
    /\ disabled \in [Cpu -> BOOLEAN]
    /\ stage \in [Cpu -> Stage]
    /\ was \in [Cpu -> BOOLEAN]
    /\ counted \in [Cpu -> BOOLEAN]
    /\ elapsed \in [Cpu -> Nat]
    /\ old \in [Cpu -> Nat]
    /\ before \in [Cpu -> BOOLEAN]
    /\ recorded \subseteq Nat

SpinInit ==
    /\ taken = FALSE
    /\ was_disabled = FALSE
    /\ count_it = FALSE
    /\ maximum = 0
    /\ disabled \in [Cpu -> BOOLEAN]
    /\ stage = [c \in Cpu |-> "out"]
    /\ was = [c \in Cpu |-> FALSE]
    /\ counted = [c \in Cpu |-> FALSE]
    /\ elapsed = [c \in Cpu |-> 0]
    /\ old = [c \in Cpu |-> 0]
    /\ before = disabled
    /\ recorded = {}

Advance(c, p, q) == stage[c] = p /\ stage' = [stage EXCEPT ![c] = q]

lockVars == <<taken, was_disabled, count_it>>

-----------------------------------------------------------------------------
\* The code around a critical section turns interrupts on or off.
SetInterrupts(c) ==
    /\ stage[c] = "out"
    /\ disabled' = [disabled EXCEPT ![c] = ~@]
    /\ before' = [before EXCEPT ![c] = ~disabled[c]]
    /\ UNCHANGED <<lockVars, maximum, stage, was, counted, elapsed, old, recorded>>

\* lock() is called.
CallLock(c) ==
    /\ Advance(c, "out", "disable")
    /\ before' = [before EXCEPT ![c] = disabled[c]]
    /\ UNCHANGED <<lockVars, maximum, disabled, was, counted, elapsed, old, recorded>>

\* tryLock: was = disable(); ...
TurnOff(c) ==
    /\ Advance(c, "disable", "exchange")
    /\ was' = [was EXCEPT ![c] = disabled[c]]
    /\ disabled' = [disabled EXCEPT ![c] = TRUE]
    /\ UNCHANGED <<lockVars, maximum, counted, elapsed, old, before, recorded>>

\* ... has_it = !taken.exchange(true); ...
Exchange(c) ==
    /\ Advance(c, "exchange", IF taken THEN "fail" ELSE "save")
    /\ taken' = TRUE
    /\ UNCHANGED <<was_disabled, count_it, maximum, disabled, was, counted,
                   elapsed, old, before, recorded>>

\* ... the winner keeps the flag in the lock, ...
Save(c) ==
    /\ Advance(c, "save", "in")
    /\ was_disabled' = was[c]
    /\ UNCHANGED <<taken, count_it, maximum, disabled, was, counted, elapsed,
                   old, before, recorded>>

\* ... a loser restores it, pauses and tries again.
\* Seeded fault: the loser takes its exchange back.
FailClears(c) ==
    /\ Advance(c, "fail", "disable")
    /\ taken' = FALSE
    /\ disabled' = [disabled EXCEPT ![c] = was[c]]
    /\ UNCHANGED <<was_disabled, count_it, maximum, was, counted, elapsed, old,
                   before, recorded>>

Fail(c) ==
    /\ Advance(c, "fail", "disable")
    /\ disabled' = [disabled EXCEPT ![c] = was[c]]
    /\ UNCHANGED <<lockVars, maximum, was, counted, elapsed, old, before, recorded>>

\* unlock: the fields are read while the lock is still held, ...
ReadFields(c) ==
    /\ Advance(c, "in", "read")
    /\ counted' = [counted EXCEPT ![c] = count_it]
    /\ count_it' = TRUE
    /\ \E n \in Cycles : elapsed' = [elapsed EXCEPT ![c] = n]
    /\ UNCHANGED <<taken, was_disabled, maximum, disabled, was, old, before, recorded>>

ReadWas(c) ==
    /\ Advance(c, "read", "clear")
    /\ was' = [was EXCEPT ![c] = was_disabled]
    /\ UNCHANGED <<lockVars, maximum, disabled, counted, elapsed, old, before, recorded>>

\* ... taken.set(false), ...
\* Seeded fault: the word is not written.
ClearForgotten(c) ==
    /\ Advance(c, "clear", "restore")
    /\ UNCHANGED <<lockVars, maximum, disabled, was, counted, elapsed, old,
                   before, recorded>>

Clear(c) ==
    /\ Advance(c, "clear", "restore")
    /\ taken' = FALSE
    /\ UNCHANGED <<was_disabled, count_it, maximum, disabled, was, counted,
                   elapsed, old, before, recorded>>

\* ... interrupts go back to what they were, ...
\* Seeded fault: the flag is read from the lock after it has been released.
RestoreFromLock(c) ==
    /\ Advance(c, "restore", IF counted[c] THEN "get" ELSE "out")
    /\ disabled' = [disabled EXCEPT ![c] = was_disabled]
    /\ UNCHANGED <<lockVars, maximum, was, counted, elapsed, old, before, recorded>>

Restore(c) ==
    /\ Advance(c, "restore", IF counted[c] THEN "get" ELSE "out")
    /\ disabled' = [disabled EXCEPT ![c] = was[c]]
    /\ UNCHANGED <<lockVars, maximum, was, counted, elapsed, old, before, recorded>>

\* ... and, except for the first critical section, the maximum is updated.
\* AtomicMax::update: read the value and return if it is large enough, ...
GetMax(c) ==
    /\ old' = [old EXCEPT ![c] = maximum]
    /\ \/ /\ elapsed[c] <= maximum
          /\ Advance(c, "get", "out")
          /\ recorded' = recorded \cup {elapsed[c]}
       \/ /\ elapsed[c] > maximum
          /\ Advance(c, "get", "cas")
          /\ UNCHANGED recorded
    /\ UNCHANGED <<lockVars, maximum, disabled, was, counted, elapsed, before>>

\* ... else replace it, if it is still the value that was read.
\* Seeded fault: a plain store in place of the compare-and-swap.
CasMaxStore(c) ==
    /\ maximum' = elapsed[c]
    /\ Advance(c, "cas", "out")
    /\ recorded' = recorded \cup {elapsed[c]}
    /\ UNCHANGED <<lockVars, disabled, was, counted, elapsed, old,
                   before>>

CasMax(c) ==
    /\ \/ /\ maximum = old[c]
          /\ maximum' = elapsed[c]
          /\ Advance(c, "cas", "out")
          /\ recorded' = recorded \cup {elapsed[c]}
       \/ /\ maximum # old[c]
          /\ Advance(c, "cas", "get")
          /\ UNCHANGED <<maximum, recorded>>
    /\ UNCHANGED <<lockVars, disabled, was, counted, elapsed, old,
                   before>>

SpinStep(c) ==
    \/ CallLock(c) \/ TurnOff(c) \/ Exchange(c) \/ Save(c) \/ Fail(c)
    \/ ReadFields(c) \/ ReadWas(c) \/ Clear(c) \/ Restore(c)
    \/ GetMax(c) \/ CasMax(c)

SpinNext == \E c \in Cpu : SpinStep(c) \/ SetInterrupts(c)

SpinSpec == SpinInit /\ [][SpinNext]_spinVars

\* Cores keep executing inside lock() and unlock().
SpinFairness == \A c \in Cpu : WF_spinVars(stage[c] # "out" /\ SpinStep(c))

-----------------------------------------------------------------------------
\* The places where a core owns the lock.
Owns(c) == stage[c] \in {"save", "in", "read", "clear"}

\* At most one core is between a successful exchange and taken.set(false), and
\* it runs with interrupts off.
LockExcludes ==
    /\ \A c, d \in Cpu : Owns(c) /\ Owns(d) => c = d
    /\ \A c \in Cpu : Owns(c) => disabled[c]

\* After lock() and unlock() the interrupt flag of a core is what it was before,
\* although another core overwrites was_disabled as soon as the lock is free
\* and a failed attempt goes through disable() and restore() as well.
InterruptsRestored == \A c \in Cpu : stage[c] = "out" => disabled[c] = before[c]

\* The recorded maximum is never below a critical section accounted for,
\* whatever other cores do between the read and the compare-and-swap.
MaximumIsMaximum == \A n \in recorded : n <= maximum

\* While a core tries, some core gets the lock: the holder is never kept from
\* releasing it.  (Which core is open: test-and-set is not fair.)
SomebodyGetsIn ==
    \A c \in Cpu : stage[c] = "disable" ~> \E d \in Cpu : stage[d] = "in"
=============================================================================
