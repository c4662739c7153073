-------------------------------- MODULE Boot --------------------------------
(***************************************************************************)
(* Start-up: system_main on the bootstrap processor, then core_main on     *)
(* every core at once (system_main.cc, core_main.cc, idt.cc, pit.cc).      *)
(* Cores are named by their local APIC ids.  The cores write their TSS     *)
(* descriptors into one GDT and meet at start_barrier; the core with id 0  *)
(* creates the thread of kernel_main, and any core may run it.             *)
(*                                                                         *)
(* A failed ASSERT shuts the machine down.  Printing is in module Console. *)
(***************************************************************************)
EXTENDS Integers, FiniteSets, Functions

CONSTANTS
  NCores,
  Listing,       \* the orders in which Limine may list the ids of the cores
  Bsp,           \* bsp_lapic_id
  LimineGdt,     \* its descriptors, from 0
  ResetVector,   \* in the spurious interrupt register before the kernel sets it
  Elapsed        \* what the APIC timer may count in a second

APIT_vector == 40
spurious_index == 50
Lapic == 0..(NCores - 1)

ASSUME BootAssumption ==
  /\ NCores \in Nat \ {0} /\ Bsp \in Lapic
  /\ \A l \in Listing : l \in [Lapic -> Lapic] /\ \A c \in Lapic : \E i \in Lapic : l[i] = c
  /\ IsFiniteSet(DOMAIN LimineGdt) /\ Cardinality(DOMAIN LimineGdt) > 6
  /\ DOMAIN LimineGdt = 0..(Cardinality(DOMAIN LimineGdt) - 1)

VARIABLES
  bootAt,        \* where a core is
  info,          \* the record of limine a core was started with: its lapic_id
  sys,           \* what system_main has set up
  idt,           \* handler of each vector
  gdt,           \* the new GDT, from 0
  regs           \* registers of each core

bootVars == <<bootAt, info, sys, idt, gdt, regs>>

NoTable == [i \in {} |-> 0]
NoRegs == [gdtr |-> FALSE, lstar |-> FALSE, fs |-> "none", gs |-> -1, tr |-> <<>>, idtr |-> FALSE,
           svr |-> ResetVector, interrupts |-> FALSE]

BootInit ==
  /\ bootAt = [c \in Lapic |-> IF c = Bsp THEN "system_main" ELSE "off"]
  /\ info = [c \in Lapic |-> -1]
  /\ sys = [heap |-> FALSE, cr3 |-> FALSE, apitCounter |-> 0, core_count |-> 0, cpus |-> NoTable,
            base_tss_index |-> 0, barrier |-> -1, woken |-> 0, halted |-> FALSE, ready |-> 0]
  /\ idt = NoTable
  /\ gdt = NoTable
  /\ regs = [c \in Lapic |-> NoRegs]

Halt == sys' = [sys EXCEPT !.halted = TRUE]

\* Core c goes from one point to another, on a machine that still runs.
Step(c, from, to) ==
  /\ ~sys.halted
  /\ bootAt[c] = from
  /\ bootAt' = [bootAt EXCEPT ![c] = to]

Vector(t, i, handler) == [j \in DOMAIN t \cup {i} |-> IF j = i THEN handler ELSE t[j]]

-----------------------------------------------------------------------------
\* What cpuid may report, of the features that are asserted.
Reported == SUBSET {"SSE3", "FSGSBASE"}

\* system_main and core_main start with the assertions on the features.
Features(c, from, to) ==
  /\ Step(c, from, to)
  /\ \E f \in Reported : IF {"SSE3", "FSGSBASE"} \subseteq f THEN UNCHANGED sys ELSE Halt
  /\ UNCHANGED <<info, idt, gdt, regs>>

IdtInitSystem ==
  /\ Step(Bsp, "idt", "pit")
  /\ idt' = Vector(idt, regs[Bsp].svr, "spuriousHandler_")
  /\ UNCHANGED <<info, sys, gdt, regs>>

\* Calibration counts the APIC timer for a second.
PitInitSystem(hz) ==
  /\ Step(Bsp, "pit", "vmm")
  /\ \E diff \in Elapsed : sys' = [sys EXCEPT !.apitCounter = diff \div hz]
  /\ idt' = Vector(idt, APIT_vector, "apitHandler_")
  /\ UNCHANGED <<info, gdt, regs>>

VmmInitSystem ==
  /\ Step(Bsp, "vmm", "count")
  /\ sys' = [sys EXCEPT !.cr3 = TRUE]
  /\ idt' = Vector(idt, 14, "pageFaultHandler_")
  /\ UNCHANGED <<info, gdt, regs>>

\* What Limine answers; a machine without x2APIC is refused.
CountCores ==
  /\ Step(Bsp, "count", "heap")
  /\ \/ \E l \in Listing : sys' = [sys EXCEPT !.core_count = NCores, !.cpus = l]
     \/ Halt
  /\ UNCHANGED <<info, idt, gdt, regs>>

HeapAndConstructors ==
  /\ Step(Bsp, "heap", "gdt")
  /\ sys' = [sys EXCEPT !.heap = TRUE]
  /\ UNCHANGED <<info, idt, gdt, regs>>

\* Limine's descriptors, the first four replaced by the 64 bit ones and all but the
\* null one with DPL 3, and room for two words for each core.
GdtEntries(base) == base + 2 * sys.core_count

NewGdt ==
  LET base == Cardinality(DOMAIN LimineGdt)
      old  == [i \in DOMAIN LimineGdt |->
                 IF i \in {1, 3} THEN LimineGdt[5] ELSE IF i \in {2, 4} THEN LimineGdt[6] ELSE LimineGdt[i]]
  IN
  /\ Step(Bsp, "gdt", "barrier")
  /\ gdt' = [i \in 0..(GdtEntries(base) - 1) |->
               IF i \in 1..(base - 1) THEN [segment |-> old[i], dpl |-> 3] ELSE [segment |-> "unset", dpl |-> 0]]
  /\ sys' = [sys EXCEPT !.base_tss_index = base]
  /\ UNCHANGED <<info, idt, regs>>

NewBarrier ==
  /\ Step(Bsp, "barrier", "wake")
  /\ sys' = [sys EXCEPT !.barrier = sys.core_count]
  /\ UNCHANGED <<info, idt, gdt, regs>>

\* The loop over cpus: goto_address starts a core, which runs beside the loop.
WakeCore ==
  LET c == sys.cpus[sys.woken] IN
  /\ ~sys.halted
  /\ bootAt[Bsp] = "wake"
  /\ sys.woken < sys.core_count
  /\ sys' = [sys EXCEPT !.woken = @ + 1]
  /\ IF c # Bsp THEN /\ bootAt' = [bootAt EXCEPT ![c] = "core_main"]
                     /\ info' = [info EXCEPT ![c] = c]
                ELSE UNCHANGED <<bootAt, info>>
  /\ UNCHANGED <<idt, gdt, regs>>

\* The bootstrap processor takes its own record by its id, whatever the order.
EnterCoreMain ==
  /\ sys.woken = sys.core_count
  /\ Step(Bsp, "wake", "core_main")
  /\ info' = [info EXCEPT ![Bsp] = sys.cpus[Bsp]]
  /\ UNCHANGED <<sys, idt, gdt, regs>>

-----------------------------------------------------------------------------
\* core_main: registers, then bootstrap, which checks the id.
SetRegisters(c) ==
  /\ Step(c, "registers", "bootstrap")
  /\ regs' = [regs EXCEPT ![c].lstar = TRUE, ![c].gdtr = TRUE]
  /\ UNCHANGED <<info, sys, idt, gdt>>

Bootstrap(c) ==
  /\ Step(c, "bootstrap", "per_core")
  /\ IF info[c] = c THEN regs' = [regs EXCEPT ![c].fs = "idle"] /\ UNCHANGED sys
                    ELSE Halt /\ UNCHANGED regs
  /\ UNCHANGED <<info, idt, gdt>>

NewPerCore(c) ==
  /\ Step(c, "per_core", "tss")
  /\ regs' = [regs EXCEPT ![c].gs = info[c]]
  /\ UNCHANGED <<info, sys, idt, gdt>>

\* Seeded fault: a descriptor is taken to be one word.
TssIndexWord(id) == sys.base_tss_index + id

TssIndex(id) == sys.base_tss_index + 2 * id

TssWord(id, half) == [segment |-> <<"tss", id, half>>, dpl |-> 0]

\* The descriptor of the core's TSS, two words, ...
WriteTss(c) ==
  LET i == TssIndex(regs[c].gs) IN
  /\ Step(c, "tss", "ltr")
  /\ gdt' = [j \in DOMAIN gdt \cup {i, i + 1} |->
               IF j = i THEN TssWord(info[c], "low")
               ELSE IF j = i + 1 THEN TssWord(info[c], "high") ELSE gdt[j]]
  /\ UNCHANGED <<info, sys, idt, regs>>

\* ... which ltr reads; then interrupts are enabled.
LoadTss(c) ==
  LET i == TssIndex(regs[c].gs) IN
  /\ Step(c, "ltr", "sync")
  /\ regs' = [regs EXCEPT ![c].tr = <<gdt[i], gdt[i + 1]>>, ![c].interrupts = TRUE]
  /\ UNCHANGED <<info, sys, idt, gdt>>

\* start_barrier->sync(); an idle thread waits by spinning.
SyncStart(c) ==
  /\ Step(c, "sync", "wait")
  /\ sys' = [sys EXCEPT !.barrier = @ - 1]
  /\ UNCHANGED <<info, idt, gdt, regs>>

\* Only core 0 creates the thread of kernel_main.
LeaveBarrier(c) ==
  /\ sys.barrier = 0
  /\ Step(c, "wait", "init_core")
  /\ sys' = [sys EXCEPT !.ready = IF info[c] = 0 THEN @ + 1 ELSE @]
  /\ UNCHANGED <<info, idt, gdt, regs>>

\* IDT::init_core; Pit::init_core returns at once, VMM::init_core is empty.
InitCore(c) ==
  /\ Step(c, "init_core", "event_loop")
  /\ regs' = [regs EXCEPT ![c].svr = spurious_index, ![c].idtr = TRUE]
  /\ UNCHANGED <<info, sys, idt, gdt>>

\* event_loop: the core takes the thread from the ready queue.
RunThread(c) ==
  /\ sys.ready > 0
  /\ Step(c, "event_loop", "kernel_main")
  /\ sys' = [sys EXCEPT !.ready = @ - 1]
  /\ regs' = [regs EXCEPT ![c].fs = "thread"]
  /\ UNCHANGED <<info, idt, gdt>>

BootNext ==
  \/ Features(Bsp, "system_main", "idt")
  \/ IdtInitSystem \/ PitInitSystem(1000) \/ VmmInitSystem \/ CountCores
  \/ HeapAndConstructors \/ NewGdt \/ NewBarrier \/ WakeCore \/ EnterCoreMain
  \/ \E c \in Lapic :
       \/ Features(c, "core_main", "registers")
       \/ SetRegisters(c) \/ Bootstrap(c) \/ NewPerCore(c) \/ WriteTss(c) \/ LoadTss(c)
       \/ SyncStart(c) \/ LeaveBarrier(c) \/ InitCore(c) \/ RunThread(c)

BootSpec == BootInit /\ [][BootNext]_bootVars

-----------------------------------------------------------------------------
\* Whatever the order in which the cores write into the one GDT: nothing is written
\* beyond it; kernel_main runs on one core, and that core can take page faults and
\* system calls; and by then every core has loaded the descriptor of its own TSS and
\* its own PerCore, so a thread that moves finds the core as it should be.
CoreReady ==
  /\ gdt # NoTable => DOMAIN gdt = 0..(GdtEntries(sys.base_tss_index) - 1)
  /\ \A c \in Lapic : bootAt[c] = "kernel_main" =>
       /\ regs[c].idtr /\ 14 \in DOMAIN idt /\ sys.cr3 /\ sys.heap
       /\ gdt[4].segment = LimineGdt[6] /\ gdt[5].segment = LimineGdt[5]
       /\ \A d \in Lapic :
            /\ d # c => bootAt[d] # "kernel_main"
            /\ regs[d].lstar /\ regs[d].gs = d
            /\ regs[d].tr = <<TssWord(d, "low"), TssWord(d, "high")>>
=============================================================================
