----------------------------- MODULE BootProofs -----------------------------
(***************************************************************************)
(* Start-up leaves every core as threads need it, for every number of      *)
(* cores, every order in which Limine lists them and every interleaving of *)
(* the cores once they are awake.                                          *)
(***************************************************************************)
EXTENDS Boot, FiniteSetTheorems, TLAPS

\* Where a core is, from the last point backwards: each name is the set of points at
\* which a core has what the name says.
InLoop == {"event_loop", "kernel_main"}
Through == {"init_core"} \cup InLoop
Synced == {"wait"} \cup Through
Loaded == {"sync"} \cup Synced
Written == {"ltr"} \cup Loaded
HasPerCore == {"tss"} \cup Written
Checked == {"per_core"} \cup HasPerCore
HasRegisters == {"bootstrap"} \cup Checked
InCoreMain == {"core_main", "registers"} \cup HasRegisters
HasBarrier == {"wake"} \cup InCoreMain
HasGdt == {"barrier"} \cup HasBarrier
HasHeap == {"gdt"} \cup HasGdt
HasCount == {"heap"} \cup HasHeap
HasTables == {"count"} \cup HasCount
Point == {"off", "system_main", "idt", "pit", "vmm"} \cup HasTables

Base == Cardinality(DOMAIN LimineGdt)
GdtDomain == 0..(Base + 2 * NCores - 1)

\* The cores that start_barrier still waits for.
Outside(at) == {c \in Lapic : at[c] \notin Synced}

\* The types of the records; the words ltr has read may be anything.
IsRegs(r) ==
  r \in [gdtr : BOOLEAN, lstar : BOOLEAN, fs : {"none", "idle", "thread"}, gs : Int, tr : {r.tr},
         idtr : BOOLEAN, svr : {r.svr}, interrupts : BOOLEAN]

IsSys(s) ==
  s \in [heap : BOOLEAN, cr3 : BOOLEAN, apitCounter : {s.apitCounter}, core_count : Nat,
         cpus : Listing \cup {NoTable}, base_tss_index : Nat, barrier : Int, woken : Nat,
         halted : BOOLEAN, ready : Nat]

BootTypeOK ==
  /\ bootAt \in [Lapic -> Point]
  /\ info \in [Lapic -> Int]
  /\ IsSys(sys)
  /\ DOMAIN regs = Lapic /\ regs = [c \in Lapic |-> regs[c]] /\ \A c \in Lapic : IsRegs(regs[c])

\* What the bootstrap processor has set up where it is.
SystemInv ==
  /\ bootAt[Bsp] # "off"
  /\ bootAt[Bsp] \in HasTables => sys.cr3 /\ 14 \in DOMAIN idt
  /\ bootAt[Bsp] \in HasCount => sys.core_count = NCores /\ sys.cpus \in Listing
  /\ bootAt[Bsp] \in HasHeap => sys.heap
  /\ bootAt[Bsp] \in HasGdt =>
       /\ sys.base_tss_index = Base /\ DOMAIN gdt = GdtDomain
       /\ gdt[4].segment = LimineGdt[6] /\ gdt[5].segment = LimineGdt[5]
  /\ bootAt[Bsp] \notin HasGdt => gdt = NoTable

\* Nobody runs before it is woken, and a core that was woken is in core_main.
WakeInv ==
  /\ \A c \in Lapic \ {Bsp} : bootAt[c] = "off" \/ bootAt[c] \in InCoreMain
  /\ bootAt[Bsp] \notin HasBarrier => sys.woken = 0 /\ \A c \in Lapic \ {Bsp} : bootAt[c] = "off"
  /\ bootAt[Bsp] \in HasBarrier =>
       \A i \in Lapic : i >= sys.woken /\ sys.cpus[i] # Bsp => bootAt[sys.cpus[i]] = "off"

\* The count of start_barrier, and what it means to be through.
StartInv ==
  /\ bootAt[Bsp] \in HasBarrier => sys.barrier = Cardinality(Outside(bootAt))
  /\ (\E c \in Lapic : bootAt[c] \in Through) => sys.barrier = 0

\* There is one thread of kernel_main, made by core 0: it is ready or runs on one core.
MainInv ==
  /\ sys.ready \in {0, 1}
  /\ bootAt[0] \notin Through => sys.ready = 0 /\ \A c \in Lapic : bootAt[c] # "kernel_main"
  /\ sys.ready = 1 => \A c \in Lapic : bootAt[c] # "kernel_main"
  /\ \A c, d \in Lapic : bootAt[c] = "kernel_main" /\ bootAt[d] = "kernel_main" => c = d

\* What a core has set up for itself where it is.
CoreInv(c) ==
  /\ bootAt[c] \in HasRegisters => regs[c].lstar
  /\ bootAt[c] \in Checked => info[c] = c
  /\ bootAt[c] \in HasPerCore => regs[c].gs = c
  /\ bootAt[c] \in Written => /\ gdt[Base + 2 * c] = TssWord(c, "low")
                              /\ gdt[Base + 2 * c + 1] = TssWord(c, "high")
  /\ bootAt[c] \in Loaded => regs[c].tr = <<TssWord(c, "low"), TssWord(c, "high")>>
  /\ bootAt[c] \in InLoop => regs[c].idtr

\* Nothing is written beyond the table.
GdtFits == gdt # NoTable => DOMAIN gdt = 0..(sys.base_tss_index + 2 * sys.core_count - 1)

RunningInv == SystemInv /\ WakeInv /\ StartInv /\ MainInv /\ \A c \in Lapic : CoreInv(c)

\* An assertion that fails may leave the rest undone, but it does so before anybody is
\* through the barrier.
BootInv ==
  /\ BootTypeOK
  /\ GdtFits
  /\ ~sys.halted => RunningInv
  /\ sys.halted => \A c \in Lapic : bootAt[c] # "kernel_main"
-----------------------------------------------------------------------------
(***************************************************************************)
(* The constants, and the count of the barrier.                            *)
(***************************************************************************)

\* Core 0 is a core, the cores are finitely many, and Limine's table has its seven
\* descriptors.
LEMMA Constants ==
    /\ NCores \in Nat \ {0} /\ Lapic = 0..(NCores - 1) /\ Bsp \in Lapic /\ 0 \in Lapic
    /\ IsFiniteSet(Lapic) /\ Cardinality(Lapic) = NCores
    /\ Base \in Nat /\ Base > 6 /\ DOMAIN LimineGdt = 0..(Base - 1)
  <1>1. /\ NCores \in Nat \ {0} /\ Lapic = 0..(NCores - 1) /\ Bsp \in Lapic /\ 0 \in Lapic
    BY BootAssumption DEF Lapic
  <1>2. IsFiniteSet(Lapic) /\ Cardinality(Lapic) = NCores
    BY <1>1, FS_Interval
  <1>3. Base \in Nat
    BY BootAssumption, FS_CardinalityType DEF Base
  <1> QED BY <1>1, <1>2, <1>3, BootAssumption DEF Base

\* Limine lists every core once: a listing of all cores on as many places names none twice.
LEMMA ListedOnce ==
    ASSUME NEW l \in Listing
    PROVE  l \in [Lapic -> Lapic] /\ \A i, j \in Lapic : l[i] = l[j] => i = j
  <1>1. l \in [Lapic -> Lapic] /\ \A c \in Lapic : \E i \in Lapic : l[i] = c
    BY BootAssumption
  <1>2. l \in Surjection(Lapic, Lapic)
    BY <1>1 DEF Surjection
  <1>3. l \in Injection(Lapic, Lapic)
    BY <1>2, Constants, FS_Surjection
  <1> QED BY <1>1, <1>3 DEF Injection, IsInjective

\* A core that moves and stays on its side of the barrier is counted as before, ...
LEMMA SameSide ==
    ASSUME NEW at \in [Lapic -> Point], NEW c \in Lapic, NEW to \in Point,
           at[c] \in Synced <=> to \in Synced
    PROVE  Outside([at EXCEPT ![c] = to]) = Outside(at)
  BY DEF Outside

\* ... and one that enters it is counted off.
LEMMA OneFewer ==
    ASSUME NEW at \in [Lapic -> Point], NEW c \in Lapic, NEW to \in Point,
           at[c] \notin Synced, to \in Synced
    PROVE  Cardinality(Outside([at EXCEPT ![c] = to])) = Cardinality(Outside(at)) - 1
  <1>1. Outside([at EXCEPT ![c] = to]) = Outside(at) \ {c} /\ c \in Outside(at)
    BY DEF Outside
  <1>2. IsFiniteSet(Outside(at))
    BY Constants, FS_Subset DEF Outside
  <1> QED BY <1>1, <1>2, FS_RemoveElement

\* The count is 0 when everybody is inside, and only then.
LEMMA NobodyOutside ==
    ASSUME NEW at
    PROVE  /\ Cardinality(Outside(at)) \in Nat
           /\ Cardinality(Outside(at)) = 0 <=> \A c \in Lapic : at[c] \in Synced
  <1>1. IsFiniteSet(Outside(at))
    BY Constants, FS_Subset DEF Outside
  <1>2. Outside(at) = {} <=> \A c \in Lapic : at[c] \in Synced
    BY DEF Outside
  <1> QED BY <1>1, <1>2, FS_CardinalityType, FS_EmptySet

\* Before anybody enters the barrier it counts them all.
LEMMA AllOutside ==
    ASSUME NEW at, \A c \in Lapic : at[c] \notin Synced
    PROVE  Cardinality(Outside(at)) = NCores
  <1>1. Outside(at) = Lapic
    BY DEF Outside
  <1> QED BY <1>1, Constants

-----------------------------------------------------------------------------
(***************************************************************************)
(* The steps.                                                              *)
(***************************************************************************)
LEMMA BootInitInv == BootInit => BootInv
  <1> SUFFICES ASSUME BootInit PROVE BootInv
    OBVIOUS
  <1>1. IsRegs(NoRegs)
    BY DEF IsRegs, NoRegs
  <1>2. BootTypeOK
    BY <1>1, Constants DEF BootInit, BootTypeOK, IsSys, Point
  <1>3. RunningInv
    BY Constants DEF BootInit, RunningInv, SystemInv, WakeInv, StartInv, MainInv, CoreInv, HasTables,
       HasCount, HasHeap, HasGdt, HasBarrier, InCoreMain, HasRegisters, Checked, HasPerCore, Written, Loaded,
       Synced, Through, InLoop
  <1> QED BY <1>2, <1>3 DEF BootInv, BootInit, GdtFits

\* While one core is still outside the barrier, nobody is through.
LEMMA NobodyThrough ==
    ASSUME RunningInv, NEW c \in Lapic, bootAt[c] \notin Synced
    PROVE  \A d \in Lapic : bootAt[d] \notin Through
  <1>1. CASE bootAt[Bsp] \in HasBarrier
    <2>1. sys.barrier # 0
      BY <1>1, NobodyOutside DEF RunningInv, StartInv
    <2> QED BY <2>1 DEF RunningInv, StartInv
  <1>2. CASE bootAt[Bsp] \notin HasBarrier
    <2>1. \A d \in Lapic : d # Bsp => bootAt[d] = "off"
      BY <1>2 DEF RunningInv, WakeInv
    <2>2. bootAt[Bsp] \notin Through
      BY <1>2 DEF HasBarrier, InCoreMain, HasRegisters, Checked, HasPerCore, Written, Loaded, Synced
    <2> QED BY <2>1, <2>2 DEF Through, InLoop
  <1> QED BY <1>1, <1>2

\* An assertion that fails stops a machine on which nobody runs kernel_main.
LEMMA HaltInv ==
    ASSUME BootInv, NEW c \in Lapic, NEW from \in Point, NEW to \in Point, Step(c, from, to),
           from \notin Synced, to # "kernel_main", Halt, UNCHANGED <<info, idt, gdt, regs>>
    PROVE  BootInv'
  <1>1. RunningInv /\ bootAt[c] \notin Synced /\ BootTypeOK
    BY DEF BootInv, Step
  <1>2. \A d \in Lapic : bootAt[d] # "kernel_main"
    BY <1>1, NobodyThrough DEF Through, InLoop
  <1>3. \A d \in Lapic : bootAt'[d] # "kernel_main"
    BY <1>1, <1>2 DEF Step, BootTypeOK
  <1>4. /\ sys'.halted /\ sys'.core_count = sys.core_count
        /\ sys'.base_tss_index = sys.base_tss_index
    BY <1>1 DEF Halt, BootTypeOK, IsSys
  <1>5. BootTypeOK'
    <2>1. bootAt' \in [Lapic -> Point] /\ info' \in [Lapic -> Int]
      BY <1>1 DEF Step, BootTypeOK
    <2>2. IsSys(sys')
      BY <1>1 DEF Halt, BootTypeOK, IsSys
    <2> QED BY <1>1, <2>1, <2>2 DEF BootTypeOK, IsRegs, IsSys
  <1> QED BY <1>3, <1>4, <1>5 DEF BootInv, GdtFits

\* Of what system_main has set up, start_barrier and the ready queue may change.
SameSystem(new, old) ==
  /\ IsSys(new)
  /\ new.heap = old.heap /\ new.cr3 = old.cr3 /\ new.core_count = old.core_count
  /\ new.cpus = old.cpus /\ new.base_tss_index = old.base_tss_index
  /\ new.woken = old.woken /\ new.halted = old.halted

\* A core that goes on in core_main.
LEMMA GoesOn ==
    ASSUME BootTypeOK, RunningInv, SameSystem(sys', sys),
           NEW c \in Lapic, NEW from \in InCoreMain, NEW to \in InCoreMain, Step(c, from, to)
    PROVE  /\ bootAt' \in [Lapic -> Point] /\ ~sys'.halted /\ WakeInv'
           /\ bootAt[Bsp] \in HasBarrier /\ bootAt'[Bsp] \in HasBarrier
           /\ UNCHANGED <<idt, gdt>> => SystemInv' /\ (GdtFits => GdtFits')
  <1> USE DEF HasTables, HasCount, HasHeap, HasGdt, HasBarrier
  <1>0. from \in Point /\ to \in Point
    BY DEF Point
  <1>1. bootAt' \in [Lapic -> Point] /\ ~sys'.halted
    BY <1>0 DEF Step, BootTypeOK, SameSystem
  <1>2. /\ bootAt \in [Lapic -> Point] /\ bootAt[c] = from /\ bootAt'[c] = to
        /\ \A d \in Lapic : d # c => bootAt'[d] = bootAt[d]
    BY DEF Step, BootTypeOK
  <1>3. from # "off" /\ to # "off"
    BY DEF InCoreMain, HasRegisters, Checked, HasPerCore, Written, Loaded, Synced, Through, InLoop
  <1>4. bootAt[Bsp] \in HasBarrier /\ bootAt'[Bsp] \in HasBarrier
    BY <1>2, <1>3, Constants DEF RunningInv, WakeInv
  <1>5. WakeInv'
    <2>1. \A d \in Lapic \ {Bsp} : bootAt'[d] = "off" \/ bootAt'[d] \in InCoreMain
      BY <1>2 DEF RunningInv, WakeInv
    <2>2. \A i \in Lapic : i >= sys.woken /\ sys.cpus[i] # Bsp => bootAt'[sys.cpus[i]] = "off"
      <3> SUFFICES ASSUME NEW i \in Lapic, i >= sys.woken, sys.cpus[i] # Bsp
                   PROVE  bootAt'[sys.cpus[i]] = "off"
        OBVIOUS
      <3>1. bootAt[sys.cpus[i]] = "off"
        BY <1>4 DEF RunningInv, WakeInv
      <3>2. sys.cpus \in Listing
        BY <1>4 DEF RunningInv, SystemInv
      <3>3. sys.cpus[i] \in Lapic
        BY <3>2, ListedOnce
      <3> QED BY <1>2, <1>3, <3>1, <3>3
    <2> QED BY <1>4, <2>1, <2>2 DEF WakeInv, SameSystem
  <1>6. UNCHANGED <<idt, gdt>> => SystemInv' /\ (GdtFits => GdtFits')
    <2>1. HasBarrier \subseteq HasGdt /\ HasGdt \subseteq HasHeap /\ HasHeap \subseteq HasCount
          /\ HasCount \subseteq HasTables
      OBVIOUS
    <2>2. bootAt'[Bsp] # "off"
      BY <1>2, <1>3, Constants DEF RunningInv, SystemInv
    <2> HIDE DEF HasTables, HasCount, HasHeap, HasGdt, HasBarrier
    <2> QED BY <1>4, <2>1, <2>2 DEF RunningInv, SystemInv, SameSystem, GdtFits
  <1> QED BY <1>1, <1>4, <1>5, <1>6

\* Going on without crossing the barrier changes neither its count nor who may run.
LEMMA StaysOnSide ==
    ASSUME BootTypeOK, RunningInv, UNCHANGED sys,
           NEW c \in Lapic, NEW from \in InCoreMain, NEW to \in InCoreMain, Step(c, from, to),
           from \in Synced <=> to \in Synced, from \in Through <=> to \in Through, to # "kernel_main"
    PROVE  StartInv' /\ MainInv' /\ SameSystem(sys', sys)
  <1>0. from \in Point /\ to \in Point
    BY DEF Point, HasTables, HasCount, HasHeap, HasGdt, HasBarrier
  <1>1. SameSystem(sys', sys)
    BY DEF SameSystem, BootTypeOK
  <1>2. /\ bootAt \in [Lapic -> Point] /\ bootAt[c] = from /\ bootAt'[c] = to
        /\ \A d \in Lapic : d # c => bootAt'[d] = bootAt[d]
    BY DEF Step, BootTypeOK
  <1>3. StartInv'
    <2>1. Outside(bootAt') = Outside(bootAt)
      <3>1. bootAt' = [bootAt EXCEPT ![c] = to]
        BY DEF Step
      <3> QED BY <1>0, <1>2, <3>1, SameSide, ZenonT(30)
    <2>2. (\E d \in Lapic : bootAt'[d] \in Through) => \E d \in Lapic : bootAt[d] \in Through
      BY <1>2
    <2>3. bootAt[Bsp] \in HasBarrier
      BY <1>1, GoesOn
    <2> QED BY <2>1, <2>2, <2>3 DEF RunningInv, StartInv
  <1>4. MainInv'
    BY <1>2, Constants DEF RunningInv, MainInv
  <1> QED BY <1>1, <1>3, <1>4

\* The registers of core c are set, and no others.
OneCore(new, old, c) ==
  /\ DOMAIN new = Lapic /\ new = [d \in Lapic |-> new[d]]
  /\ IsRegs(new[c])
  /\ \A d \in Lapic \ {c} : new[d] = old[d]

\* A step of core_main, given what it does to the barrier, to the thread of kernel_main
\* and to the core itself.
LEMMA CoreStep ==
    ASSUME BootInv, UNCHANGED <<info, idt, gdt>>, SameSystem(sys', sys),
           NEW c \in Lapic, NEW from \in InCoreMain, NEW to \in InCoreMain, Step(c, from, to),
           StartInv', MainInv', OneCore(regs', regs, c), CoreInv(c)'
    PROVE  BootInv'
  <1>1. BootTypeOK /\ RunningInv /\ GdtFits /\ ~sys.halted
    BY DEF BootInv, Step
  <1>2. bootAt' \in [Lapic -> Point] /\ WakeInv' /\ SystemInv' /\ GdtFits' /\ ~sys'.halted
    BY <1>1, GoesOn
  <1>3. \A d \in Lapic : d # c => bootAt'[d] = bootAt[d]
    BY <1>1 DEF Step, BootTypeOK
  <1>4. \A d \in Lapic : CoreInv(d)'
    BY <1>1, <1>3 DEF RunningInv, CoreInv, OneCore
  <1>5. BootTypeOK'
    <2>1. \A d \in Lapic : IsRegs(regs'[d])
      BY <1>1 DEF OneCore, BootTypeOK
    <2>2. IsSys(sys')
      BY DEF SameSystem
    <2> QED BY <1>1, <1>2, <2>1, <2>2 DEF OneCore, BootTypeOK, IsRegs, IsSys
  <1> QED BY <1>2, <1>4, <1>5 DEF BootInv, RunningInv

\* The same for a core that does not cross the barrier.
LEMMA QuietStep ==
    ASSUME BootInv, UNCHANGED <<sys, info, idt, gdt>>,
           NEW c \in Lapic, NEW from \in InCoreMain, NEW to \in InCoreMain, Step(c, from, to),
           from \in Synced <=> to \in Synced, from \in Through <=> to \in Through, to # "kernel_main",
           OneCore(regs', regs, c), CoreInv(c)'
    PROVE  BootInv'
  <1>1. BootTypeOK /\ RunningInv
    BY DEF BootInv, Step
  <1> QED BY <1>1, StaysOnSide, CoreStep

\* What is known of a core that takes a step.
LEMMA AtStep ==
    ASSUME BootInv, NEW c \in Lapic, NEW from, NEW to, Step(c, from, to)
    PROVE  /\ ~sys.halted /\ BootTypeOK /\ RunningInv /\ CoreInv(c)
           /\ bootAt[c] = from /\ bootAt'[c] = to
           /\ \A d \in Lapic : d # c => bootAt'[d] = bootAt[d]
           /\ regs = [d \in Lapic |-> regs[d]] /\ IsRegs(regs[c])
  BY DEF BootInv, Step, BootTypeOK, RunningInv

\* core_main asserts the features of its core.
LEMMA FeaturesInv ==
    ASSUME BootInv, NEW c \in Lapic, Features(c, "core_main", "registers")
    PROVE  BootInv'
  <1> USE DEF InCoreMain, HasRegisters, Checked, HasPerCore, Written, Loaded, Synced, Through, InLoop
  <1>0. Step(c, "core_main", "registers") /\ UNCHANGED <<info, idt, gdt, regs>>
    BY DEF Features
  <1>1. CASE UNCHANGED sys
    <2>1. OneCore(regs', regs, c)
      BY <1>0, AtStep DEF OneCore, BootTypeOK
    <2>2. CoreInv(c)'
      BY <1>0, AtStep DEF CoreInv
    <2> QED BY <1>0, <1>1, <2>1, <2>2, QuietStep
  <1>2. CASE Halt
    BY <1>0, <1>2, HaltInv DEF Point, HasTables, HasCount, HasHeap, HasGdt, HasBarrier
  <1> QED BY <1>1, <1>2 DEF Features

\* The registers of a system call are set.
LEMMA SetRegistersInv ==
    ASSUME BootInv, NEW c \in Lapic, SetRegisters(c)
    PROVE  BootInv'
  <1> USE DEF InCoreMain, HasRegisters, Checked, HasPerCore, Written, Loaded, Synced, Through, InLoop
  <1>0. Step(c, "registers", "bootstrap") /\ UNCHANGED <<info, sys, idt, gdt>>
    BY DEF SetRegisters
  <1>1. regs' = [regs EXCEPT ![c].lstar = TRUE, ![c].gdtr = TRUE]
    BY DEF SetRegisters
  <1>2. regs'[c].lstar /\ OneCore(regs', regs, c)
    <2>1. regs = [d \in Lapic |-> regs[d]] /\ IsRegs(regs[c])
      BY <1>0, AtStep
    <2>2. regs'[c] = [regs[c] EXCEPT !.lstar = TRUE, !.gdtr = TRUE]
      BY <1>1, <2>1
    <2>3. regs'[c].lstar /\ IsRegs(regs'[c])
      BY <2>1, <2>2 DEF IsRegs
    <2> QED BY <1>1, <2>1, <2>3 DEF OneCore
  <1>3. CoreInv(c)'
    BY <1>0, <1>2, AtStep DEF CoreInv
  <1> QED BY <1>0, <1>2, <1>3, QuietStep

\* Only a core whose record carries its own id goes on.
LEMMA BootstrapInv ==
    ASSUME BootInv, NEW c \in Lapic, Bootstrap(c)
    PROVE  BootInv'
  <1> USE DEF InCoreMain, HasRegisters, Checked, HasPerCore, Written, Loaded, Synced, Through, InLoop
  <1>0. Step(c, "bootstrap", "per_core") /\ UNCHANGED <<info, idt, gdt>>
    BY DEF Bootstrap
  <1>1. CASE info[c] = c
    <2>1. regs' = [regs EXCEPT ![c].fs = "idle"] /\ UNCHANGED sys
      BY <1>1 DEF Bootstrap
    <2>2. regs'[c].lstar = regs[c].lstar /\ OneCore(regs', regs, c)
      <3>1. regs = [d \in Lapic |-> regs[d]] /\ IsRegs(regs[c])
        BY <1>0, AtStep
      <3>2. regs'[c] = [regs[c] EXCEPT !.fs = "idle"]
        BY <2>1, <3>1
      <3>3. regs'[c].lstar = regs[c].lstar /\ IsRegs(regs'[c])
        BY <3>1, <3>2 DEF IsRegs
      <3> QED BY <2>1, <3>1, <3>3 DEF OneCore
    <2>3. CoreInv(c)'
      BY <1>0, <1>1, <2>2, AtStep DEF CoreInv
    <2> QED BY <1>0, <2>1, <2>2, <2>3, QuietStep
  <1>2. CASE info[c] # c
    <2>1. Halt /\ UNCHANGED regs
      BY <1>2 DEF Bootstrap
    <2> QED BY <1>0, <2>1, HaltInv DEF Point, HasTables, HasCount, HasHeap, HasGdt, HasBarrier
  <1> QED BY <1>1, <1>2

\* A core that has been checked gets its own PerCore.
LEMMA NewPerCoreInv ==
    ASSUME BootInv, NEW c \in Lapic, NewPerCore(c)
    PROVE  BootInv'
  <1> USE DEF InCoreMain, HasRegisters, Checked, HasPerCore, Written, Loaded, Synced, Through, InLoop
  <1>0. Step(c, "per_core", "tss") /\ UNCHANGED <<info, sys, idt, gdt>>
    BY DEF NewPerCore
  <1>1. info[c] = c /\ c \in Int
    BY <1>0, AtStep, Constants DEF CoreInv
  <1>2. regs' = [regs EXCEPT ![c].gs = c]
    BY <1>1 DEF NewPerCore
  <1>3. regs'[c].gs = c /\ regs'[c].lstar = regs[c].lstar /\ OneCore(regs', regs, c)
    <2>1. regs = [d \in Lapic |-> regs[d]] /\ IsRegs(regs[c])
      BY <1>0, AtStep
    <2>2. regs'[c] = [regs[c] EXCEPT !.gs = c]
      BY <1>2, <2>1
    <2>3. regs'[c].gs = c /\ regs'[c].lstar = regs[c].lstar /\ IsRegs(regs'[c])
      BY <1>1, <2>1, <2>2 DEF IsRegs
    <2> QED BY <1>2, <2>1, <2>3 DEF OneCore
  <1>4. CoreInv(c)'
    BY <1>0, <1>1, <1>3, AtStep DEF CoreInv
  <1> QED BY <1>0, <1>3, <1>4, QuietStep

\* ltr reads the two words the core has written: nobody else writes them.
LEMMA LoadTssInv ==
    ASSUME BootInv, NEW c \in Lapic, LoadTss(c)
    PROVE  BootInv'
  <1> USE DEF InCoreMain, HasRegisters, Checked, HasPerCore, Written, Loaded, Synced, Through, InLoop
  <1>0. Step(c, "ltr", "sync") /\ UNCHANGED <<info, sys, idt, gdt>>
    BY DEF LoadTss
  <1>1. /\ regs[c].gs = c /\ gdt[Base + 2 * c] = TssWord(c, "low")
        /\ gdt[Base + 2 * c + 1] = TssWord(c, "high")
    BY <1>0, AtStep DEF CoreInv
  <1>2. sys.base_tss_index = Base
    <2>1. bootAt[Bsp] \in HasGdt
      BY <1>0, AtStep, Constants DEF RunningInv, WakeInv, HasGdt, HasBarrier
    <2> QED BY <1>0, <2>1, AtStep DEF RunningInv, SystemInv
  <1>3. regs' = [regs EXCEPT ![c].tr = <<TssWord(c, "low"), TssWord(c, "high")>>, ![c].interrupts = TRUE]
    BY <1>1, <1>2 DEF LoadTss, TssIndex
  <1>4. /\ regs'[c].gs = regs[c].gs /\ regs'[c].lstar = regs[c].lstar
        /\ regs'[c].tr = <<TssWord(c, "low"), TssWord(c, "high")>>
        /\ OneCore(regs', regs, c)
    <2> DEFINE words == <<TssWord(c, "low"), TssWord(c, "high")>>
    <2>1. regs' = [regs EXCEPT ![c].tr = words, ![c].interrupts = TRUE]
      BY <1>3
    <2> HIDE DEF words
    <2>2. /\ regs'[c].gs = regs[c].gs /\ regs'[c].lstar = regs[c].lstar /\ regs'[c].tr = words
          /\ OneCore(regs', regs, c)
      <3>1. regs = [d \in Lapic |-> regs[d]] /\ IsRegs(regs[c])
        BY <1>0, AtStep
      <3>2. regs'[c] = [regs[c] EXCEPT !.tr = words, !.interrupts = TRUE]
        BY <2>1, <3>1
      <3>3. /\ regs'[c].gs = regs[c].gs /\ regs'[c].lstar = regs[c].lstar /\ regs'[c].tr = words
            /\ IsRegs(regs'[c])
        BY <3>1, <3>2 DEF IsRegs
      <3> QED BY <2>1, <3>1, <3>3 DEF OneCore
    <2> QED BY <2>2 DEF words
  <1>5. CoreInv(c)'
    BY <1>0, <1>4, AtStep DEF CoreInv, TssWord
  <1> QED BY <1>0, <1>4, <1>5, QuietStep

\* The interrupt table is loaded.
LEMMA InitCoreInv ==
    ASSUME BootInv, NEW c \in Lapic, InitCore(c)
    PROVE  BootInv'
  <1> USE DEF InCoreMain, HasRegisters, Checked, HasPerCore, Written, Loaded, Synced, Through, InLoop
  <1>0. Step(c, "init_core", "event_loop") /\ UNCHANGED <<info, sys, idt, gdt>>
    BY DEF InitCore
  <1>1. regs' = [regs EXCEPT ![c].svr = spurious_index, ![c].idtr = TRUE]
    BY DEF InitCore
  <1>2. /\ regs'[c].gs = regs[c].gs /\ regs'[c].lstar = regs[c].lstar /\ regs'[c].tr = regs[c].tr
        /\ regs'[c].idtr /\ OneCore(regs', regs, c)
    <2>1. regs = [d \in Lapic |-> regs[d]] /\ IsRegs(regs[c])
      BY <1>0, AtStep
    <2>2. regs'[c] = [regs[c] EXCEPT !.svr = spurious_index, !.idtr = TRUE]
      BY <1>1, <2>1
    <2>3. /\ regs'[c].gs = regs[c].gs /\ regs'[c].lstar = regs[c].lstar /\ regs'[c].tr = regs[c].tr
          /\ regs'[c].idtr /\ IsRegs(regs'[c])
      BY <2>1, <2>2 DEF IsRegs
    <2> QED BY <1>1, <2>1, <2>3 DEF OneCore
  <1>3. CoreInv(c)'
    BY <1>0, <1>2, AtStep DEF CoreInv, TssWord
  <1> QED BY <1>0, <1>2, <1>3, QuietStep

\* Two words for each core, behind Limine's descriptors and inside the table, and no two
\* cores share one.
LEMMA TssPlaces ==
    ASSUME NEW c \in Lapic, NEW d \in Lapic
    PROVE  /\ GdtDomain \cup {Base + 2 * c, Base + 2 * c + 1} = GdtDomain
           /\ Base + 2 * c > 6
           /\ {Base + 2 * c, Base + 2 * c + 1} \subseteq GdtDomain
           /\ c # d => {Base + 2 * c, Base + 2 * c + 1} \cap {Base + 2 * d, Base + 2 * d + 1} = {}
  <1>1. /\ c \in Nat /\ d \in Nat /\ c <= NCores - 1 /\ d <= NCores - 1 /\ NCores \in Nat
        /\ Base \in Nat /\ Base > 6
    BY Constants
  <1>2. 0 <= Base + 2 * c /\ Base + 2 * c + 1 <= Base + 2 * NCores - 1
    BY <1>1
  <1>3. {Base + 2 * c, Base + 2 * c + 1} \subseteq GdtDomain
    BY <1>1, <1>2 DEF GdtDomain
  <1> QED BY <1>1, <1>3

\* Once a core is in core_main the bootstrap processor is past the set-up of the system.
LEMMA SetUp ==
    ASSUME RunningInv, NEW c \in Lapic, bootAt[c] \in InCoreMain
    PROVE  /\ bootAt[Bsp] \in HasBarrier
           /\ sys.cr3 /\ 14 \in DOMAIN idt /\ sys.heap /\ sys.core_count = NCores /\ sys.cpus \in Listing
           /\ sys.base_tss_index = Base /\ DOMAIN gdt = GdtDomain
           /\ gdt[4].segment = LimineGdt[6] /\ gdt[5].segment = LimineGdt[5]
           /\ sys.barrier = Cardinality(Outside(bootAt))
  <1>1. bootAt[c] # "off"
    BY DEF InCoreMain, HasRegisters, Checked, HasPerCore, Written, Loaded, Synced, Through, InLoop
  <1>2. bootAt[Bsp] \in HasBarrier
    BY <1>1, Constants DEF RunningInv, WakeInv, HasBarrier
  <1>3. bootAt[Bsp] \in HasGdt /\ bootAt[Bsp] \in HasHeap /\ bootAt[Bsp] \in HasCount
        /\ bootAt[Bsp] \in HasTables
    BY <1>2 DEF HasTables, HasCount, HasHeap, HasGdt
  <1> QED BY <1>2, <1>3 DEF RunningInv, SystemInv, StartInv

\* A core writes its two words; the words of the others, and Limine's, stay.
LEMMA WriteTssInv ==
    ASSUME BootInv, NEW c \in Lapic, WriteTss(c)
    PROVE  BootInv'
  <1> USE DEF InCoreMain, HasRegisters, Checked, HasPerCore, Written, Loaded, Synced, Through, InLoop
  <1>0. Step(c, "tss", "ltr") /\ UNCHANGED <<info, sys, idt, regs>>
    BY DEF WriteTss
  <1>1. info[c] = c /\ regs[c].gs = c
    BY <1>0, AtStep DEF CoreInv
  <1>2. RunningInv /\ BootTypeOK /\ bootAt[c] = "tss" /\ bootAt'[c] = "ltr"
    BY <1>0, AtStep
  <1>3. /\ bootAt[Bsp] \in HasBarrier
        /\ sys.core_count = NCores /\ sys.base_tss_index = Base /\ DOMAIN gdt = GdtDomain
        /\ gdt[4].segment = LimineGdt[6] /\ gdt[5].segment = LimineGdt[5]
    BY <1>2, SetUp
  <1> DEFINE i == Base + 2 * c
  <1>4. gdt' = [j \in DOMAIN gdt \cup {i, i + 1} |->
                  IF j = i THEN TssWord(c, "low") ELSE IF j = i + 1 THEN TssWord(c, "high") ELSE gdt[j]]
    BY <1>1, <1>3 DEF WriteTss, TssIndex
  <1>5. /\ GdtDomain \cup {i, i + 1} = GdtDomain /\ i \in GdtDomain /\ i + 1 \in GdtDomain /\ i > 6
        /\ i \in Int
    BY TssPlaces, Constants, SMTT(30)
  <1>6. /\ DOMAIN gdt' = GdtDomain /\ gdt'[i] = TssWord(c, "low") /\ gdt'[i + 1] = TssWord(c, "high")
        /\ \A j \in GdtDomain : j # i /\ j # i + 1 => gdt'[j] = gdt[j]
    <2> HIDE DEF i
    <2> QED BY <1>3, <1>4, <1>5
  <1>7. /\ bootAt' \in [Lapic -> Point] /\ ~sys'.halted /\ WakeInv' /\ StartInv' /\ MainInv'
    BY <1>0, <1>2, StaysOnSide, GoesOn
  <1>8. SystemInv'
    <2>1. 4 \in GdtDomain /\ 5 \in GdtDomain
      BY Constants DEF GdtDomain
    <2>2. gdt'[4] = gdt[4] /\ gdt'[5] = gdt[5]
      <3> HIDE DEF i
      <3> QED BY <1>5, <1>6, <2>1
    <2>3. bootAt'[Bsp] \in HasBarrier /\ bootAt'[Bsp] # "off"
      BY <1>0, <1>2, <1>3, Constants DEF Step, BootTypeOK, HasBarrier
    <2>4. bootAt[Bsp] \in HasGdt /\ bootAt[Bsp] \in HasHeap /\ bootAt[Bsp] \in HasCount
          /\ bootAt[Bsp] \in HasTables /\ bootAt'[Bsp] \in HasGdt
      BY <1>3, <2>3 DEF HasTables, HasCount, HasHeap, HasGdt
    <2> QED BY <1>0, <1>2, <1>3, <1>6, <2>2, <2>3, <2>4 DEF RunningInv, SystemInv
  <1>9. ASSUME NEW d \in Lapic PROVE CoreInv(d)'
    <2>1. CASE d = c
      BY <1>0, <1>1, <1>2, <1>6, <2>1, AtStep DEF CoreInv, TssWord
    <2>2. CASE d # c
      <3>1. bootAt'[d] = bootAt[d]
        BY <1>0, <1>2, <2>2 DEF Step, BootTypeOK
      <3>2. gdt'[Base + 2 * d] = gdt[Base + 2 * d] /\ gdt'[Base + 2 * d + 1] = gdt[Base + 2 * d + 1]
        <4> DEFINE j == Base + 2 * d
        <4>1. {j, j + 1} \subseteq GdtDomain /\ {i, i + 1} \cap {j, j + 1} = {}
          BY <2>2, TssPlaces
        <4> HIDE DEF i, j
        <4>2. gdt'[j] = gdt[j] /\ gdt'[j + 1] = gdt[j + 1]
          BY <1>6, <4>1
        <4> QED BY <4>2 DEF j
      <3> HIDE DEF InCoreMain, HasRegisters, Checked, HasPerCore, Written, Loaded, Synced, Through, InLoop
      <3> QED BY <1>0, <1>2, <3>1, <3>2 DEF RunningInv, CoreInv, TssWord
    <2> QED BY <2>1, <2>2
  <1>10. BootTypeOK'
    BY <1>0, <1>2, <1>7 DEF BootTypeOK, IsRegs, IsSys
  <1>11. GdtFits'
    BY <1>0, <1>3, <1>6 DEF GdtFits, GdtDomain
  <1> QED BY <1>7, <1>8, <1>9, <1>10, <1>11 DEF BootInv, RunningInv

\* A core enters start_barrier: nobody can be through yet.
LEMMA SyncStartInv ==
    ASSUME BootInv, NEW c \in Lapic, SyncStart(c)
    PROVE  BootInv'
  <1> USE DEF InCoreMain, HasRegisters, Checked, HasPerCore, Written, Loaded, Synced, Through, InLoop
  <1>0. Step(c, "sync", "wait") /\ UNCHANGED <<info, idt, gdt, regs>>
    BY DEF SyncStart
  <1>1. RunningInv /\ BootTypeOK /\ bootAt[c] = "sync" /\ bootAt'[c] = "wait"
        /\ \A d \in Lapic : d # c => bootAt'[d] = bootAt[d]
    BY <1>0, AtStep DEF Step
  <1>2. /\ sys'.barrier = sys.barrier - 1 /\ sys'.ready = sys.ready /\ SameSystem(sys', sys)
    BY <1>1 DEF SyncStart, SameSystem, BootTypeOK, IsSys
  <1>3. \A d \in Lapic : bootAt[d] \notin Through
    BY <1>1, NobodyThrough
  <1>4. StartInv'
    <2>1. sys.barrier = Cardinality(Outside(bootAt))
      BY <1>1, SetUp
    <2>2. Cardinality(Outside(bootAt')) = Cardinality(Outside(bootAt)) - 1
      <3>1. "wait" \in Point /\ bootAt \in [Lapic -> Point]
        BY <1>1 DEF Point, HasTables, HasCount, HasHeap, HasGdt, HasBarrier, BootTypeOK
      <3> QED BY <1>0, <1>1, <3>1, OneFewer DEF Step
    <2>3. \A d \in Lapic : bootAt'[d] \notin Through
      BY <1>1, <1>3
    <2> QED BY <1>2, <2>1, <2>2, <2>3 DEF StartInv
  <1>5. MainInv'
    BY <1>1, <1>2, <1>3, Constants DEF RunningInv, MainInv
  <1>6. OneCore(regs', regs, c)
    BY <1>0, AtStep DEF OneCore, BootTypeOK
  <1>7. CoreInv(c)'
    BY <1>0, <1>1, AtStep DEF CoreInv, TssWord
  <1> QED BY <1>0, <1>2, <1>4, <1>5, <1>6, <1>7, CoreStep

\* A core leaves the barrier; core 0 makes the thread of kernel_main.
LEMMA LeaveBarrierInv ==
    ASSUME BootInv, NEW c \in Lapic, LeaveBarrier(c)
    PROVE  BootInv'
  <1> USE DEF InCoreMain, HasRegisters, Checked, HasPerCore, Written, Loaded, Synced, Through, InLoop
  <1>0. Step(c, "wait", "init_core") /\ UNCHANGED <<info, idt, gdt, regs>> /\ sys.barrier = 0
    BY DEF LeaveBarrier
  <1>1. RunningInv /\ BootTypeOK /\ bootAt[c] = "wait" /\ bootAt'[c] = "init_core" /\ info[c] = c
        /\ \A d \in Lapic : d # c => bootAt'[d] = bootAt[d]
    BY <1>0, AtStep DEF Step, CoreInv
  <1>2. /\ sys'.barrier = 0 /\ sys'.ready = (IF c = 0 THEN sys.ready + 1 ELSE sys.ready)
        /\ SameSystem(sys', sys)
    BY <1>0, <1>1 DEF LeaveBarrier, SameSystem, BootTypeOK, IsSys
  <1>3. StartInv'
    <2>1. sys.barrier = Cardinality(Outside(bootAt))
      BY <1>1, SetUp
    <2>2. Outside(bootAt') = Outside(bootAt)
      <3>1. "init_core" \in Point /\ bootAt \in [Lapic -> Point]
        BY <1>1 DEF Point, HasTables, HasCount, HasHeap, HasGdt, HasBarrier, BootTypeOK
      <3> QED BY <1>0, <1>1, <3>1, SameSide DEF Step
    <2> QED BY <1>0, <1>2, <2>1, <2>2 DEF StartInv
  <1>4. MainInv'
    <2>1. CASE c = 0
      BY <1>1, <1>2, <2>1, Constants DEF RunningInv, MainInv
    <2>2. CASE c # 0
      BY <1>1, <1>2, <2>2, Constants DEF RunningInv, MainInv
    <2> QED BY <2>1, <2>2
  <1>5. OneCore(regs', regs, c)
    BY <1>0, AtStep DEF OneCore, BootTypeOK
  <1>6. CoreInv(c)'
    BY <1>0, <1>1, AtStep DEF CoreInv, TssWord
  <1> QED BY <1>0, <1>2, <1>3, <1>4, <1>5, <1>6, CoreStep

\* One core takes the thread of kernel_main.
LEMMA RunThreadInv ==
    ASSUME BootInv, NEW c \in Lapic, RunThread(c)
    PROVE  BootInv'
  <1> USE DEF InCoreMain, HasRegisters, Checked, HasPerCore, Written, Loaded, Synced, Through, InLoop
  <1>0. Step(c, "event_loop", "kernel_main") /\ UNCHANGED <<info, idt, gdt>> /\ sys.ready > 0
    BY DEF RunThread
  <1>1. RunningInv /\ BootTypeOK /\ bootAt[c] = "event_loop" /\ bootAt'[c] = "kernel_main"
        /\ \A d \in Lapic : d # c => bootAt'[d] = bootAt[d]
    BY <1>0, AtStep DEF Step
  <1>2. /\ sys'.barrier = sys.barrier /\ sys'.ready = 0 /\ sys.ready = 1 /\ SameSystem(sys', sys)
    <2>1. sys.ready = 1
      BY <1>0, <1>1 DEF RunningInv, MainInv
    <2> QED BY <1>1, <2>1 DEF RunThread, SameSystem, BootTypeOK, IsSys
  <1>3. StartInv'
    <2>1. sys.barrier = Cardinality(Outside(bootAt))
      BY <1>1, SetUp
    <2>2. Outside(bootAt') = Outside(bootAt)
      <3>1. "kernel_main" \in Point /\ bootAt \in [Lapic -> Point]
        BY <1>1 DEF Point, HasTables, HasCount, HasHeap, HasGdt, HasBarrier, BootTypeOK
      <3> QED BY <1>0, <1>1, <3>1, SameSide DEF Step
    <2>3. sys.barrier = 0
      BY <1>1 DEF RunningInv, StartInv
    <2> QED BY <1>2, <2>1, <2>2, <2>3 DEF StartInv
  <1>4. MainInv'
    BY <1>1, <1>2, Constants DEF RunningInv, MainInv
  <1>5. regs' = [regs EXCEPT ![c].fs = "thread"]
    BY DEF RunThread
  <1>6. /\ regs'[c].gs = regs[c].gs /\ regs'[c].lstar = regs[c].lstar /\ regs'[c].tr = regs[c].tr
        /\ regs'[c].idtr = regs[c].idtr /\ OneCore(regs', regs, c)
    <2>1. regs = [d \in Lapic |-> regs[d]] /\ IsRegs(regs[c])
      BY <1>0, AtStep
    <2>2. regs'[c] = [regs[c] EXCEPT !.fs = "thread"]
      BY <1>5, <2>1
    <2>3. /\ regs'[c].gs = regs[c].gs /\ regs'[c].lstar = regs[c].lstar /\ regs'[c].tr = regs[c].tr
          /\ regs'[c].idtr = regs[c].idtr /\ IsRegs(regs'[c])
      BY <2>1, <2>2 DEF IsRegs
    <2> QED BY <1>5, <2>1, <2>3 DEF OneCore
  <1>7. CoreInv(c)'
    BY <1>0, <1>1, <1>6, AtStep DEF CoreInv, TssWord
  <1> QED BY <1>0, <1>2, <1>3, <1>4, <1>6, <1>7, CoreStep

-----------------------------------------------------------------------------
(***************************************************************************)
(* The steps of system_main, on the bootstrap processor alone.             *)
(***************************************************************************)
Early == {"system_main", "idt", "pit", "vmm", "count", "heap", "gdt", "barrier"}

\* How the sets of points lie.
LEMMA EarlyPoints ==
    /\ Early \subseteq Point \ HasBarrier /\ "wake" \in HasBarrier \ InCoreMain /\ "wake" \in Point
    /\ Through \subseteq Synced /\ Synced \subseteq InCoreMain /\ "off" \notin HasBarrier /\ "off" \in Point
    /\ InCoreMain \subseteq HasBarrier /\ "kernel_main" \in Through /\ "core_main" \in InCoreMain \ Synced
    /\ HasRegisters \subseteq InCoreMain /\ "core_main" \notin HasRegisters /\ "core_main" \in Point
    /\ HasBarrier \subseteq Point
    /\ Checked \subseteq HasRegisters /\ HasPerCore \subseteq HasRegisters /\ Written \subseteq HasRegisters
    /\ Loaded \subseteq HasRegisters /\ InLoop \subseteq HasRegisters
  BY DEF Early, Point, HasTables, HasCount, HasHeap, HasGdt, HasBarrier, InCoreMain, HasRegisters, Checked,
     HasPerCore, Written, Loaded, Synced, Through, InLoop

\* A step of system_main before the other cores wake, given what it does for the system.
LEMMA EarlyStep ==
    ASSUME BootInv, NEW from \in Early, NEW to \in Early \cup {"wake"}, Step(Bsp, from, to),
           UNCHANGED <<info, regs>>, IsSys(sys'), ~sys'.halted, sys'.ready = sys.ready,
           sys'.woken = sys.woken, to = "wake" => sys'.barrier = NCores, to = "wake" => sys'.cpus \in Listing,
           SystemInv', GdtFits'
    PROVE  BootInv'
  <1>1. RunningInv /\ BootTypeOK /\ bootAt[Bsp] = from /\ bootAt'[Bsp] = to
        /\ \A d \in Lapic : d # Bsp => bootAt'[d] = bootAt[d]
    BY AtStep, Constants
  <1>2. bootAt[Bsp] \notin HasBarrier /\ to \notin InCoreMain /\ to \in Point
    BY <1>1, EarlyPoints
  <1>3. sys.woken = 0 /\ \A d \in Lapic \ {Bsp} : bootAt[d] = "off"
    BY <1>1, <1>2 DEF RunningInv, WakeInv
  <1>4. \A d \in Lapic : d # Bsp => bootAt'[d] = "off"
    BY <1>1, <1>3
  <1>5. \A d \in Lapic : bootAt[d] \notin InCoreMain /\ bootAt'[d] \notin InCoreMain
    BY <1>1, <1>2, <1>3, <1>4, EarlyPoints
  <1>6. bootAt' \in [Lapic -> Point]
    BY <1>1, <1>2 DEF Step, BootTypeOK
  <1>7. WakeInv'
    <2>1. CASE to = "wake"
      <3>1. \A i \in Lapic : sys'.cpus[i] \in Lapic
        BY <2>1, ListedOnce
      <3> QED BY <1>1, <1>4, <2>1, <3>1, EarlyPoints DEF WakeInv
    <2>2. CASE to # "wake"
      <3>1. bootAt'[Bsp] \notin HasBarrier
        BY <1>1, <2>2, EarlyPoints
      <3> QED BY <1>3, <1>4, <3>1 DEF WakeInv
    <2> QED BY <2>1, <2>2
  <1>8. StartInv'
    <2>1. \A d \in Lapic : bootAt'[d] \notin Through /\ bootAt'[d] \notin Synced
      BY <1>5, EarlyPoints
    <2>2. Cardinality(Outside(bootAt')) = NCores
      BY <2>1, AllOutside
    <2>3. bootAt'[Bsp] \in HasBarrier => sys'.barrier = NCores
      BY <1>1, EarlyPoints
    <2> QED BY <2>1, <2>2, <2>3 DEF StartInv
  <1>9. MainInv'
    <2>1. \A d \in Lapic : bootAt[d] \notin Through /\ bootAt'[d] # "kernel_main"
      BY <1>5, EarlyPoints
    <2>2. sys.ready = 0
      BY <1>1, <2>1, Constants DEF RunningInv, MainInv
    <2> QED BY <2>1, <2>2 DEF MainInv
  <1>10. \A d \in Lapic : CoreInv(d)'
    BY <1>5, EarlyPoints DEF CoreInv
  <1>11. BootTypeOK'
    BY <1>1, <1>6 DEF BootTypeOK, IsRegs, IsSys
  <1> QED BY <1>7, <1>8, <1>9, <1>10, <1>11 DEF BootInv, RunningInv

\* What is known of the system at a step of system_main, and what it keeps.
LEMMA AtEarly ==
    ASSUME BootInv, NEW from, NEW to, Step(Bsp, from, to)
    PROVE  /\ BootTypeOK /\ SystemInv /\ GdtFits /\ IsSys(sys) /\ ~sys.halted
           /\ bootAt[Bsp] = from /\ bootAt'[Bsp] = to
  BY Constants, AtStep DEF BootInv, BootTypeOK, RunningInv

\* system_main asserts the features of the bootstrap processor.
LEMMA SystemFeaturesInv ==
    ASSUME BootInv, Features(Bsp, "system_main", "idt")
    PROVE  BootInv'
  <1> USE DEF Early, HasTables, HasCount, HasHeap, HasGdt, HasBarrier, InCoreMain, HasRegisters, Checked,
              HasPerCore, Written, Loaded, Synced, Through, InLoop
  <1>0. Step(Bsp, "system_main", "idt") /\ UNCHANGED <<info, idt, gdt, regs>>
    BY DEF Features
  <1>1. CASE UNCHANGED sys
    <2>1. SystemInv' /\ GdtFits' /\ IsSys(sys') /\ ~sys'.halted
      BY <1>0, <1>1, AtEarly DEF SystemInv, GdtFits
    <2> QED BY <1>0, <1>1, <2>1, EarlyStep
  <1>2. CASE Halt
    BY <1>0, <1>2, HaltInv, Constants DEF Point
  <1> QED BY <1>1, <1>2 DEF Features

\* The spurious interrupt gets its handler.
LEMMA IdtInitSystemInv ==
    ASSUME BootInv, IdtInitSystem
    PROVE  BootInv'
  <1> USE DEF Early, HasTables, HasCount, HasHeap, HasGdt, HasBarrier, InCoreMain, HasRegisters, Checked,
              HasPerCore, Written, Loaded, Synced, Through, InLoop
  <1>0. Step(Bsp, "idt", "pit") /\ UNCHANGED <<info, sys, gdt, regs>>
    BY DEF IdtInitSystem
  <1>1. SystemInv' /\ GdtFits' /\ IsSys(sys') /\ ~sys'.halted
    BY <1>0, AtEarly DEF SystemInv, GdtFits
  <1> QED BY <1>0, <1>1, EarlyStep

\* The timer is calibrated.
LEMMA PitInitSystemInv ==
    ASSUME BootInv, NEW hz, PitInitSystem(hz)
    PROVE  BootInv'
  <1> USE DEF Early, HasTables, HasCount, HasHeap, HasGdt, HasBarrier, InCoreMain, HasRegisters, Checked,
              HasPerCore, Written, Loaded, Synced, Through, InLoop
  <1>0. Step(Bsp, "pit", "vmm") /\ UNCHANGED <<info, gdt, regs>>
    BY DEF PitInitSystem
  <1>1. PICK x : sys' = [sys EXCEPT !.apitCounter = x]
    BY DEF PitInitSystem
  <1>2. /\ IsSys(sys') /\ ~sys'.halted /\ sys'.ready = sys.ready /\ sys'.woken = sys.woken
        /\ sys'.base_tss_index = sys.base_tss_index /\ sys'.core_count = sys.core_count
    BY <1>0, <1>1, AtEarly DEF IsSys
  <1>3. SystemInv' /\ GdtFits'
    BY <1>0, <1>2, AtEarly DEF SystemInv, GdtFits
  <1> QED BY <1>0, <1>2, <1>3, EarlyStep

\* Page faults get their handler.
LEMMA VmmInitSystemInv ==
    ASSUME BootInv, VmmInitSystem
    PROVE  BootInv'
  <1> USE DEF Early, HasTables, HasCount, HasHeap, HasGdt, HasBarrier, InCoreMain, HasRegisters, Checked,
              HasPerCore, Written, Loaded, Synced, Through, InLoop
  <1>0. Step(Bsp, "vmm", "count") /\ UNCHANGED <<info, gdt, regs>>
    BY DEF VmmInitSystem
  <1>1. /\ IsSys(sys') /\ ~sys'.halted /\ sys'.ready = sys.ready /\ sys'.woken = sys.woken /\ sys'.cr3
        /\ sys'.base_tss_index = sys.base_tss_index /\ sys'.core_count = sys.core_count
    BY <1>0, AtEarly DEF IsSys, VmmInitSystem
  <1>2. 14 \in DOMAIN idt'
    BY DEF VmmInitSystem, Vector
  <1>3. SystemInv' /\ GdtFits'
    BY <1>0, <1>1, <1>2, AtEarly DEF SystemInv, GdtFits
  <1> QED BY <1>0, <1>1, <1>3, EarlyStep

\* Limine's answer is taken, or the machine is refused.
LEMMA CountCoresInv ==
    ASSUME BootInv, CountCores
    PROVE  BootInv'
  <1> USE DEF Early, HasTables, HasCount, HasHeap, HasGdt, HasBarrier, InCoreMain, HasRegisters, Checked,
              HasPerCore, Written, Loaded, Synced, Through, InLoop
  <1>0. Step(Bsp, "count", "heap") /\ UNCHANGED <<info, idt, gdt, regs>>
    BY DEF CountCores
  <1>1. ASSUME NEW l \in Listing, sys' = [sys EXCEPT !.core_count = NCores, !.cpus = l]
        PROVE  BootInv'
    <2>1. /\ IsSys(sys') /\ ~sys'.halted /\ sys'.ready = sys.ready /\ sys'.woken = sys.woken
          /\ sys'.core_count = NCores /\ sys'.cpus = l /\ sys'.cr3 = sys.cr3
      BY <1>0, <1>1, AtEarly, Constants DEF IsSys
    <2>2. SystemInv' /\ GdtFits'
      BY <1>0, <2>1, AtEarly DEF SystemInv, GdtFits
    <2> QED BY <1>0, <2>1, <2>2, EarlyStep
  <1>2. CASE Halt
    BY <1>0, <1>2, HaltInv, Constants DEF Point
  <1> QED BY <1>1, <1>2 DEF CountCores

\* The heap is there.
LEMMA HeapAndConstructorsInv ==
    ASSUME BootInv, HeapAndConstructors
    PROVE  BootInv'
  <1> USE DEF Early, HasTables, HasCount, HasHeap, HasGdt, HasBarrier, InCoreMain, HasRegisters, Checked,
              HasPerCore, Written, Loaded, Synced, Through, InLoop
  <1>0. Step(Bsp, "heap", "gdt") /\ UNCHANGED <<info, idt, gdt, regs>>
    BY DEF HeapAndConstructors
  <1>1. /\ IsSys(sys') /\ ~sys'.halted /\ sys'.ready = sys.ready /\ sys'.woken = sys.woken
        /\ sys'.core_count = sys.core_count /\ sys'.cpus = sys.cpus /\ sys'.cr3 = sys.cr3 /\ sys'.heap
        /\ sys'.base_tss_index = sys.base_tss_index
    BY <1>0, AtEarly DEF IsSys, HeapAndConstructors
  <1>2. SystemInv' /\ GdtFits'
    BY <1>0, <1>1, AtEarly DEF SystemInv, GdtFits
  <1> QED BY <1>0, <1>1, <1>2, EarlyStep

\* The new table has Limine's descriptors and two words for each core.
LEMMA NewGdtInv ==
    ASSUME BootInv, NewGdt
    PROVE  BootInv'
  <1> USE DEF Early, HasTables, HasCount, HasHeap, HasGdt, HasBarrier, InCoreMain, HasRegisters, Checked,
              HasPerCore, Written, Loaded, Synced, Through, InLoop
  <1>0. Step(Bsp, "gdt", "barrier") /\ UNCHANGED <<info, idt, regs>>
    BY DEF NewGdt
  <1>1. /\ IsSys(sys') /\ ~sys'.halted /\ sys'.ready = sys.ready /\ sys'.woken = sys.woken
        /\ sys'.core_count = sys.core_count /\ sys'.cpus = sys.cpus /\ sys'.cr3 = sys.cr3
        /\ sys'.heap = sys.heap /\ sys'.base_tss_index = Base
    <2>1. sys' = [sys EXCEPT !.base_tss_index = Base]
      BY DEF NewGdt, Base
    <2> QED BY <1>0, <2>1, AtEarly, Constants DEF IsSys
  <1>2. sys.core_count = NCores /\ sys.cpus \in Listing /\ sys.cr3 /\ sys.heap /\ 14 \in DOMAIN idt
    BY <1>0, AtEarly DEF SystemInv
  <1> DEFINE old == [i \in DOMAIN LimineGdt |->
                 IF i \in {1, 3} THEN LimineGdt[5] ELSE IF i \in {2, 4} THEN LimineGdt[6] ELSE LimineGdt[i]]
             new(D) == [i \in D |-> IF i \in 1..(Base - 1) THEN [segment |-> old[i], dpl |-> 3]
                                    ELSE [segment |-> "unset", dpl |-> 0]]
  <1>3. gdt' = new(GdtDomain) /\ DOMAIN gdt' = GdtDomain
    <2>1. gdt' = new(0..(GdtEntries(Base) - 1))
      BY Zenon DEF NewGdt, Base
    <2>2. GdtEntries(Base) = Base + 2 * NCores
      BY <1>2 DEF GdtEntries
    <2>3. 0..(GdtEntries(Base) - 1) = GdtDomain
      BY <2>2, Constants DEF GdtDomain
    <2>4. gdt' = new(GdtDomain)
      <3> HIDE DEF new
      <3> QED BY <2>1, <2>3
    <2> QED BY <2>4
  <1>4. gdt'[4].segment = LimineGdt[6] /\ gdt'[5].segment = LimineGdt[5]
    <2>2. 4 \in DOMAIN LimineGdt /\ 5 \in DOMAIN LimineGdt
      BY Constants
    <2>3. old[4] = LimineGdt[6] /\ old[5] = LimineGdt[5]
      BY <2>2
    <2>4. 4 \in GdtDomain /\ 5 \in GdtDomain /\ 4 \in 1..(Base - 1) /\ 5 \in 1..(Base - 1)
      BY Constants DEF GdtDomain
    <2> HIDE DEF old
    <2>5. gdt'[4] = [segment |-> old[4], dpl |-> 3] /\ gdt'[5] = [segment |-> old[5], dpl |-> 3]
      BY <1>3, <2>4
    <2> QED BY <2>3, <2>5
  <1>5. SystemInv'
    BY <1>0, <1>1, <1>2, <1>3, <1>4, AtEarly DEF SystemInv
  <1>6. GdtFits'
    BY <1>1, <1>2, <1>3 DEF GdtFits, GdtDomain
  <1> QED BY <1>0, <1>1, <1>5, <1>6, EarlyStep

\* The barrier is made for all cores while only one runs.
LEMMA NewBarrierInv ==
    ASSUME BootInv, NewBarrier
    PROVE  BootInv'
  <1> USE DEF Early, HasTables, HasCount, HasHeap, HasGdt, HasBarrier, InCoreMain, HasRegisters, Checked,
              HasPerCore, Written, Loaded, Synced, Through, InLoop
  <1>0. Step(Bsp, "barrier", "wake") /\ UNCHANGED <<info, idt, gdt, regs>>
    BY DEF NewBarrier
  <1>1. sys.core_count = NCores /\ sys.cpus \in Listing /\ sys.cr3 /\ sys.heap
    BY <1>0, AtEarly DEF SystemInv
  <1>2. /\ IsSys(sys') /\ ~sys'.halted /\ sys'.ready = sys.ready /\ sys'.woken = sys.woken
        /\ sys'.core_count = sys.core_count /\ sys'.cpus = sys.cpus /\ sys'.cr3 = sys.cr3
        /\ sys'.heap = sys.heap /\ sys'.base_tss_index = sys.base_tss_index /\ sys'.barrier = NCores
    <2>1. sys' = [sys EXCEPT !.barrier = NCores]
      BY <1>1 DEF NewBarrier
    <2> QED BY <1>0, <2>1, AtEarly, Constants, SMTT(30) DEF IsSys
  <1>3. SystemInv' /\ GdtFits'
    BY <1>0, <1>1, <1>2, AtEarly DEF SystemInv, GdtFits
  <1> QED BY <1>0, <1>1, <1>2, <1>3, EarlyStep

\* A core starts, or the bootstrap processor joins it, in core_main: it has nothing yet.
LEMMA StartsInv ==
    ASSUME BootInv, ~sys.halted, bootAt[Bsp] = "wake", UNCHANGED <<idt, gdt, regs>>,
           NEW c \in Lapic, bootAt[c] = "off" \/ c = Bsp,
           bootAt' = [bootAt EXCEPT ![c] = "core_main"],
           info' \in [Lapic -> Int], \A d \in Lapic : d # c => info'[d] = info[d],
           IsSys(sys'), sys'.barrier = sys.barrier, sys'.ready = sys.ready, sys'.heap = sys.heap,
           sys'.cr3 = sys.cr3, sys'.core_count = sys.core_count, sys'.cpus = sys.cpus,
           sys'.base_tss_index = sys.base_tss_index, ~sys'.halted,
           \A i \in Lapic : i >= sys'.woken => i >= sys.woken /\ sys.cpus[i] # c
    PROVE  BootInv'
  <1>1. BootTypeOK /\ RunningInv /\ GdtFits
    BY DEF BootInv
  <1>2. /\ bootAt' \in [Lapic -> Point] /\ bootAt'[c] = "core_main"
        /\ \A d \in Lapic : d # c => bootAt'[d] = bootAt[d]
    BY <1>1, EarlyPoints DEF BootTypeOK
  <1>3. bootAt[c] \notin Synced /\ bootAt'[Bsp] \in HasBarrier /\ bootAt[Bsp] \in HasBarrier
        /\ bootAt[Bsp] \notin Synced
    BY <1>2, EarlyPoints, Constants
  <1>4. \A d \in Lapic : bootAt[d] \notin Through /\ bootAt'[d] \notin Through
    BY <1>1, <1>2, <1>3, NobodyThrough, Constants, EarlyPoints
  <1>5. SystemInv'
    <2>1. HasBarrier \subseteq HasGdt /\ HasGdt \subseteq HasHeap /\ HasHeap \subseteq HasCount
          /\ HasCount \subseteq HasTables
      BY DEF HasTables, HasCount, HasHeap, HasGdt
    <2>2. bootAt'[Bsp] # "off"
      BY <1>3, EarlyPoints
    <2> QED BY <1>1, <1>3, <2>1, <2>2 DEF RunningInv, SystemInv
  <1>6. WakeInv'
    <2>1. \A d \in Lapic \ {Bsp} : bootAt'[d] = "off" \/ bootAt'[d] \in InCoreMain
      BY <1>1, <1>2, EarlyPoints DEF RunningInv, WakeInv
    <2>2. ASSUME NEW i \in Lapic, i >= sys'.woken, sys.cpus[i] # Bsp
          PROVE  bootAt'[sys.cpus[i]] = "off"
      <3>1. i >= sys.woken /\ sys.cpus[i] # c
        BY <2>2
      <3>2. bootAt[sys.cpus[i]] = "off"
        BY <1>1, <1>3, <2>2, <3>1 DEF RunningInv, WakeInv
      <3>3. sys.cpus \in Listing
        BY <1>1, <1>3 DEF RunningInv, SystemInv, HasTables, HasCount, HasHeap, HasGdt
      <3>4. sys.cpus[i] \in Lapic
        BY <3>3, ListedOnce
      <3> QED BY <1>2, <3>1, <3>2, <3>4
    <2> QED BY <1>3, <2>1, <2>2 DEF WakeInv
  <1>7. StartInv'
    <2>1. Outside(bootAt') = Outside(bootAt)
      <3>1. "core_main" \in Point /\ "core_main" \notin Synced /\ bootAt \in [Lapic -> Point]
        BY <1>1, EarlyPoints DEF BootTypeOK
      <3> QED BY <1>3, <3>1, SameSide
    <2> QED BY <1>1, <1>3, <1>4, <2>1 DEF RunningInv, StartInv
  <1>8. MainInv'
    BY <1>1, <1>4, EarlyPoints, Constants DEF RunningInv, MainInv
  <1>9. ASSUME NEW d \in Lapic PROVE CoreInv(d)'
    <2>1. CASE d = c
      BY <1>2, <2>1, EarlyPoints DEF CoreInv
    <2>2. CASE d # c
      BY <1>1, <1>2, <2>2 DEF RunningInv, CoreInv, TssWord
    <2> QED BY <2>1, <2>2
  <1>10. BootTypeOK'
    BY <1>1, <1>2 DEF BootTypeOK, IsRegs, IsSys
  <1>11. GdtFits'
    BY <1>1 DEF GdtFits
  <1> QED BY <1>5, <1>6, <1>7, <1>8, <1>9, <1>10, <1>11 DEF BootInv, RunningInv

\* A core that is woken was off: Limine lists it once.
LEMMA WakeCoreInv ==
    ASSUME BootInv, WakeCore
    PROVE  BootInv'
  <1> DEFINE c == sys.cpus[sys.woken]
  <1>0. ~sys.halted /\ bootAt[Bsp] = "wake" /\ sys.woken < sys.core_count /\ UNCHANGED <<idt, gdt, regs>>
    BY DEF WakeCore
  <1>1. BootTypeOK /\ RunningInv /\ GdtFits /\ IsSys(sys)
    BY <1>0 DEF BootInv, BootTypeOK
  <1>2. sys.core_count = NCores /\ sys.cpus \in Listing
    BY <1>0, <1>1 DEF RunningInv, SystemInv, HasTables, HasCount, HasHeap, HasGdt, HasBarrier
  <1>3. sys.woken \in Lapic /\ sys.woken \in Nat
    BY <1>0, <1>1, <1>2, Constants DEF IsSys
  <1>4. c \in Lapic /\ \A i \in Lapic : sys.cpus[i] = c => i = sys.woken
    BY <1>2, <1>3, ListedOnce
  <1>5. sys' = [sys EXCEPT !.woken = sys.woken + 1]
    BY DEF WakeCore
  <1>6. /\ IsSys(sys') /\ sys'.woken = sys.woken + 1 /\ sys'.barrier = sys.barrier /\ sys'.ready = sys.ready
        /\ sys'.heap = sys.heap /\ sys'.cr3 = sys.cr3 /\ sys'.core_count = sys.core_count
        /\ sys'.cpus = sys.cpus /\ sys'.base_tss_index = sys.base_tss_index /\ ~sys'.halted
    BY <1>0, <1>1, <1>3, <1>5 DEF IsSys
  <1>7. \A i \in Lapic : i >= sys'.woken => i >= sys.woken /\ i # sys.woken
    BY <1>3, <1>6, Constants
  <1>8. CASE c # Bsp
    <2>1. bootAt' = [bootAt EXCEPT ![c] = "core_main"] /\ info' = [info EXCEPT ![c] = c]
      BY <1>8 DEF WakeCore
    <2>2. bootAt[c] = "off"
      BY <1>0, <1>1, <1>3, <1>8, EarlyPoints DEF RunningInv, WakeInv
    <2>3. \A i \in Lapic : i >= sys'.woken => i >= sys.woken /\ sys.cpus[i] # c
      BY <1>4, <1>7
    <2>4. c \in Int
      BY <1>4, Constants
    <2> HIDE DEF c
    <2>5. info' \in [Lapic -> Int] /\ \A d \in Lapic : d # c => info'[d] = info[d]
      BY <1>1, <1>4, <2>1, <2>4 DEF BootTypeOK
    <2> QED BY <1>0, <1>4, <1>6, <2>1, <2>2, <2>3, <2>5, StartsInv
  <1>9. CASE c = Bsp
    <2>1. UNCHANGED <<bootAt, info>>
      BY <1>9 DEF WakeCore
    <2>2. WakeInv'
      <3>1. \A i \in Lapic : i >= sys'.woken => i >= sys.woken
        BY <1>7
      <3> QED BY <1>0, <1>1, <1>6, <2>1, <3>1, EarlyPoints DEF RunningInv, WakeInv
    <2>3. SystemInv' /\ StartInv' /\ MainInv' /\ GdtFits'
      BY <1>0, <1>1, <1>6, <2>1 DEF RunningInv, SystemInv, StartInv, MainInv, GdtFits
    <2>4. \A d \in Lapic : CoreInv(d)'
      BY <1>0, <1>1, <2>1 DEF RunningInv, CoreInv, TssWord
    <2>5. BootTypeOK'
      BY <1>0, <1>1, <1>6, <2>1 DEF BootTypeOK, IsRegs, IsSys
    <2> QED BY <1>6, <2>2, <2>3, <2>4, <2>5 DEF BootInv, RunningInv
  <1> QED BY <1>8, <1>9

\* The bootstrap processor joins the others.
LEMMA EnterCoreMainInv ==
    ASSUME BootInv, EnterCoreMain
    PROVE  BootInv'
  <1>0. /\ ~sys.halted /\ bootAt[Bsp] = "wake" /\ sys.woken = sys.core_count
        /\ UNCHANGED <<sys, idt, gdt, regs>> /\ bootAt' = [bootAt EXCEPT ![Bsp] = "core_main"]
        /\ info' = [info EXCEPT ![Bsp] = sys.cpus[Bsp]]
    BY DEF EnterCoreMain, Step
  <1>1. BootTypeOK /\ RunningInv /\ IsSys(sys)
    BY <1>0 DEF BootInv, BootTypeOK
  <1>2. sys.core_count = NCores /\ sys.cpus \in Listing
    BY <1>0, <1>1 DEF RunningInv, SystemInv, HasTables, HasCount, HasHeap, HasGdt, HasBarrier
  <1>3. sys.cpus[Bsp] \in Int
    BY <1>2, ListedOnce, Constants
  <1>4. info' \in [Lapic -> Int] /\ \A d \in Lapic : d # Bsp => info'[d] = info[d]
    BY <1>0, <1>1, <1>3, Constants DEF BootTypeOK
  <1>5. \A i \in Lapic : i >= sys'.woken => i >= sys.woken /\ sys.cpus[i] # Bsp
    BY <1>0, <1>2, Constants
  <1> QED BY <1>0, <1>1, <1>4, <1>5, StartsInv, Constants

-----------------------------------------------------------------------------
\* Every step of system_main and core_main preserves the invariant.
LEMMA BootNextInv == BootInv /\ [BootNext]_bootVars => BootInv'
  <1> SUFFICES ASSUME BootInv, [BootNext]_bootVars PROVE BootInv'
    OBVIOUS
  <1>1. CASE BootNext
    <2>1. ASSUME NEW c \in Lapic,
                 \/ Features(c, "core_main", "registers")
                 \/ SetRegisters(c) \/ Bootstrap(c) \/ NewPerCore(c) \/ WriteTss(c) \/ LoadTss(c)
                 \/ SyncStart(c) \/ LeaveBarrier(c) \/ InitCore(c) \/ RunThread(c)
          PROVE  BootInv'
      BY <2>1, FeaturesInv, SetRegistersInv, BootstrapInv, NewPerCoreInv, WriteTssInv, LoadTssInv,
         SyncStartInv, LeaveBarrierInv, InitCoreInv, RunThreadInv, Zenon
    <2>2. CASE \/ Features(Bsp, "system_main", "idt")
               \/ IdtInitSystem \/ PitInitSystem(1000) \/ VmmInitSystem \/ CountCores
               \/ HeapAndConstructors \/ NewGdt \/ NewBarrier \/ WakeCore \/ EnterCoreMain
      BY <2>2, SystemFeaturesInv, IdtInitSystemInv, PitInitSystemInv, VmmInitSystemInv, CountCoresInv,
         HeapAndConstructorsInv, NewGdtInv, NewBarrierInv, WakeCoreInv, EnterCoreMainInv, ZenonT(40)
    <2> QED BY <1>1, <2>1, <2>2 DEF BootNext
  <1>2. CASE UNCHANGED bootVars
    <2>1. /\ bootAt' = bootAt /\ info' = info /\ sys' = sys /\ idt' = idt /\ gdt' = gdt /\ regs' = regs
      BY <1>2 DEF bootVars
    <2>2. BootTypeOK' /\ GdtFits'
      BY <2>1 DEF BootInv, BootTypeOK, IsRegs, IsSys, GdtFits
    <2>3. RunningInv => RunningInv'
      BY <2>1 DEF RunningInv, SystemInv, WakeInv, StartInv, MainInv, CoreInv, TssWord
    <2> QED BY <2>1, <2>2, <2>3 DEF BootInv
  <1> QED BY <1>1, <1>2

\* The inductive invariant: what every core, and the bootstrap processor for all of them,
\* has set up at each point of system_main and core_main.
THEOREM BootInvariant == BootSpec => []BootInv
  BY BootInitInv, BootNextInv, PTL DEF BootSpec

\* No core writes beyond the GDT, and whoever runs kernel_main finds every core with its
\* own TSS and PerCore, whatever order Limine lists the cores in and however they race
\* through core_main.
THEOREM BootCoreReady == BootSpec => []CoreReady
  <1>1. BootInv => CoreReady
    <2> SUFFICES ASSUME BootInv PROVE CoreReady
      OBVIOUS
    <2>1. gdt # NoTable => DOMAIN gdt = 0..(GdtEntries(sys.base_tss_index) - 1)
      BY DEF BootInv, BootTypeOK, IsSys, GdtFits, GdtEntries
    <2>2. ASSUME NEW c \in Lapic, bootAt[c] = "kernel_main"
          PROVE  /\ regs[c].idtr /\ 14 \in DOMAIN idt /\ sys.cr3 /\ sys.heap
                 /\ gdt[4].segment = LimineGdt[6] /\ gdt[5].segment = LimineGdt[5]
                 /\ \A d \in Lapic :
                      /\ d # c => bootAt[d] # "kernel_main"
                      /\ regs[d].lstar /\ regs[d].gs = d
                      /\ regs[d].tr = <<TssWord(d, "low"), TssWord(d, "high")>>
      <3>1. RunningInv /\ bootAt[c] \in Through /\ bootAt[c] \in InLoop /\ bootAt[c] \in InCoreMain
        BY <2>2, EarlyPoints DEF BootInv, InLoop
      <3>2. \A d \in Lapic : bootAt[d] \in Synced
        BY <3>1, NobodyThrough
      <3>3. \A d \in Lapic : bootAt[d] \in HasRegisters /\ bootAt[d] \in HasPerCore /\ bootAt[d] \in Loaded
        BY <3>2 DEF HasRegisters, Checked, HasPerCore, Written, Loaded
      <3>4. ASSUME NEW d \in Lapic
            PROVE  /\ d # c => bootAt[d] # "kernel_main"
                   /\ regs[d].lstar /\ regs[d].gs = d
                   /\ regs[d].tr = <<TssWord(d, "low"), TssWord(d, "high")>>
        BY <2>2, <3>1, <3>3 DEF RunningInv, MainInv, CoreInv
      <3>5. regs[c].idtr
        BY <3>1 DEF RunningInv, CoreInv
      <3> QED BY <3>1, <3>4, <3>5, SetUp
    <2> QED BY <2>1, <2>2 DEF CoreReady
  <1> QED BY <1>1, BootInvariant, PTL
=============================================================================
