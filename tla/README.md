# TLA+ models of the p7 kernel

p7 is a small multi-core x86-64 kernel (`src/kernel`): cooperative kernel threads
on several cores, blocking primitives on condition variables, user processes with
`fork`, `exit`, `waitpid`, files, memory mappings and semaphores, demand paging,
and an ext2 file system on a RAM disk. This directory holds TLA+ models of the
parts in which cores interact, of the boot loader's installer (`src/limine`) and of
the `printf` of the user programs, the TLC configurations that check them on small
instances, and TLAPS proofs of the central invariants for every instance.

`PROJECT.json` lists the components, the runs, the seeded faults that show that
every property can fail, the source lines of every definition, the findings, the
hazards and the theorems.

## 1. Inventory

| component | state it keeps | operations | correctness |
|---|---|---|---|
| threads (`thread.cc`, `thread.h`, `context_switch_` of `machine.S`) | TCBs, `current`, `readyQueue`, `reaperQueue`, `n_active`, `tss.rsp0`, `disable_preemption_count` | `make_thread`, `entry`, `yield`, `stop`, `event_loop`, `reap`, `post_switch` | a TCB is in exactly one place; nobody runs on a stack another core still uses; assertions hold; power-off only when nobody is left; a ready thread runs |
| condition variables (`condition.h`) | queue of TCBs, `epoch` | `wait`, `notify_one`, `notify_all` | no lost wake-up although the lock is released before the thread is queued |
| blocking lock, semaphore, barrier, latch, future | flag or count, a condition | `lock`/`unlock`, `down`/`up`, `sync`, `up`/`down`/`sync`, `get`/`set` | exclusion, enough awake contenders, nobody passes early, everybody returns |
| spin lock, atomics (`spin_lock.*`, `atomic.h`) | test-and-set word, saved interrupt flag, statistics | `lock`, `tryLock`, `unlock`, `AtomicMax::update` | exclusion with interrupts off, flag restored, maximum correct |
| queue (`queue.h`) | `first`, `last`, counter; the items' `next` | `add`, `remove`, `remove_all` | behaves as an atomic FIFO sequence although TCBs share one `next` |
| processes (`syscall.cc`, `kernel_main.cc`) | `processTable`, `nextPid`, `TCB::pid` | `fork`, `exit`, `waitpid`, `sched_yield`, registration of pid 1 | a pid names one process; only the parent collects while it lives; a wait returns when the child exits |
| system call entry (`machine.S`) | `gs:28` of each core, the user's frame | `syscallHandler_`, `fork_child_entry` | the call returns on the caller's stack |
| user semaphores (`syscall.cc`) | 64 slots (`maxSemaphores`) with key, value | `semget`, `semop`, `semctl` | value never negative, a key has one semaphore, units are neither made nor lost |
| files (`syscall.cc`) | per TCB table of descriptors, offsets | `open`, `close`, `read`, `write`, `lseek` | descriptors distinct, offsets in range; `fdTable` is `thread_local`, so a forked child starts with its own |
| virtual memory (`vmm.cc`) | page tables and break of each process, private and shared VMEs | `map_range`, `brk`, snapshot for `fork`, `fini_thread`; `mmap`, `munmap`, the page fault handler, `is_user_range_mapped` | separate address spaces, frames freed once, none lost; a page shows what it was mapped to, a buffer that passes the check is there |
| physical memory (`physmem.cc`) | list of freed frames, ranges never used | `alloc`, `free` | a frame has one owner |
| heap (`heap.cc`) | boundary tags and free list | `malloc`, `free` | blocks disjoint, neighbours merged |
| reference counts (`shared.h`) | counts | `StrongRef`, `WeakRef`, `UniqueRef` | freed once, never used after |
| block I/O, ext2 (`block_io.cc`, `ext2.*`, `ramdisk.cc`) | none that changes after the mount | `read`, `get_node`, `entries`, `find`, `get_symbol` | the bytes asked for, the node a path names |
| ELF loading (`elf.cc`) | none | `load` | the segments are mapped |
| start-up (`system_main.cc`, `core_main.cc`, `idt.cc`, `pit.cc`) | IDT, GDT with a TSS for each core, registers of each core, barrier | `system_main`, `core_main` | a core that runs threads has its own TSS, stack and tables |
| console (`print.h`, `debug.cc`) | `say_lock`, `putch_spin` | `KPRINT`, `KPANIC`, `write` | texts of two threads do not mix, numbers read as their values |
| boot loader installer (`limine/limine.c`) | one cached block, the log of overwritten bytes | `bios-install`, `--uninstall` | what is not the boot loader's survives, a failed install is undone |
| `printf` of user programs (`001.dir/printf.c` and five copies) | the state of the scanner | `dopr`, `vprintf`, `printf` | directives do not influence one another, numbers read back |
| PCI, test programs, scripts | | | |

**How they interact.** A thread is a TCB that moves between `current` of a core,
the ready queue, a condition's queue and the reaper queue; every move is a
`Queue` operation under a `SpinLock`. A core leaves a thread only through
`context_switch_`, and what becomes of the thread it left (`TCB::action`) is done
by the next context in `post_switch`. The blocking primitives are a `SpinLock`, a
field and a `Condition`. A process is a thread with a pid; `waitpid` and `semop`
poll and yield instead of blocking. The heap and `KPRINT` use a `BlockingLock`,
so `reap`, `TCB::alloc` and `new` may block too.

**Preemption.** `Pit::init_core` returns before it starts the timer
(`pit.cc:132`), so no timer interrupt occurs and threads are switched only in
`yield`, `stop` and `Condition::wait`. The `disable_preemption_count` is
maintained all the same, and modelled.

**What is hard.** Cores interleave at every critical section; deferred work
after a switch; the window in `wait` between the unlock and the queueing; pids,
slots and TCBs that are recycled at different times; per-core storage used across
a switch; polling loops that must come to an end; nested locks of different
kinds; overflow of counters; transfers that fail half-way. Section "hazards" of `PROJECT.json` lists each at
its line with the properties that cover it.

## 2. Modules

| module | models | built on |
|---|---|---|
| `Threads` | threads, condition variables, `reap`, power-off | |
| `Workers` | the frame for a primitive: boot, creation and end of threads | `Threads` |
| `BlockingLock`, `Semaphore`, `Barrier`, `CountDownLatch`, `Future` | the primitives, one action per critical section | `Workers` |
| `Primitives` | all five, one of them in each behaviour | the five |
| `Processes` | process table, system calls, user stack pointer | `Threads` |
| `ProcessLock` | `processLock` held by a `fork` that prints | `Processes` |
| `SpinLock` | the lock at the granularity of memory accesses | |
| `FifoQueue` | abstract specification: named atomic sequences | |
| `LinkedQueue` | `Queue` at the granularity of loads and stores; implements `FifoQueue` | |
| `PhysMem` | the frame allocator | |
| `AddressSpaces` | abstract specification: the pages of each process | |
| `Vmm` | page tables, `brk`, `fork`, `exit`; implements `AddressSpaces` | `PhysMem` |
| `Allocator` | abstract specification: disjoint blocks | |
| `Heap` | `malloc` and `free` on the words of the arena; implements `Allocator` | |
| `RefCount` | `StrongRef`, `WeakRef`, their `Middle`, `UniqueRef` | |
| `SysSem` | `semget`, `semop`, `semctl` | |
| `Files` | descriptors and the way of a read to the disk | |
| `Mappings` | `mmap`, `munmap`, page faults, range checks | |
| `Ext2` | mount, nodes, directories, links | |
| `Boot` | start-up of all cores | |
| `Console` | `KPRINT`, `KPANIC`, `write` | |
| `BlockDevice` | limine's device access: cache, log, undo | |
| `Installer` | `bios-install` and `--uninstall` | `BlockDevice` |
| `Printf` | `dopr` and its conversions | |
| `Parts` | one of `Heap`, `LinkedQueue` and these in each behaviour | all of them |
| `ThreadsProofs`, `VmmProofs`, `BootProofs`, `LinkedQueueProofs` | theorems | the module of that name |
| `SharingProofs` | theorems | `RefCount`, `SysSem`, `SpinLock` |
| `MemoryProofs` | theorems | `Mappings`, `Heap`, `Files` |
| `PrimitivesProofs`, `ProcessesProofs` | theorems | `ThreadsProofs` and the module of that name |
| `MC...` | instances for TLC; `MCExt2` and `MCInstaller` also the images and devices | |

The composition is by layers. `SpinLock` shows that a critical section is
exclusive; `LinkedQueue` shows that a queue under such a lock is an atomic
sequence; `Threads` therefore treats a queue as a sequence and a queue operation
as one step; the primitives and the processes take the actions of `Threads` as
they are and add the fields of their own.

### Threads

A context is an idle thread, named like its core, or a TCB of the heap.
`current` is the fs base, `prev[c]` the `previousTCB` whose `post_switch` core c
still has to run, `pc` the place in `thread.cc`. `waitOn[x]` is set between the
unlock in `Condition::wait` and the removal of the next ready thread; `woken[x]`
holds the threads a notifier has taken off a condition but not yet added to the
ready queue; `victim[x]` is the TCB that `reap` is deallocating. The steps of
`wait`, `notify_*`, `reap`, `make_thread` and of a switch are separate actions,
so every other core may act between them.

`ClientStep` is the most general client: any thread may at any time create a
thread, yield, stop, wait on or notify any condition. `InClient` allows a wait
also inside `reap` and the allocation of a TCB, where the heap's blocking lock
may block.

Abstractions: the work and the stacks of threads; `reap` deallocates a TCB and
lowers `n_active` in one step (nothing observes the state in between: the memory
of a TCB is reused only through `MakeThreadAdd`, and a thread counted a step
longer only delays the power-off); an idle thread's `wait` (unlock, pause, lock) changes nothing
and is no action; `Thread::sleep` is a
loop of yields around a clock that never advances, and is left out. `MaxEpoch` and
`MaxActive` bound the counters of the client's operations and nothing else.

### Workers and the primitives

`obj` is the primitive, a record of its class and fields; `PrimInit` chooses the
class. `at` records where a context is in its use of the primitive, `todo` how
many threads may still be created. The spin lock of a primitive is held from the
test of its field to the unlock inside `wait` or `notify`, so test and `Wait` are
one action, and so are assignment and notification.

- `BlockingLock`: lock, any number of yields, unlock. The booting idle threads take
  the lock as well (`KPRINT` in `core_main`), so polling and parking contenders mix.
- `Semaphore`: each thread calls `down` and `up` in either order, or `up` twice.
- `Barrier`: the parties are all threads or, as in `core_main`, the idle threads of
  the booting cores; `party` is chosen in `BarInit`.
- `CountDownLatch`: a thread counts itself with `up` and `down`, or calls `sync`; the
  count may leave and reach zero several times.
- `Future`: one thread calls `set`, the others `get`.

The last two classes are not instantiated in the kernel at this commit; their
clients are the ones their interface suggests.

### Processes

The process table and the places of `fork`, `exit`, `waitpid` and `sched_yield`
between critical sections of `processLock` and switches. A user program is any
sequence of these calls with any pid as argument. `gs28` is the per-core slot in
which `syscallHandler_` keeps the user's stack pointer; `ursp[t]` is the stack
pointer the process had when it entered the kernel, or has in user mode. `id`,
`serial` and `creator` are history variables: pids are recycled, the number of a
fork is not. `MaxForks` bounds the forks; `RoomForChild` says that the heap has a
TCB for each of them. Exit statuses, memory and files are left out.

`WaitInCircle(S)` says that the processes in S are in `waitpid`, each for one of the
others in a slot that names it as parent. The pid comparison allows this after
a recycled pid (finding 2), so `AllProcessesEnd` excepts it: a behaviour ends in a
power-off, or in such a circle in which some process has not forked the one it waits for.

### ProcessLock

In `Processes` a critical section of `processLock` is one step. A `fork` that finds
no pid is the exception: it prints before it unlocks. `holder` is the thread that
has `processLock`, `locked` says whether `putch_spin` is taken, `printing` how far a
thread is in `putch`, which a process in `write` calls too. `Calls` are the system
calls of `Processes`; those of `Locking` need `processLock` to be free. A text is one
character, and `say_lock` is left out: with it more threads wait.

### PhysMem, Vmm, AddressSpaces

`PhysMem::alloc` and `free` are atomic, under `PhysMem::lock`. What a frame holds
is `Zero` (no word has the present bit of a page table entry) or `Dirty`; `alloc`
clears a frame taken from a range for the first time and hands out a freed one as
it was left.

In `Vmm` every allocation and every release of a frame is a step, so other
processes allocate and free between two frames of a `fork`, a `brk` or an `exit`.
The radix tree has two levels, a root and leaf tables; the code treats the levels
between like the leaf tables. `pc` is the place in the kernel, `todo` the ranges
still to map or unmap, `held` the frame that `map_range` has allocated before
`map` allocates a table for it, `child` the process whose tables `fork` is
filling, `lost` the frames of a copy that `fork` drops because no pid is free.
Whether a pid is free is left open, the table being in `Processes`. `Segments` and
`HeapStart` are computed from the program headers as `ELF::load` and `kernel_main` do;
what the loader writes into the pages is one of the program's stores. A process stores to its pages and
calls `brk`, `fork` and `exit` in any order, `MaxCalls` in all.

`map` does not clear the frame it links as a table (finding 3). When such a
frame is dirty the entries of the process are arbitrary, and the model stops there
(`Running`): the properties of run `memory` are about the behaviours up to the
first such table, and run `page_tables` shows that one is reached.

`SpaceOf(p)` is the refinement mapping to `AddressSpaces`: for each page what its
frame holds, nothing while the process is being copied or does not exist. A fork
is then a single step of the abstract specification, the one that makes the
child ready.

### Parts

Eleven modules have nothing in common but that they are checked together: `unit`
says which of them moves in a behaviour, and the others stay where they began.
Their properties are therefore properties of each part alone.

### Heap, Allocator, RefCount, SysSem, Files

`Heap` works on the words of the arena: `array` with sizes and taken bits in
headers and footers and links in available blocks, `avail` the head of the list.
`Junk` stands for what the user of a block may have written, so that an operation
that reads a stale word shows. `malloc` and `free` hold `theLock`, so each is one
step; `BestFit` is the search with its limit `CountDown`. `free` is called with
pointers that `malloc` returned.

In `RefCount` a thread assigns a reference or `nullptr` to a reference it owns,
creates an object, or passes a reference on. An assignment is the critical section
that drops the old target (`Assign`), the deletes after it (`DeleteObject`,
`DeleteMiddle`), and the critical section that adds the new one (`Add`), with the
steps of other threads between them. Copies, moves and destructors are such
assignments. A `UniqueRef` has no `Middle`: it is moved (`MoveUnique`), or taken by
a `StrongRef`, which makes the `Middle`, or by a `WeakRef`, which deletes the
object (`TakeUnique`).

`SysSem` has one action for each outcome of a critical section of `semLock`. A
`semop` that finds too little yields and begins its loop again with the id it
was given; `sleeping` holds it. `known` and `units` are history variables. A
sleeper whose semaphore is removed and whose slot is given to another key goes on
with the new semaphore: nothing in the repository says otherwise, and
`UnitsExact` says what still holds; it does not forbid this.

`Files` is about the descriptors of one thread (`fdTable` is `thread_local`).
`Read` and `ReadAll` are `BlockIO::read` and `read_all`, applied twice, to the blocks
of a file and, for each of them, to the blocks of the disk; `Disk` is an image
that holds the files of `Layout`, every byte of which is a different number, and in the
indirect blocks the numbers of blocks, cut into bytes (`UpperBytes`) that `BlockNumber` puts together.
`began` and `bytes` are history variables.

### Mappings

The VME lists, with pages for page aligned addresses. `asked` and `askedShared`
are history variables, what `mmap` was asked to show on each page. A private list
is touched by its own process only, and a call is one step; the pages of the
shared area are reached by all cores without a lock, so a fault, or a range check
that faults pages in, is cut at each look at the page table (`Ensure`, `Recheck`,
`MapPage`). `fork` copies lists and pages, `fini_thread` drops them, and the shared
list when no thread is left. `mmap` and `munmap` have no caller at this commit, so
they are called in any order with any of the constants' lengths and files; the
handler of faults and `is_user_range_mapped`, which most system calls begin with,
are in use. Calls that are refused change nothing and are left out, and so are program, heap and stack
pages (module `Vmm`) and frames.

### Boot

Cores are named by their local APIC ids, assumed dense from 0. `bootAt` is the place of a core,
`sys` what `system_main` has set up, `idt` and `gdt` the tables, `regs[c]` the
registers of a core, each as the place it points to. `Listing` gives the orders in
which Limine may list the cores; a core that lacks a feature, or a machine without
x2APIC, halts the machine, as a failed `ASSERT` does. The barrier is taken as `Barrier`
shows it to be.

### Ext2

An image is a function from byte addresses to the records that are there, and a
tree, the reference: which name leads where. `Fields`, `GroupTable`, `NodeOffset`
compute the addresses as the code does; a wrong address finds no record, or another
node's. `Entry` is one turn of the loop over a directory, `Find` the search and
the rest of the walk from the root; `GetSymbol` reads a short link from the node
and a long one from its blocks. `MCExt2` has the images, with links as mkfs.ext2
(`Makefile:219`) makes them: a target of fewer than 60 characters is in the node, a longer
one in a block. The images have two groups, blocks of 1 or 2 KB
and nodes of 128 or 256 bytes. Addresses of 4 GB and more, which the 32-bit products
would cut, are left out.

### Console

One character is sent in three steps: take `putch_spin`, find the port busy any
number of times, send. A text is a sequence of characters and arguments, converted
by `DoPrint` as `do_print` does, wrapped to their size. `KPANIC` and `write` do not
take `say_lock`.

### BlockDevice, Installer

The device is a function from cells to numbers, a cell standing for one field
of the format (a flag, an entry, a signature), so that order and overlaps of the
offsets are kept. The state of a transfer is a record: device, cached block, dirty
flag, log, errors left. Each operation returns the set of states it can end in, a
transfer that succeeds or one that fails having moved any of the lengths in `Cut`,
up to `MaxFaults` failures in all. stdio is taken to write through. `Installer` has
an action for each call or loop turn of `bios_install`; `before` is the device at
the start and `io.lost` the cells a failed write has changed without logging them.
Freeing of memory and messages are left out; the heads, sectors and types of a
converted entry are part of its cell.

### Printf

One action per state of `dopr`, one character of the format each. `items` are the
directives the format was spelt from, the reference for what should be printed.
`IntWord` and `LongWord` stand for the widths of `int` and `long`, `ConvertSize` for
the 20 digits of the buffer, scaled down together so that, as in the code, the largest
`unsigned long` has as many digits as the buffer and the most negative `long` fewer. Floating point values are
given in hundredths. Quirks of the code are kept, among them: the zeros that fill
up a fraction come after its digits, a precision limits the padding of a string,
a number of all 20 digits loses its first one.

### SpinLock, LinkedQueue, FifoQueue

`SpinLock` has one action per memory access or interrupt-flag change of `lock`
and `unlock`, `was_disabled` and `count_it` as plain fields, and the recorded maximum;
the two sums of the statistics, which are only printed, are left out. `LinkedQueue` has one action per load or store of `queue.h`,
including the look at `first` outside the lock in `remove`, with several queues
over one `next` field, and the walk of `notify_all`. Sequential consistency is
assumed; the code uses atomics and locks with the compiler's default,
sequentially consistent, order for the shared words, and x86 keeps the order of
the plain stores.

## 3. Runs

| run | instance | shows |
|---|---|---|
| `primitives` | 2 cores, 3 TCBs, 1 condition; the most general client with one notification | `ExactlyOnePlace`, `KernelStack`, `AssertionsHold`, `ShutdownSound` |
| | the same with each of the five primitives; semaphore without a unit at the start | these, and `MutualExclusion`, `NoLostWakeup`, `EnoughAwake`, `NobodyPassesEarly`, `NobodyLeftParked` |
| `primitives_live` | 2 cores, 2 threads; semaphore with one unit | `PrimitivesEnd` |
| | 2 cores and one spin lock | `LockExcludes`, `InterruptsRestored`, `MaximumIsMaximum`, `SomebodyGetsIn` |
| `processes` | 2 cores, 3 TCBs, table of 4, 3 forks | `PidsDistinct`, `LivingParentCollects` |
| `processes_live` | 1 core, 3 TCBs, table of 4, 5 forks | `AllProcessesEnd` |
| `memory` | 3 processes, 5 pages under 3 tables, 12 frames in 2 ranges, 4 stores and calls | `OneOwner`, `NoFrameLost`, `BreakMapped`, refinement `ImplementsSpaces` |
| `parts`, heap | 28 words, requests of 4, 6 and 8 words with header and footer, a search limit of 2 | `HeapWellFormed`, `FailsOnlyWhenFull`, refinement `ImplementsAllocator` |
| `parts`, references | 2 threads, 2 objects, 2 strong, 2 weak and 2 unique variables | `NothingDangles`, `CountsExact` |
| `parts`, semaphores | 3 processes, 3 keys, 2 slots | `KeysAgree`, `UnitsExact` |
| `parts`, files | 2 files, 2 descriptors | `ReadsContiguous` |
| `parts`, queue | 2 cores, 3 items, 2 queues | `WellFormed`, refinement `ImplementsFifo` |
| `parts`, mappings | 2 processes, 4 private and 2 shared pages, mappings of 1 and 3 pages, 5 calls | `MappingsExact`, `RangeAnswerTrue` |
| `parts`, start-up | 3 cores listed in two orders, the second one boots | `CoreReady` |
| `parts`, ext2 | 8 images with 5 nodes, 4 names, links of 59, 60 and 61 characters | `LookupRight` |
| `parts`, console | 2 threads, 2 texts out of 4 | `TextsWhole` |
| `parts`, installer | 15 devices, 6 command lines, 2 failures | `Restored`, `InstalledExactly` |
| `parts`, printf | formats of up to 2 items out of 38 | `DirectivesIndependent`, `NumbersReadBack` |
| `user_stack` | violation | finding 1 |
| `circular_wait` | violation: 1 core, 3 TCBs, 3 forks | finding 2 |
| `page_tables` | violation | finding 3 |
| `failed_install` | violation | finding 4 |
| `lock_order` | violation: 2 cores, 3 TCBs, 2 forks, 2 prints | finding 5 |
| `links` | violation: the images of `parts` | finding 6 |

In `primitives` a behaviour has one primitive or none, and then the threads are `ThreadsSpec`'s
client; in `primitives_live` it is about threads or about the spin lock, and `PrimitivesEnd` is
`EverybodyDone` of `Primitives` in the former. Each pair shares a run only to be checked together.

`AllProcessesEnd` says that every `waitpid` returns and the machine powers off, unless from some
time on processes wait for one another in a circle that a recycled pid has closed.
The run has one core, because the state graph of two is too large for a liveness check;
the interleavings of two cores are in the safety run `processes`, with fewer forks.

What the invariants of `parts` say, where the names do not:

- `HeapWellFormed`: blocks and boundary tags cover the arena without a gap, no two
  available ones are neighbours, and the list links exactly the available ones.
- `MappingsExact`: each list covers the pages that were asked for, once and with the
  right page of the file, and so does every present page.
- `RangeAnswerTrue`: "yes" means that every byte of the range is on a present page, "no" that
  some byte has no private mapping.
- `CoreReady`: nothing is written beyond the GDT; `kernel_main` runs on one core, which
  has an interrupt table, a page fault handler, a heap and the segments of a return
  to user mode; by then every core has loaded its own `PerCore` and the descriptor of
  its own TSS.
- `LookupRight`: a search ends at the node the tree names, or at none when there is
  no such name, a directory shows each entry once, and a link reads as its target
  unless it has exactly 60 characters (finding 6).
- `TextsWhole`: without the characters of unlocked printers, the port has received
  the texts of `KPRINT` one after the other; numbers read as their values.
- `Restored`: after an undo without errors every cell is what it was, but for the
  cells of a write that failed; those are finding 4.
- `InstalledExactly`: after a successful install every cell is what `Expected`
  computes from the device before it.
- `DirectivesIndependent`: what is printed is what each directive prints alone, one
  after the other. `NumbersReadBack`: an integer, the most negative `int` and `long`
  among them, reads back from its text, the sign stands before the digits, and the
  text is as wide as asked for; numbers that fill all digits of the buffer are excepted.

The type invariant of `LinkedQueue` documents the state; those of `Threads`, `SpinLock`,
`Primitives`, `Processes` and `Vmm` are part of the proofs.

**Bounds.** Two cores give every interleaving of a core with an adversary; three
TCBs let one run, one be switched out and one be queued, so that each of the
places of a TCB is occupied while another moves, and let a freed TCB be used
again. One epoch suffices for the notification that falls into the window of
`wait`; the primitives' runs allow as many as their programs make. A table of four
leaves pids 2 and 3 for forks, so three forks exhaust it, wrap `nextPid` and recycle
a pid, and five leave two more after a circle of waits has become possible. Three items make the list empty, a singleton and longer than one. Four
calls are enough for a process to fork twice and both children to change the
break or exit while frames are reused; twelve frames are few enough for `alloc` to
use up a range, to recycle and to panic. One table holds
the program, one the heap's two pages and one the stack, so `brk` makes a table or
finds one; pages
of two bytes make breaks that are aligned and breaks that are not. An arena of 28 words holds up to six
blocks, so that blocks are taken from the head, the middle and the end of the
list and joined on either side, on both and on none. Three keys for two slots
fill the table and make every slot change its key. Blocks of four bytes on a disk
with blocks of two, two direct blocks and a file of thirteen bytes make reads cross
blocks, go through the indirect block and end in the middle of a block. Mappings of
three pages can be cut in front, behind and in the middle, and five calls are a map,
a cut, a fork and faults on both sides, or two faults on one shared page. Three
cores are a booting one and two that race. Two texts are a `KPRINT` and one that may
fall into it. Two failures are one that ends an install and one during its undo, and the
devices make each check of the table succeed and fail. Two directives are enough for
one to leave something behind for the next. The
invariants of runs `primitives`, `primitives_live`, `processes` and `memory`, and of
the heap, the references, the semaphores, the files, the queue, the mappings and the start-up in
`parts`, are also proved without any of these bounds (section 5). Symmetry over TCBs or items is used only in runs
without liveness properties.

**Fairness.** Weak fairness of the steps of a core says that the core keeps
executing; nothing in the kernel stops one except power-off. Because threads are
cooperative, a thread that never yields keeps its core. The liveness properties assume
of the *client*, as strong fairness, that a thread which runs again and again
does not yield for ever instead of making its next call of the primitive or
ending, and that the program creates its threads (`PrimFairSpec`, and the same in
`MCPrimitivesLive`), or that a process
does not for ever put off `exit` (`processes_live`); nothing makes it call `waitpid`, but
one that has does not leave the loop by itself. No fairness is assumed between cores that compete for
a lock or for a thread; the spin lock is test-and-set, so `SomebodyGetsIn` is the
most that holds.

## 4. Findings

1. **User stack pointer per core** (`machine.S:356`, `machine.S:395`).
   `syscallHandler_` keeps the caller's stack pointer in `gs:28` across the whole
   call. After a switch inside `sched_yield` or `waitpid` the slot belongs to the
   last system call made on that core. `REPORT.txt:15` asks to "save user RSP in
   trusted percore/per thread storage, and only return to it at exit". Run
   `user_stack` shows a return on another thread's stack pointer. Programs whose calls are
   all made at one stack depth do not notice.
2. **Waiting in a circle** (`syscall.cc:515`). The parent is recorded as a pid, pids are
   recycled, and an orphan keeps its dead parent's pid. Process 1 forks 2, 2 forks 3, 2 exits
   and is collected; 3 forks, and the child gets pid 2 while the slot of 3 still names 2 as
   its parent. Each is now the parent of the other, and when both call `waitpid` for the
   other, both poll for ever and the machine never powers off. `048.dir/init.c:15` "Verifies
   that a process cannot invert the hierarchical process tree by attempting to wait on its
   own creator." Run `circular_wait` shows the two waits. While the real parent is alive
   nobody else collects a process (`LivingParentCollects`), and by `AllProcessesEnd` such a
   circle is the only thing that keeps a wait from returning.
3. **Page tables that are not cleared** (`vmm.cc:190`). `map` links the frame it gets
   from `physMem.alloc` as a page table as it is, and `alloc` clears only frames
   that have never been used. `vmm.cc:166` says that `map` "should insert the requested
   mapping into this thread's page table structure". Run `page_tables` shows a
   table made of a frame with old data, whose words are then entries nobody
   inserted. `cloneTableSubtree` does clear its tables.
4. **Writes that fail half-way are not undone** (`limine.c:487`). A write is entered
   in the log after its last block (`limine.c:504`). When an earlier block has been
   changed and a later one cannot be cached, the log does not have the change. `limine.c:1159`
   says "If we failed, attempt to reverse install process". Run `failed_install`
   shows an undo without an error and a device that differs; `Restored` shows that
   nothing else is left behind.
5. **Printing under a spin lock** (`syscall.cc:434`). A `fork` that finds no pid calls
   `KPRINT` before it unlocks `processLock`. `putch` takes `putch_spin`, a `BlockingLock`, so
   the thread may be switched out; threads that come to run and call `waitpid`, `fork` or `exit`
   spin on `processLock` and do not give up their cores. `README:84` of the kernel gives as
   "informal liveness semantics" that "All cores get to participate" and "All threads get a
   fair share of resources". Run `lock_order` shows both cores spinning while the holder
   is on neither.
6. **Links of 60 characters** (`ext2.cc:120`). `get_symbol` takes a target of up to 60 characters
   from the node; mkfs.ext2 (`Makefile:219`) keeps only shorter ones there. `ext2.h:136` says
   "If this node is a symbolic link, fill the buffer with the name the link referes to." Run
   `links` shows a link that reads as block numbers.

## 5. Proofs

All theorems hold for every number of cores, threads, processes, pages and so on, and
for every value of the bounds; what is assumed of the constants is named below. Each
component has one inductive invariant, which a step of every action preserves in a
lemma of its own, and the properties of the runs follow from it.

| module | theorems |
|---|---|
| `ThreadsProofs` | `ThreadsInvariant`, `ThreadsType`, `ThreadsOnePlace`, `ThreadsKernelStack`, `ThreadsAssertions`, `ThreadsShutdown` |
| `PrimitivesProofs` | `PrimInvariant`, `PrimRefinesThreads`, `PrimMutualExclusion`, `PrimNoLostWakeup`, `PrimEnoughAwake`, `PrimNobodyPassesEarly`, `PrimNobodyLeftParked` |
| `ProcessesProofs` | `ProcInvariant`, `ProcPidsDistinct`, `ProcLivingParentCollects` |
| `VmmProofs` | `VmmInvariant`, `VmmOneOwner`, `VmmNoFrameLost`, `VmmBreakMapped`, `VmmImplementsSpaces` |
| `MemoryProofs` | `MapInvariant`, `MapExact`, `MapRangeAnswer`, `HeapInvariant`, `HeapStaysWellFormed`, `HeapServesWhatFits`, `HeapImplements`, `FilesInvariant`, `FilesReadsContiguous` |
| `LinkedQueueProofs` | `LQInvariant`, `LQWellFormed`, `LQImplementsFifo` |
| `SharingProofs` | `SpinMutualExclusion`, `SpinInterruptsRestored`, `SpinMaximum`, `RefInvariant`, `RefNothingDangles`, `RefCountsExact`, `SemInvariant`, `SemKeysAgree`, `SemUnitsExact` |
| `BootProofs` | `BootInvariant`, `BootCoreReady` |

**Threads.** `ThreadsProofs` assumes `ThreadsAssumption`: cores and TCBs are finite, disjoint
sets, the null pointer is neither, the first core is a core. `ThreadsInv` is the
inductive invariant:

- `Placed(t)`: some place holds `t` and, for every place, `t` is there if and only
  if it is this one. `ExactlyOnePlace` counts places; the witness form is what a step
  preserves, because a step that moves `t` supplies the new witness.
- `QueueInv`: no queue links a thread twice. Needed when the head is taken: the
  rest must not contain it.
- `CoreInv(c)`: a core runs its own idle thread or a TCB; the pending action of
  the context just left fits the kind of context; the
  `disable_preemption_count` is determined by whether `post_switch` or `wait`
  still has to enable; `rsp0` is current; an idle thread that was switched out is
  at the head of its loop. `KernelStack` and `AssertionsHold` follow, and neither
  is inductive without the others: which thread's count is lowered depends on
  which context is current.
- `CountInv`: `n_active` is the number of TCBs in use plus the number of contexts inside
  `make_thread`. `ShutdownSound` is its case 0, and is not inductive alone.

There is one lemma per action, over lemmas about queues (`AppendFacts`,
`TailFacts`), about cardinality, and about the common shapes of a step: a
switch, a change local to one context, a notification.

**Primitives.** A program that uses a primitive is a client of the thread system, so
`ThreadsInv` and its lemmas carry over, and `PrimRefinesThreads` says that the composition
implements `ThreadsSpec`. What `PrimInv` adds is about the window in `wait` between the
unlock and the queue:

- `WaitInv`: who is on its way to the queue is inside the primitive's loop and has the
  epoch it read, which is not above the present one; if nobody has notified
  since, the reason to wait still holds. This is why `post_switch` may compare
  epochs only, and what `NoLostWakeup` and `NobodyLeftParked` rest on: a thread that will
  be queued is a thread that must wait.
- `BarrierInv`, `LatchInv`: the counts are the numbers of parties that have not called
  `sync()`, and of threads between `up()` and `down()`. `ParkInv`: nobody is parked on
  something open. `IdleInv`: an idle thread has left the primitive when it reaches its loop.
- `EnoughAwake` is inductive only together with the others: one notification comes with
  each unit, and the thread that is woken stays awake until it has tested the count.

Steps of the thread system are shown once to be `Quiet`: nobody enters `wait` or
leaves the queue in them, and nobody falls asleep who had not missed anything.

**Processes.** `fork` makes the child's thread without `make_thread`, so the first part
shows that such a step preserves `ThreadsInv`, the count of `n_active` included. The rest:

- `BootInv`: until the first thread has registered as pid 1 it is the only one and the
  table is empty. `ArgInv`: a living process has a pid, and so has the call it is in.
- `HistInv`: the numbers of forks are below the present one, so a new fork has a new number.
- `FamilyInv`: no two living processes come from one fork, and while a process lives
  the slots of its children name its pid. A fork under way has reserved the pid but has
  no thread; that its number belongs to nobody else has to be stated for it as well.

`LivingParentCollects` is an action property: the step of `waitpid` that frees a slot
tests `parent`, and `FamilyInv` turns the pid into the process.

**Spin lock.** `SharingProofs` proves `LockExcludes`, `InterruptsRestored` and
`MaximumIsMaximum` from an invariant that says that the word is set exactly while
a core owns the lock, that the owner's saved flag is the one it came with, in
`was` or in `was_disabled` according to its place, and that what a core is
about to compare and swap is above the value it read.

**Memory.** `VmmInv` is about behaviours up to the first table made of a dirty frame, like
the model (section 2).

- `OwnerInv`: the frames are partitioned. `Holds` maps each place that can have a frame
  (the root, the tables and the pages of each process, and the frame `map_range` holds)
  to its frame; every frame is at one place, freed, new or lost, and the list of freed
  frames names none twice. A step changes one place, and either takes a frame from the
  freed or new ones or gives one back; that is one lemma for all actions.
- `SpaceInv`, `TodoInv`: which frames there are at each place in the kernel; there is a page
  to map or unmap whenever the loop says so.
- `ForkInv`: the parent and its copy belong together, and a page that has been copied holds what the
  parent's page holds. It is what makes the last step of a fork a copy of all pages
  in `AddressSpaces`: the parent is in the kernel meanwhile, and `OwnerInv` keeps others
  from its frames.
- `BreakInv`: how far a `brk` has got is in the range still to do, so that the pages of the
  heap are those below the break or the goal, but for the range.

`VmmImplementsSpaces` is the refinement: the first state maps to the first state, and
every step to a store, a mapping, a fork or an exit of the abstract specification or to a
stutter. Assumed: `PhysMemAssumption` (the usable ranges of the memory map do not overlap),
`VmmAssumption` (program, heap and stack lie in this order below `NPages`) and
`SegmentsAssumption` (the ranges of pages computed from the program headers are not empty and
do not meet the heap), which TLC evaluates for the instances; that it follows
from the headers and the alignment of the stack is a fact about the recursion of `SelectSeq`.

**References.** `RefCountAssumption`: finitely many references, disjoint kinds, and `Null` is
none of them. `ObjInv(o)` says that the counts are exact, counting the assignments under
way; that `o` lives as long as a `StrongRef` counts, a `UniqueRef` has it or its delete is
pending, exactly one of these; the same for the `Middle`; and that nothing is pending twice. `JobInv`: a
thread keeps both sides of an assignment until it is done, otherwise the new target
could go away between `Assign` and `Add`.

**User semaphores.** `SemInv` is `KeysAgree`, `UnitsExact` and the types: the two are inductive,
because a `semop` looks its semaphore up again in each round. The search for a slot
is a minimum, which exists by the well-foundedness of the numbers.

**Start-up.** `BootAssumption`: every core is listed, and Limine's table has its seven
descriptors (`system_main` reads numbers 5 and 6). `BootInv` says for each point of `system_main`
and `core_main` what the core has set up by then, for itself (`CoreInv`) and for all
(`SystemInv`); that a core not yet reached by the loop is off, which uses that
a listing of all cores names each once (`WakeInv`); that `start_barrier` counts the cores
that have not entered it (`StartInv`); and that there is one thread of `kernel_main`, ready
or running (`MainInv`). A failed assertion leaves the rest undone, so all this holds of a
machine that has not halted; a halt comes before anybody is through the barrier.

**Queue.** `QueueAssumption`: finitely many items, and `NoItem` is neither an item nor a
core. `IsList(link, p, s)` says without recursion that `s` is the list from `p` on; it
determines `s`, and `Chain` finds it. `LQInv` says:

- `ListInv`: the lists of the queues and the chains that notifiers still have to add are
  proper lists, and an item is in one of them or in the hands of one core. This is what
  the shared `next` field needs: a store into it changes one list only.
- `LockInv` and `CoreInv(c)`: a lock is held exactly at the places between `lock` and
  `unlock`, and the place says by how much `size` and `last` are behind the list.

`WellFormed` is the part of it that is true of free queues. For `ImplementsFifo` the list of a
queue is its abstract sequence: the store that links the new last item is the abstract
`add`, the one that moves `first` the abstract removal, and all others stutter.

**Mappings.** `MappingsAssumption`: frames are not empty, lengths are positive, the private area
ends before the shared one begins. A list of VMEs is described by `Sorted` (in order, apart,
within its area) and `Shows` (it covers what was asked for, with the right page of the
file), and the present pages by `Agrees`. `AccessOf` describes a fault or a range check
that is cut at a look at the page table: what it has passed is present, and what it is about
to map was asked for. The pages of the shared area outlive its list when the last process
ends, until the first process of a new set makes a list again; `SharedInv` says when.
The lemmas about `InsertAt`, `Leftovers` and `FlattenSeq` say what `mmap` and `munmap` make of
such a list.

**Heap.** `HeapAssumption`: the arena has more than 64 bytes, requests are positive, and the search
may look at one block at least. `HeapInv` gives a witness for what walks compute: a set `H` of
headers and a sequence `s` of available blocks, such that

- `Arena(heap, H, {}, s)`: `H` cuts the arena into blocks of even length (`Tiling`), header and
  footer of each hold its size (`Cut`), `s` names the blocks whose taken bit is clear, each
  once and none shorter than four words (`Holds`), and the links run through `s` in both
  directions (`Linked`);
- `InOrder(H, s, blocks)`: the markers at both ends are taken, no two available blocks are
  neighbours, and what `malloc` returned lies in a taken block long enough for it, each in
  its own.

`malloc` and `free` break this between their stores. The third argument of `Arena`
holds the blocks an operation is working on, of which nothing is asked, and there
is a lemma for each thing an operation does: take a block out of the list (`UnlinkArena`),
bound a taken one (`TakenArena`), put one at the head of the list (`AvailArena`), cut one in two (`SplitArena`),
join two (`JoinArena`), begin to work on a taken one (`DetachArena`). `malloc` and `free` are sequences of these.
`HeadersIs` and `ListIs` show that `Headers` and `List`, which are recursive functions, find `H` and
`s`; `BestFitFacts` that the search ends with a block that fits if the list has one, whatever its limit.
`FailsOnlyWhenFull` then follows from `InOrder`: between two taken blocks there is one
available block at most.

**Files.** `FilesAssumption`: blocks and block numbers have positive sizes, the block of the file
system is a multiple of that of the disk and of a number, and the image is as `mke2fs` writes
it (`ImageWellFormed`): no block is used twice, an indirect block belongs to one file, each number
fits in the bytes it has, and a file fits in its blocks and these in the direct numbers and one indirect
block. `ReadAllRight` shows of any `read_block` that delivers the bytes of a device
(`Delivers`) that `read_all` reads any range of it. It is used twice: for the disk
(`DeviceDelivers`), and for a file (`NodeDelivers`), whose `read_block` itself reads from the
disk; `NumberRight` says that the number it takes there is that of the block, from the node
or put together from the bytes in the indirect block (`BlockNumberRight`). `FilesInv` adds to
`ReadsContiguous` that an open descriptor stands in its file, not before `began`.

**Induction.** The theorems about lists, blocks, walks and reads need induction, and the library's
induction theorems cannot be used here. `UpTo` replaces them: a set that has 0, and with each number
below N the next, has all numbers up to N. That a recursive function exists is shown by
giving the function that satisfies its equation, or by extending it step by step (`UpperExists`).

**Only model-checked.** All liveness, and `ProcessLock`. `NumbersReadBack`,
`DirectivesIndependent` and `TextsWhole` of the conversions, and `LookupRight` of `Ext2`, which need
induction over strings and trees; `Restored` and `InstalledExactly` of
`Installer`, whose transfers are folds over the blocks of a device.

## 6. Not modelled

`PROJECT.json` gives the reason for each. PCI (`pcie.cc` has no caller), the dumps of
registers, the braces form of `print` and the leak report of the heap change no state
that a property could be about. The checks of ELF headers are pure decoding.
`limine enroll-config`, `version` and `print-datadir` handle one file in one pass;
`limine-bios-hdd.h` is an image. Test programs are read as statements about the
kernel. Timer interrupts do not occur (see Preemption), and `Thread::sleep`, which
nobody calls, would not return without them. Weak memory is not modelled.

Hazards that no property covers, besides those in `PROJECT.json` (the address space that a
refused `fork` keeps, a `semop` that wakes up to another key's semaphore, the frame that two
faults lose): `mmap` takes the
heap's blocking lock under `sharedLock`, a spin lock (`vmm.cc:508`), the pattern of finding 5; a private `mmap`
searches the VME list only and may choose pages of the program, the heap or the stack
(`vmm.cc:521`), and its end may wrap (`vmm.cc:536`); the spurious interrupt handler
is installed for the vector the register holds before `init_core` writes another
one (`idt.cc:43`, `idt.cc:47`); the `int` of a user semaphore is added to without a
bound (`syscall.cc:596`), which `MaxValue` keeps out of the model.

## 7. Plan

Done: the thread system, the five primitives, spin lock and queue, processes,
frames and page tables, heap, reference counts, user semaphores, files, mappings,
ext2, start-up, console, installer and `printf`; the theorems of section 5, which cover
the invariants of every run but those of the parts that walk data.

Left, in this order; each item gives the properties it is for.

1. The blocking lock of the heap under `sharedLock` (`vmm.cc:508`), as `ProcessLock` does
   it for the print under `processLock`.
2. `Mappings` over the frames of `Vmm`: a frame that two faults on one shared page
   lose, and private mappings that meet program, heap and stack.
3. Liveness of the polling `semop` on the thread system, as another class of
   `Primitives`.
4. Theorems: `TextsWhole` of `Console`; the transfers of
   `BlockDevice`.
