-------------------------------- MODULE Vmm --------------------------------
(***************************************************************************)
(* Address spaces, vmm.cc: the page tables of the processes, map_range as  *)
(* used by the loader and by brk, the copy made by fork, and fini_thread.  *)
(* Every call of PhysMem::alloc and free is a step, so processes on other  *)
(* cores allocate and free in between.                                     *)
(*                                                                         *)
(* The radix tree has two levels here, a root (the PML4) and leaf tables   *)
(* of TableSize entries; the levels between are made, copied and freed as  *)
(* the leaf tables are.  table and pte are the entries of the lower half;  *)
(* the upper half of every root is the kernel's and the same for all.      *)
(* mmap has no caller in this kernel: the lists of VMEs are empty, and the *)
(* handler of page faults maps nothing.                                    *)
(***************************************************************************)
EXTENDS PhysMem, FiniteSetsExt

CONSTANTS
  Proc,        \* TCBs that can hold a process
  Nil,
  NPages,      \* bound: user pages are 0 .. NPages - 1
  TableSize,   \* pages under one leaf table
  PageSize,    \* bytes in a page
  Phdrs,       \* the program headers of init, addresses and sizes in bytes
  StackTop,    \* where its stack begins, and
  StackSize,   \* how many bytes are mapped for it
  MaxBreak,    \* bound: the highest break; memory ends before the heap meets the stack
  MaxCalls     \* bound: stores and calls of brk, fork and exit

Page == 0 .. NPages - 1

RegionOf(v) == v \div TableSize

Region == {RegionOf(v) : v \in Page}

\* Seeded fault: the division without the rounding.
RoundDownPage(b) == b \div PageSize

RoundUpPage(b) == (b + PageSize - 1) \div PageSize

\* The pages <<first, end>> that map_range maps for a range of bytes.
PageRange(start, size) ==
  <<start \div PageSize, (start + size - 1) \div PageSize + 1>>

\* ELF::load maps the loadable segments.
Loadable == SelectSeq(Phdrs, LAMBDA h : h.type = 1)

LoadRanges ==
  LET s == SelectSeq(Loadable, LAMBDA h : h.memsz > 0)
  IN  [i \in DOMAIN s |-> PageRange(s[i].vaddr, s[i].memsz)]

LoadedEnd == Max({0} \cup {Loadable[i].vaddr + Loadable[i].memsz : i \in DOMAIN Loadable})

\* kernel_main then maps the stack and puts the break behind the program.
Segments == Append(LoadRanges, PageRange(StackTop - StackSize, StackSize))

HeapStart == Max({1, RoundUpPage(LoadedEnd)}) * PageSize

ASSUME VmmAssumption ==
  /\ MaxCalls \in Nat /\ NPages \in Nat /\ TableSize \in Nat \ {0} /\ PageSize \in Nat \ {0}
  /\ Phdrs \in Seq([type: Nat, vaddr: Nat, memsz: Nat])
  /\ StackTop \in Nat /\ StackSize \in 1 .. StackTop
  /\ MaxBreak \in Nat /\ HeapStart \in 1 .. MaxBreak /\ MaxBreak <= StackTop - StackSize
  /\ StackTop <= NPages * PageSize
  /\ Nil \notin Frame \cup Proc \cup Value

\* What follows for the ranges to be mapped: they are ranges of pages, and none
\* meets the pages of the heap.
ASSUME SegmentsAssumption ==
  /\ Segments \in Seq((0 .. NPages) \X (0 .. NPages)) /\ Segments # <<>>
  /\ \A i \in DOMAIN Segments :
       /\ Segments[i][1] < Segments[i][2]
       /\ \A v \in Segments[i][1] .. Segments[i][2] - 1 :
             v * PageSize \notin HeapStart .. MaxBreak - 1

VARIABLES
  root,      \* cr3
  table,     \* the leaf table of each region
  pte,       \* the frame of each page
  heapBreak,
  pc,        \* what the kernel is doing for the process
  todo,      \* the page ranges map_range or unmapRange still has to do
  goal,      \* the break when they are done
  held,      \* the frame map_range has allocated and not yet mapped
  child,     \* the process fork is copying to
  lost,      \* frames of a copy that fork has dropped
  calls,     \* stores and system calls made so far
  panicked   \* KPANIC stopped the machine

spaceVars == <<root, table, pte>>

breakVars == <<heapBreak, goal>>

vmmVars ==
  <<physVars, spaceVars, breakVars, pc, todo, held, child, lost, calls, panicked>>

VmmInit ==
  /\ PhysInit
  /\ root = [p \in Proc |-> Nil]
  /\ table = [p \in Proc |-> [r \in Region |-> Nil]]
  /\ pte = [p \in Proc |-> [v \in Page |-> Nil]]
  /\ heapBreak = [p \in Proc |-> 0]
  /\ goal = [p \in Proc |-> 0]
  /\ \E p \in Proc : pc = [q \in Proc |-> IF q = p THEN "entry" ELSE "none"]
  /\ todo = [p \in Proc |-> <<>>]
  /\ held = [p \in Proc |-> Nil]
  /\ child = [p \in Proc |-> Nil]
  /\ lost = {}
  /\ calls = 0
  /\ panicked = FALSE

Mapped(p) == {v \in Page : pte[p][v] # Nil}

\* map inserts the requested mapping and no other: a frame linked as a table
\* holds no words that look like entries, vmm.cc:166.
TablesClear ==
  \A p \in Proc, r \in Region : table[p][r] # Nil => content[table[p][r]] = Zero

\* Once a table holds entries nobody inserted, every walk may meet them: the
\* model follows the machine up to that point, or to a panic.
Running(p, what) == ~panicked /\ TablesClear /\ pc[p] = what

-----------------------------------------------------------------------------
(* The first process: init_thread, then kernel_main loads the program.  The *)
(* lower half of the new root is not cleared, but nothing has been freed    *)
(* yet, so the frame is a new one.                                          *)

InitThread(p) ==
  /\ Running(p, "entry")
  /\ \E f \in Frame, x \in Value :
        /\ Alloc(f, x)
        /\ root' = [root EXCEPT ![p] = f]
        /\ content' = [content EXCEPT ![f] = Dirty]
  /\ pc' = [pc EXCEPT ![p] = "map"]
  /\ todo' = [todo EXCEPT ![p] = Segments]
  /\ goal' = [goal EXCEPT ![p] = HeapStart]
  /\ UNCHANGED <<table, pte, heapBreak, held, child, lost, calls, panicked>>

-----------------------------------------------------------------------------
(* map_range and unmapRange, page by page.  Page tables are private, so the *)
(* walk of a page table and the store of an entry belong to the step of the *)
(* allocation before them.                                                  *)

NextPage(p) == Head(todo[p])[1]

\* The ranges that are left after this page.
Rest(p) ==
  LET end == Head(todo[p])[2]
  IN  IF NextPage(p) + 1 < end THEN << <<NextPage(p) + 1, end>> >> \o Tail(todo[p])
                               ELSE Tail(todo[p])

\* After the last page the break is set and the call returns.
PageDone(p) ==
  /\ todo' = [todo EXCEPT ![p] = Rest(p)]
  /\ IF Rest(p) = <<>>
     THEN /\ heapBreak' = [heapBreak EXCEPT ![p] = goal[p]]
          /\ goal' = [goal EXCEPT ![p] = 0]
          /\ pc' = [pc EXCEPT ![p] = "user"]
     ELSE UNCHANGED <<breakVars, pc>>

\* The page is mapped already: two segments meet in it.
MapSkip(p) ==
  /\ Running(p, "map")
  /\ pte[p][NextPage(p)] # Nil
  /\ PageDone(p)
  /\ UNCHANGED <<physVars, spaceVars, held, child, lost, calls, panicked>>

HasTable(p) == table[p][RegionOf(NextPage(p))] # Nil

\* The frame is mapped as it comes.
MapPage(p) ==
  /\ Running(p, "map")
  /\ pte[p][NextPage(p)] = Nil
  /\ HasTable(p)
  /\ \E f \in Frame, x \in Value :
        /\ Alloc(f, x)
        /\ pte' = [pte EXCEPT ![p][NextPage(p)] = f]
        /\ content' = [content EXCEPT ![f] = x]
  /\ PageDone(p)
  /\ UNCHANGED <<root, table, held, child, lost, calls, panicked>>

MapHold(p) ==
  /\ Running(p, "map")
  /\ ~HasTable(p)
  /\ held[p] = Nil
  /\ \E f \in Frame, x \in Value :
        /\ Alloc(f, x)
        /\ held' = [held EXCEPT ![p] = f]
        /\ content' = [content EXCEPT ![f] = x]
  /\ UNCHANGED <<spaceVars, breakVars, pc, todo, child, lost, calls, panicked>>

\* map finds no leaf table, links a frame, as it comes, for one, and enters the page.
MapTable(p) ==
  /\ Running(p, "map")
  /\ ~HasTable(p)
  /\ held[p] # Nil
  /\ \E f \in Frame, x \in Value :
        /\ Alloc(f, x)
        /\ table' = [table EXCEPT ![p][RegionOf(NextPage(p))] = f]
        /\ content' = [content EXCEPT ![f] = x]
  /\ pte' = [pte EXCEPT ![p][NextPage(p)] = held[p]]
  /\ held' = [held EXCEPT ![p] = Nil]
  /\ PageDone(p)
  /\ UNCHANGED <<root, child, lost, calls, panicked>>

\* Seeded fault: the entry is not cleared.
UnmapPageKept(p) ==
  /\ Running(p, "unmap")
  /\ pte[p][NextPage(p)] # Nil
  /\ Free(pte[p][NextPage(p)])
  /\ PageDone(p)
  /\ UNCHANGED <<content, spaceVars, held, child, lost, calls, panicked>>

\* unmapPage clears the entry and frees the frame, if there is one.
UnmapPage(p) ==
  /\ Running(p, "unmap")
  /\ IF pte[p][NextPage(p)] # Nil THEN Free(pte[p][NextPage(p)])
                                  ELSE UNCHANGED <<avail, free_ranges>>
  /\ pte' = [pte EXCEPT ![p][NextPage(p)] = Nil]
  /\ PageDone(p)
  /\ UNCHANGED <<content, root, table, held, child, lost, calls, panicked>>

-----------------------------------------------------------------------------
(* The process runs: it stores to its pages and calls brk, fork and exit.  *)

UserStore(p, v, x) ==
  /\ Running(p, "user")
  /\ calls < MaxCalls
  /\ calls' = calls + 1
  /\ pte[p][v] # Nil
  /\ content[pte[p][v]] # x
  /\ content' = [content EXCEPT ![pte[p][v]] = x]
  /\ UNCHANGED <<avail, free_ranges, spaceVars, breakVars, pc, todo, held, child,
                 lost, panicked>>

\* brk with a target the kernel accepts (a smaller one changes nothing).
Brk(p, b) ==
  /\ Running(p, "user")
  /\ calls < MaxCalls
  /\ calls' = calls + 1
  /\ b >= HeapStart
  /\ LET old == RoundUpPage(heapBreak[p])
         new == RoundUpPage(b)
     IN  IF new = old
         THEN /\ heapBreak' = [heapBreak EXCEPT ![p] = b]
              /\ UNCHANGED <<pc, todo, goal>>
         ELSE /\ pc' = [pc EXCEPT ![p] = IF new > old THEN "map" ELSE "unmap"]
              /\ todo' = [todo EXCEPT ![p] = IF new > old THEN << <<old, new>> >>
                                                          ELSE << <<new, old>> >>]
              /\ goal' = [goal EXCEPT ![p] = b]
              /\ UNCHANGED heapBreak
  /\ UNCHANGED <<physVars, spaceVars, held, child, lost, panicked>>

-----------------------------------------------------------------------------
(* snapshot_for_fork.  The copy is kept under the name of the child.       *)

Fork(p, q) ==
  /\ Running(p, "user")
  /\ calls < MaxCalls
  /\ calls' = calls + 1
  /\ pc[q] = "none"
  /\ \E f \in Frame, x \in Value :
        /\ Alloc(f, x)
        /\ root' = [root EXCEPT ![q] = f]
        /\ content' = [content EXCEPT ![f] = Dirty]
  /\ pc' = [pc EXCEPT ![p] = "fork", ![q] = "copy"]
  /\ child' = [child EXCEPT ![p] = q]
  /\ UNCHANGED <<table, pte, breakVars, todo, held, lost, panicked>>

TablesLeft(p) ==
  {r \in Region : table[p][r] # Nil /\ table[child[p]][r] = Nil}

PagesLeft(p) ==
  {v \in Mapped(p) : table[child[p]][RegionOf(v)] # Nil /\ pte[child[p]][v] = Nil}

\* cloneTableSubtree takes a table and clears it ...
ForkTable(p) ==
  /\ Running(p, "fork")
  /\ PagesLeft(p) = {}
  /\ TablesLeft(p) # {}
  /\ \E f \in Frame, x \in Value :
        /\ Alloc(f, x)
        /\ table' = [table EXCEPT ![child[p]][Min(TablesLeft(p))] = f]
        /\ content' = [content EXCEPT ![f] = Zero]
  /\ UNCHANGED <<root, pte, breakVars, pc, todo, held, child, lost, calls, panicked>>

\* Seeded fault: the child is given the parent's frame.
ForkPageShared(p) ==
  /\ Running(p, "fork")
  /\ PagesLeft(p) # {}
  /\ LET v == Min(PagesLeft(p))
     IN  pte' = [pte EXCEPT ![child[p]][v] = pte[p][v]]
  /\ UNCHANGED <<physVars, root, table, breakVars, pc, todo, held, child, lost, calls, panicked>>

\* ... then a frame for every page of it, and copies the bytes.
ForkPage(p) ==
  /\ Running(p, "fork")
  /\ PagesLeft(p) # {}
  /\ LET v == Min(PagesLeft(p))
     IN  \E f \in Frame, x \in Value :
           /\ Alloc(f, x)
           /\ pte' = [pte EXCEPT ![child[p]][v] = f]
           /\ content' = [content EXCEPT ![f] = content[pte[p][v]]]
  /\ UNCHANGED <<root, table, breakVars, pc, todo, held, child, lost, calls, panicked>>

Copied(p) == Running(p, "fork") /\ TablesLeft(p) = {} /\ PagesLeft(p) = {}

\* A pid is free: the child gets the copy and the break and becomes ready.
ForkDone(p) ==
  /\ Copied(p)
  /\ heapBreak' = [heapBreak EXCEPT ![child[p]] = heapBreak[p]]
  /\ pc' = [pc EXCEPT ![p] = "user", ![child[p]] = "user"]
  /\ child' = [child EXCEPT ![p] = Nil]
  /\ UNCHANGED <<physVars, spaceVars, goal, todo, held, lost, calls, panicked>>

FramesOfSpace(q) ==
  ({root[q]} \cup {table[q][r] : r \in Region} \cup {pte[q][v] : v \in Page}) \ {Nil}

\* No pid is free: fork returns -1 and forgets the copy.
ForkFull(p) ==
  /\ Copied(p)
  /\ LET q == child[p]
     IN  /\ lost' = lost \cup FramesOfSpace(q)
         /\ root' = [root EXCEPT ![q] = Nil]
         /\ table' = [table EXCEPT ![q] = [r \in Region |-> Nil]]
         /\ pte' = [pte EXCEPT ![q] = [v \in Page |-> Nil]]
         /\ pc' = [pc EXCEPT ![p] = "user", ![q] = "none"]
  /\ child' = [child EXCEPT ![p] = Nil]
  /\ UNCHANGED <<physVars, breakVars, todo, held, panicked, calls>>

-----------------------------------------------------------------------------
(* exit: Thread::stop calls fini_thread.  The break is not used again.      *)

Exit(p) ==
  /\ Running(p, "user")
  /\ calls < MaxCalls
  /\ calls' = calls + 1
  /\ pc' = [pc EXCEPT ![p] = "exit"]
  /\ heapBreak' = [heapBreak EXCEPT ![p] = 0]
  /\ UNCHANGED <<physVars, spaceVars, goal, todo, held, child, lost, panicked>>

TablesToFree(p) == {r \in Region : table[p][r] # Nil}

PagesToFree(p) == {v \in Mapped(p) : RegionOf(v) = Min(TablesToFree(p))}

\* freeTableSubtree frees the pages of the first table left, clearing entries,
FreePage(p) ==
  /\ Running(p, "exit")
  /\ TablesToFree(p) # {}
  /\ PagesToFree(p) # {}
  /\ LET v == Min(PagesToFree(p))
     IN  Free(pte[p][v]) /\ pte' = [pte EXCEPT ![p][v] = Nil]
  /\ UNCHANGED <<content, root, table, breakVars, pc, todo, held, child, lost, calls, panicked>>

\* Seeded fault: the table is not freed.
FreeTableDropped(p) ==
  /\ Running(p, "exit")
  /\ TablesToFree(p) # {}
  /\ PagesToFree(p) = {}
  /\ table' = [table EXCEPT ![p][Min(TablesToFree(p))] = Nil]
  /\ UNCHANGED <<physVars, root, pte, breakVars, pc, todo, held, child, lost, calls, panicked>>

\* and then the table itself.
FreeTable(p) ==
  /\ Running(p, "exit")
  /\ TablesToFree(p) # {}
  /\ PagesToFree(p) = {}
  /\ LET r == Min(TablesToFree(p))
     IN  Free(table[p][r]) /\ table' = [table EXCEPT ![p][r] = Nil]
  /\ UNCHANGED <<content, root, pte, breakVars, pc, todo, held, child, lost, calls, panicked>>

\* The root is freed with the kernel's entries in its upper half.
FreeRoot(p) ==
  /\ Running(p, "exit")
  /\ TablesToFree(p) = {}
  /\ Free(root[p])
  /\ root' = [root EXCEPT ![p] = Nil]
  /\ pc' = [pc EXCEPT ![p] = "none"]
  /\ UNCHANGED <<content, table, pte, breakVars, todo, held, child, lost, calls, panicked>>

-----------------------------------------------------------------------------
(* PhysMem::alloc panics when there is no frame left.                      *)

Allocates(p) ==
  \/ pc[p] = "entry"
  \/ pc[p] = "map" /\ pte[p][NextPage(p)] = Nil
  \/ pc[p] = "fork" /\ ~Copied(p)
  \/ pc[p] = "user" /\ calls < MaxCalls /\ \E q \in Proc : pc[q] = "none"

AllocPanic(p) ==
  /\ ~panicked
  /\ OutOfFrames
  /\ Allocates(p)
  /\ panicked' = TRUE
  /\ UNCHANGED <<physVars, spaceVars, breakVars, pc, todo, held, child, lost, calls>>

-----------------------------------------------------------------------------
Step(p) ==
  \/ InitThread(p)
  \/ MapSkip(p) \/ MapPage(p) \/ MapHold(p) \/ MapTable(p) \/ UnmapPage(p)
  \/ \E v \in Page, x \in Value : UserStore(p, v, x)
  \/ \E b \in 1 .. MaxBreak : Brk(p, b)
  \/ \E q \in Proc : Fork(p, q)
  \/ ForkTable(p) \/ ForkPage(p) \/ ForkDone(p) \/ ForkFull(p)
  \/ Exit(p) \/ FreePage(p) \/ FreeTable(p) \/ FreeRoot(p)
  \/ AllocPanic(p)

VmmNext == \E p \in Proc : Step(p)

VmmSpec == VmmInit /\ [][VmmNext]_vmmVars

-----------------------------------------------------------------------------
(* Properties.                                                             *)

\* Type correctness; a range is dropped before it is empty.
VmmTypeOK ==
  /\ avail \in Seq(Frame)
  /\ free_ranges \in Seq([base: Nat, length: Nat \ {0}])
  /\ content \in [Frame -> Value]
  /\ root \in [Proc -> Frame \cup {Nil}]
  /\ table \in [Proc -> [Region -> Frame \cup {Nil}]]
  /\ pte \in [Proc -> [Page -> Frame \cup {Nil}]]
  /\ heapBreak \in [Proc -> 0 .. NPages * PageSize]
  /\ goal \in [Proc -> 0 .. NPages * PageSize]
  /\ pc \in [Proc -> {"none", "entry", "map", "unmap", "user", "fork", "copy", "exit"}]
  /\ todo \in [Proc -> Seq((0 .. NPages) \X (0 .. NPages))]
  /\ held \in [Proc -> Frame \cup {Nil}]
  /\ child \in [Proc -> Proc \cup {Nil}]
  /\ lost \subseteq Frame
  /\ calls \in 0 .. MaxCalls
  /\ panicked \in BOOLEAN

\* The places that can hold a frame, and the frame each holds.
Slot ==
  ({"avail"} \X DOMAIN avail) \cup ({"root", "held"} \X Proc)
    \cup ({"table"} \X (Proc \X Region)) \cup ({"page"} \X (Proc \X Page))

HeldBy(s) ==
  CASE s[1] = "avail" -> avail[s[2]]
    [] s[1] = "root"  -> root[s[2]]
    [] s[1] = "held"  -> held[s[2]]
    [] s[1] = "table" -> table[s[2][1]][s[2][2]]
    [] s[1] = "page"  -> pte[s[2][1]][s[2][2]]

InUse == {s \in Slot : HeldBy(s) # Nil}

\* A frame is on the list of freed frames, not yet allocated, forgotten, or in
\* one place of one address space, and never in two of these: no frame is freed
\* twice, handed out while in use, or both a page and a table.
OneOwner ==
  /\ \A s, t \in InUse : s # t => HeldBy(s) # HeldBy(t)
  /\ \A s \in InUse : HeldBy(s) \notin lost \cup FramesIn(free_ranges)
  /\ lost \cap FramesIn(free_ranges) = {}

\* Every frame is accounted for: unmapping, exit and fork give back or pass on all
\* they hold, but for the copies dropped by a fork that finds no pid.
NoFrameLost == Frame = {HeldBy(s) : s \in InUse} \cup FramesIn(free_ranges) \cup lost

\* Whenever a process runs, the pages of its heap are mapped if they start below
\* its break, and not otherwise, whatever it passed to brk: the last one is there
\* even if the break is in the middle of it.
BreakMapped ==
  \A p \in Proc : pc[p] = "user" =>
     \A v \in Page : v * PageSize \in HeapStart .. MaxBreak - 1 =>
        (v \in Mapped(p) <=> v * PageSize < heapBreak[p])

\* What each process finds at its pages.
SpaceOf(p) ==
  [v \in Page |-> IF pc[p] \in {"none", "copy"} \/ pte[p][v] = Nil
                  THEN Nil ELSE content[pte[p][v]]]

Spaces == INSTANCE AddressSpaces WITH
  Unmapped <- Nil, space <- [p \in Proc |-> SpaceOf(p)]

\* Page tables over recycled frames implement separate address spaces: a store is
\* seen by one process only, and a child starts with all its parent's pages.
ImplementsSpaces == Spaces!SpacesSpec
=============================================================================
