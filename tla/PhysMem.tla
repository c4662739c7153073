------------------------------ MODULE PhysMem ------------------------------
(***************************************************************************)
(* The frame allocator, physmem.cc.  alloc and free hold PhysMem::lock, so *)
(* each is one step.  A frame is named by its number.                      *)
(***************************************************************************)
EXTENDS Integers, Sequences, SequencesExt, FiniteSets

CONSTANTS
  Usable,    \* the usable ranges of the boot loader's memory map, in frames
  Value,     \* what a frame can hold
  Zero,      \* no word of the frame has the bit that makes an entry present
  Dirty     \* some words look like present page table entries

FramesOf(range) == range.base .. range.base + range.length - 1

\* The usable ranges of the memory map do not overlap.
ASSUME PhysMemAssumption ==
  /\ Usable \in Seq([base: Nat, length: Nat \ {0}])
  /\ \A i, j \in DOMAIN Usable : i # j => FramesOf(Usable[i]) \cap FramesOf(Usable[j]) = {}
  /\ {Zero, Dirty} \subseteq Value
  /\ Zero # Dirty

FramesIn(s) == UNION {FramesOf(s[i]) : i \in DOMAIN s}

Frame == FramesIn(Usable)

VARIABLES
  avail,       \* the freed frames, last freed first; the link is in word 0
  free_ranges, \* the ranges never allocated from, or only in part
  content      \* what each frame holds

physVars == <<avail, free_ranges, content>>

\* The boot loader leaves anything in the frames.
PhysInit ==
  /\ avail = <<>>
  /\ free_ranges = Reverse(Usable)
  /\ content = [f \in Frame |-> Dirty]

OutOfFrames == avail = <<>> /\ free_ranges = <<>>

\* A frame is cut off the first range and the range dropped when it is empty.
CutFrame ==
  LET range == [base   |-> Head(free_ranges).base + 1,
                length |-> Head(free_ranges).length - 1]
  IN  IF range.length = 0 THEN Tail(free_ranges)
                          ELSE <<range>> \o Tail(free_ranges)

\* alloc returns f.  A freed frame comes as it was left, a new one cleared;
\* x is what f then holds.
Alloc(f, x) ==
  \/ /\ avail # <<>>
     /\ f = Head(avail)
     /\ x = content[f]
     /\ avail' = Tail(avail)
     /\ UNCHANGED free_ranges
  \/ /\ avail = <<>>
     /\ free_ranges # <<>>
     /\ f = Head(free_ranges).base
     /\ x = Zero
     /\ free_ranges' = CutFrame
     /\ UNCHANGED avail

\* free writes the link into word 0, whose low bits are 0: a frame in which no
\* word looked present stays one.
Free(f) ==
  /\ avail' = <<f>> \o avail
  /\ UNCHANGED free_ranges
=============================================================================
