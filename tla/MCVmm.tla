------------------------------- MODULE MCVmm -------------------------------
(* Instance of Vmm for TLC. *)
EXTENDS Vmm, TLC

\* Two ranges, so that one is used up.
MCUsable == <<[base |-> 3, length |-> 9], [base |-> 0, length |-> 3]>>

\* Two segments in page 1, one of no size, and a header of another type.
MCPhdrs ==
  <<[type |-> 1, vaddr |-> 2, memsz |-> 1], [type |-> 1, vaddr |-> 3, memsz |-> 0],
    [type |-> 2, vaddr |-> 9, memsz |-> 1], [type |-> 1, vaddr |-> 3, memsz |-> 1]>>

Symmetry == Permutations(Proc)
=============================================================================
