----------------------------- MODULE Allocator -----------------------------
(***************************************************************************)
(* What malloc and free promise: a block in use overlaps no other one, and *)
(* only free ends it.                                                      *)
(***************************************************************************)
EXTENDS Integers

CONSTANTS Word, Request   \* word indices of the arena, requests in bytes

VARIABLE blocks           \* the blocks in use, [at, bytes]

\* The words of a block that its owner may use.
Words(b) == b.at .. b.at + (b.bytes + 7) \div 8 - 1

AllocatorInit == blocks = {}

Allocate(b) ==
  /\ Words(b) \subseteq Word
  /\ \A c \in blocks : Words(b) \cap Words(c) = {}
  /\ blocks' = blocks \cup {b}

Release(b) == blocks' = blocks \ {b}

AllocatorNext ==
  \/ \E at \in Word, n \in Request : Allocate([at |-> at, bytes |-> n])
  \/ \E b \in blocks : Release(b)

AllocatorSpec == AllocatorInit /\ [][AllocatorNext]_blocks
=============================================================================
