-------------------------------- MODULE Heap --------------------------------
(***************************************************************************)
(* The kernel heap, heap.cc: blocks with a header and a footer word that   *)
(* hold the size and a taken bit, and a doubly linked list of the          *)
(* available ones.  malloc and free hold theLock, a BlockingLock, so each  *)
(* is one step.  A state of the heap is a record [array, avail]; the       *)
(* operators below take one and return the next.                           *)
(***************************************************************************)
EXTENDS Integers, Sequences, SequencesExt, FiniteSets, FiniteSetsExt

CONSTANTS
  Bytes,      \* the size passed to heap::init, counted from an aligned base
  Request,    \* the sizes passed to malloc
  CountDown   \* how many blocks that fit malloc looks at, 20 in the code

ASSUME HeapAssumption ==
  /\ Bytes \in Nat /\ Bytes > 64
  /\ Request \subseteq Nat \ {0}
  /\ CountDown \in Nat \ {0}

len == (Bytes \div 16) * 2

Index == 0 .. len - 1

Junk == -1    \* what the user of a block has written

VARIABLES
  heap,       \* array and avail
  blocks      \* what malloc has returned and free has not been given

heapVars == <<heap, blocks>>

-----------------------------------------------------------------------------
IsTaken(h, i) == h.array[i] % 2 = 1

IsAvail(h, i) == h.array[i] % 2 = 0

Size(h, i) == (h.array[i] \div 2) * 2

Left(h, i) == i - Size(h, i - 1)

Right(h, i) == i + Size(h, i)

NextOf(h, i) == h.array[i + 1]

PrevOf(h, i) == h.array[i + 2]

Set(h, i, x) == [h EXCEPT !.array[i] = x]

\* A block of n words at i bounded by x; what lies between no longer counts.
Bound(h, i, n, x) ==
  [h EXCEPT !.array = [j \in Index |-> IF j \in {i, i + n - 1} THEN x
                                       ELSE IF j \in i + 1 .. i + n - 2 THEN Junk
                                       ELSE @[j]]]

\* Take block i out of the list.
Unlink(h, i) ==
  LET p  == PrevOf(h, i)
      n  == NextOf(h, i)
      h1 == IF p = 0 THEN [h EXCEPT !.avail = n] ELSE Set(h, p + 1, n)
  IN  IF n # 0 THEN Set(h1, n + 2, p) ELSE h1

\* Block i of n words becomes available and the first of the list.
MakeAvail(h, i, n) ==
  LET h1 == Set(Set(Bound(h, i, n, n), i + 1, h.avail), i + 2, 0)
      h2 == IF h.avail # 0 THEN Set(h1, h.avail + 2, i) ELSE h1
  IN  [h2 EXCEPT !.avail = i]

\* Block i of n words is taken; its user may overwrite what lies between.
MakeTaken(h, i, n) == Bound(h, i, n, n + 1)

NoHeap == [array |-> <<>>, avail |-> 0]

HeapInit == heap = NoHeap /\ blocks = {}

\* heap::init: an available block between two taken ones.
SetUp ==
  /\ heap = NoHeap
  /\ LET raw == [array |-> [i \in Index |-> Junk], avail |-> 0]
     IN  heap' = MakeTaken(MakeAvail(MakeTaken(raw, 0, 2), 2, len - 4), len - 2, 2)
  /\ UNCHANGED blocks

-----------------------------------------------------------------------------
(* malloc.                                                                 *)

\* Header and footer are added; a block is even and holds the two links.
Entries(bytes) ==
  LET n == (bytes + 7) \div 8 + 2
      m == IF n < 4 THEN 4 ELSE n
  IN  m + (m % 2)

\* The list from avail on, at most len blocks of it.
List(h) ==
  LET walk[n \in 0 .. len] ==
        IF n = 0 THEN <<>>
        ELSE LET s == walk[n - 1]
                 x == IF s = <<>> THEN h.avail ELSE NextOf(h, Last(s))
             IN  IF x = 0 \/ Len(s) < n - 1 THEN s ELSE Append(s, x)
  IN  walk[len]

\* The block the search settles on: the first smallest one that fits among those
\* seen before an exact fit or the CountDown-th fit ends it; 0 if none fits.
BestFit(h, entries) ==
  LET s     == List(h)
      Fits  == {k \in DOMAIN s : Size(h, s[k]) >= entries}
      Ends  == {k \in Fits : \/ Size(h, s[k]) = entries
                             \/ Cardinality({j \in Fits : j <= k}) = CountDown}
      Seen  == {k \in Fits : \A e \in Ends : k <= e}
      Least == {k \in Seen : \A j \in Seen : Size(h, s[k]) <= Size(h, s[j])}
  IN  IF Seen = {} THEN 0 ELSE s[Min(Least)]

\* Seeded fault: the rest is cut off although it cannot hold the links.
TakeAndSplitAlways(h, i, entries) ==
  LET extra == Size(h, i) - entries
      h1    == Unlink(h, i)
  IN  IF extra > 0 THEN MakeAvail(MakeTaken(h1, i, entries), i + entries, extra)
                   ELSE MakeTaken(h1, i, Size(h, i))

\* The block is taken, and what is left of it, if it can hold a block, available.
TakeAndSplit(h, i, entries) ==
  LET extra == Size(h, i) - entries
      h1    == Unlink(h, i)
  IN  IF extra >= 4 THEN MakeAvail(MakeTaken(h1, i, entries), i + entries, extra)
                    ELSE MakeTaken(h1, i, Size(h, i))

Malloc(bytes) ==
  LET entries == Entries(bytes)
      it      == BestFit(heap, entries)
  IN  /\ heap # NoHeap
      /\ it # 0
      /\ heap' = TakeAndSplit(heap, it, entries)
      /\ blocks' = blocks \cup {[at |-> it + 1, bytes |-> bytes]}

-----------------------------------------------------------------------------
(* free.  The pointer is one malloc has returned.                          *)

\* Seeded fault: only the right neighbour is joined.
MergeRightOnly(h, i) ==
  LET r  == Right(h, i)
      h1 == IF IsAvail(h, r) THEN Unlink(h, r) ELSE h
  IN  MakeAvail(h1, i, Size(h, i) + IF IsAvail(h, r) THEN Size(h, r) ELSE 0)

\* Seeded fault: the size of the right neighbour is added outside of the test.
MergeUntested(h, i) ==
  LET l  == Left(h, i)
      r  == Right(h, i)
      h1 == IF IsAvail(h, l) THEN Unlink(h, l) ELSE h
      h2 == IF IsAvail(h1, r) THEN Unlink(h1, r) ELSE h1
  IN  MakeAvail(h2, IF IsAvail(h, l) THEN l ELSE i,
                Size(h, i) + (IF IsAvail(h, l) THEN Size(h, l) ELSE 0) + Size(h, r))

\* The block joins the available ones beside it.
Merge(h, i) ==
  LET l  == Left(h, i)
      r  == Right(h, i)
      h1 == IF IsAvail(h, l) THEN Unlink(h, l) ELSE h
      h2 == IF IsAvail(h1, r) THEN Unlink(h1, r) ELSE h1
  IN  MakeAvail(h2, IF IsAvail(h, l) THEN l ELSE i,
                Size(h, i) + (IF IsAvail(h, l) THEN Size(h, l) ELSE 0)
                           + (IF IsAvail(h, r) THEN Size(h, r) ELSE 0))

FreeBlock(b) ==
  /\ heap' = Merge(heap, b.at - 1)
  /\ blocks' = blocks \ {b}

HeapNext ==
  \/ SetUp
  \/ \E n \in Request : Malloc(n)
  \/ \E b \in blocks : FreeBlock(b)

HeapSpec == HeapInit /\ [][HeapNext]_heapVars

-----------------------------------------------------------------------------
(* Properties.                                                             *)

\* The headers met when the arena is walked from left to right.
Headers ==
  LET walk[n \in 0 .. len] ==
        IF n = 0 THEN {0}
        ELSE LET w == walk[n - 1]
                 i == Max(w)
             IN  IF i \notin Index \/ Size(heap, i) <= 0 THEN w
                 ELSE w \cup {i + Size(heap, i)}
  IN  walk[len]

\* The arena is cut into blocks without gap or overlap, header and footer agree
\* everywhere, no two available blocks lie side by side (sanity never panics), and
\* the list holds every available block once and is linked the same way in both
\* directions, however blocks were split, joined and taken out of its middle.
HeapWellFormed == heap # NoHeap =>
  LET s == List(heap) IN
  /\ Max(Headers) = len
  /\ \A i \in Headers \ {len} :
        /\ heap.array[i] = heap.array[i + Size(heap, i) - 1]
        /\ IsAvail(heap, i) => Size(heap, i) >= 4 /\ IsTaken(heap, Right(heap, i))
  /\ ToSet(s) = {i \in Headers \ {len} : IsAvail(heap, i)}
  /\ IsInjective(s)
  /\ \A k \in DOMAIN s : PrevOf(heap, s[k]) = IF k = 1 THEN 0 ELSE s[k - 1]

\* malloc fails only if no run of free words is long enough: joining on free
\* leaves no request unserved that some order of frees would have served.
FailsOnlyWhenFull == heap # NoHeap =>
  \A n \in Request : BestFit(heap, Entries(n)) = 0 =>
     \A i \in Index : \E j \in i .. i + Entries(n) - 1 :
        \/ j \notin Index
        \/ \E h \in Headers \ {len} : IsTaken(heap, h) /\ j \in h .. Right(heap, h) - 1

Abstract == INSTANCE Allocator WITH Word <- Index

\* The blocks handed out never overlap, whatever was freed in between.
ImplementsAllocator == Abstract!AllocatorSpec
=============================================================================
