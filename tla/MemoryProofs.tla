---------------------------- MODULE MemoryProofs ----------------------------
(***************************************************************************)
(* Ranges of pages, of heap words and of bytes: the mappings of processes  *)
(* first, then the kernel heap, then the reads of files.                   *)
(*                                                                         *)
(* mmap, munmap, fork, page faults and is_user_range_mapped are right for  *)
(* every number of processes and calls, every page size and area.  A list  *)
(* of VMEs is described by its order (Sorted) and by what it covers        *)
(* (Shows); the first lemmas show what InsertAt, Leftovers and FlattenSeq  *)
(* make of such a list, the last one by induction on its length.           *)
(*                                                                         *)
(* malloc and free keep the heap well formed, fail only when they must and *)
(* hand out no word twice, for every size of the arena, every set of       *)
(* requests and every limit of the search.  The heap is described by its   *)
(* headers H and by its list s (Arena), but for the blocks U that an       *)
(* operation is working on; one lemma says what each store of malloc and   *)
(* free makes of such a heap, and the two walks are shown to find H and s. *)
(*                                                                         *)
(* A read delivers the bytes of its file in order for every image and all  *)
(* sizes of blocks.  read_all is right for each of its devices (Delivers   *)
(* says what read_block must do for that): for the disk by its definition, *)
(* for a file since the numbers in its node and its indirect block are     *)
(* those of its blocks.                                                    *)
(***************************************************************************)
EXTENDS Mappings, Heap, Files, FiniteSetTheorems, SequenceTheorems, WellFoundedInduction, TLAPS

Vme == [start : Int, end : Int, node : {w.node : w \in What}, offset : Int]

\* The VMEs of a list lie between lo and hi, in ascending order and apart.
Sorted(list, lo, hi) ==
  /\ list \in Seq(Vme)
  /\ \A k \in 1..Len(list) :
       lo <= list[k].start /\ list[k].start < list[k].end /\ list[k].end <= hi
  /\ \A j, k \in 1..Len(list) : j < k => list[j].end <= list[k].start

\* They cover the pages that were asked for and fill them as asked.
Shows(list, pages) ==
  /\ DOMAIN pages \subseteq Int
  /\ \A g \in Int : g \in DOMAIN pages <=> \E k \in 1..Len(list) : Covers(list[k], g)
  /\ \A k \in 1..Len(list) : \A g \in Int :
       Covers(list[k], g) => PageFrom(list[k], g) = pages[g]

\* Every page of f is asked for and shows what was asked for.
Agrees(f, pages) == \A g \in DOMAIN f : g \in DOMAIN pages /\ f[g] = pages[g]

\* The record of an access that is under way.
IsAccess(a) ==
  a \in [at : {"ensure", "recheck", "map", "yes", "no"}, page : Int, last : Int,
         from : {a.from}, range : {a.range}]

\* An access works its way through the pages of its range: those behind it are present,
\* and what it is about to map is what was asked for.
AccessOf(p, a) ==
  \/ a = NoAccess
  \/ /\ p \in running
     /\ IsAccess(a) /\ a.page <= a.last
     /\ a.at \in {"recheck", "map"} =>
          \/ a.page \in DOMAIN asked[p] /\ a.from = asked[p][a.page]
          \/ a.page \in DOMAIN askedShared /\ a.from = askedShared[a.page]
     /\ a.at = "no" => a.page \notin DOMAIN asked[p]
     /\ a.at = "yes" => a.page = a.last /\ IsPresent(p, a.page)
     /\ \A r \in a.range :
          /\ r \in [start : Nat, size : Nat \ {0}]
          /\ FirstPage(r) <= a.page /\ a.last = LastPage(r)
          /\ \A g \in FirstPage(r)..(a.page - 1) : IsPresent(p, g)

MapTypes ==
  /\ calls \in Nat /\ running \subseteq Space
  /\ running # {} => calls > 0
  /\ privateVmes = [p \in Space |-> privateVmes[p]]
  /\ present = [p \in Space |-> present[p]]
  /\ access = [p \in Space |-> access[p]]
  /\ asked = [p \in Space |-> asked[p]]

\* The private mappings of a process.
SpaceInv(p) ==
  /\ Sorted(privateVmes[p], 1, PrivateEnd)
  /\ Shows(privateVmes[p], asked[p])
  /\ Agrees(present[p], asked[p])

\* The shared mappings.  Their pages outlive the list, but no process is there to see
\* them then.
SharedInv ==
  /\ Sorted(sharedVmes, SharedStart, SharedEnd)
  /\ Shows(sharedVmes, askedShared)
  /\ Agrees(kernelHalf, askedShared) \/ (running = {} /\ calls > 0 /\ askedShared = NoPages)

MapInv ==
  /\ MapTypes
  /\ \A p \in Space : SpaceInv(p) /\ AccessOf(p, access[p])
  /\ SharedInv

-----------------------------------------------------------------------------
\* A set of natural numbers has a least one.
LEMMA LeastNumber ==
  ASSUME NEW T, T \subseteq Nat, T # {}
  PROVE  \E x \in T : \A y \in T : x <= y
  <1>1. IsWellFoundedOn(OpToRel(<, Nat), Nat)
    BY NatLessThanWellFounded, Zenon
  <1>2. PICK x \in T : \A y \in T : ~(<<y, x>> \in OpToRel(<, Nat))
    <2>1. \E x \in T : \A y \in T : ~(<<y, x>> \in OpToRel(<, Nat))
      BY <1>1, WFMin, Zenon
    <2> QED BY <2>1
  <1>3. ASSUME NEW y \in T PROVE x <= y
    <2>1. x \in Nat /\ y \in Nat
      OBVIOUS
    <2>2. ~(y < x)
      BY <1>2, <2>1, Zenon DEF OpToRel
    <2> QED BY <2>1, <2>2
  <1> QED BY <1>3

\* Induction up to N: a set that has 0 and with each number below N the next one has
\* all numbers up to N.
LEMMA UpTo ==
  ASSUME NEW N \in Nat, NEW S, 0 \in S, \A n \in 0..(N - 1) : n \in S => n + 1 \in S
  PROVE  \A n \in 0..N : n \in S
  <1> SUFFICES ASSUME NEW x \in 0..N, x \notin S PROVE FALSE
    OBVIOUS
  <1> DEFINE T == {n \in 0..N : n \notin S}
  <1>1. T \subseteq Nat /\ T # {}
    OBVIOUS
  <1>2. PICK n \in T : \A m \in T : n <= m
    BY <1>1, LeastNumber
  <1>3. n # 0 /\ n - 1 \in 0..(N - 1) /\ n - 1 \notin T
    BY <1>2
  <1>4. n - 1 \in S /\ (n - 1) + 1 = n
    BY <1>3
  <1> QED BY <1>3, <1>4

\* The quotient of a number of bytes and the frame size.
LEMMA Quotient ==
  ASSUME NEW a \in Nat
  PROVE  /\ a \div FRAME_SIZE \in Nat
         /\ (a \div FRAME_SIZE) * FRAME_SIZE <= a
         /\ a < (a \div FRAME_SIZE) * FRAME_SIZE + FRAME_SIZE
  <1>1. FRAME_SIZE \in Nat /\ FRAME_SIZE >= 1
    BY MappingsAssumption
  <1>2. PICK q \in Int : q = a \div FRAME_SIZE
    BY <1>1
  <1>3. q * FRAME_SIZE <= a /\ a < q * FRAME_SIZE + FRAME_SIZE
    BY <1>1, <1>2
  <1>4. q >= 0
    BY <1>1, <1>3
  <1> QED BY <1>2, <1>3, <1>4

\* A page holds the bytes from its start up to the start of the next one.
LEMMA PageOfByte ==
  ASSUME NEW b \in Nat, NEW g \in Int
  PROVE  /\ g * FRAME_SIZE <= b <=> g <= b \div FRAME_SIZE
         /\ b < g * FRAME_SIZE <=> b \div FRAME_SIZE < g
  <1>1. FRAME_SIZE \in Nat /\ FRAME_SIZE >= 1
    BY MappingsAssumption
  <1>2. PICK q \in Int : q = b \div FRAME_SIZE /\ q * FRAME_SIZE <= b /\ b < q * FRAME_SIZE + FRAME_SIZE
    BY Quotient
  <1>3. g * FRAME_SIZE \in Int /\ q * FRAME_SIZE \in Int
    BY <1>1
  <1>4. CASE g <= q
    <2>1. (q - g) * FRAME_SIZE >= 0
      BY <1>1, <1>4
    <2>2. q * FRAME_SIZE >= g * FRAME_SIZE
      BY <1>1, <2>1
    <2> QED BY <1>2, <1>3, <1>4, <2>2
  <1>5. CASE ~(g <= q)
    <2>1. (g - q - 1) * FRAME_SIZE >= 0
      BY <1>1, <1>5
    <2>2. g * FRAME_SIZE >= q * FRAME_SIZE + FRAME_SIZE
      BY <1>1, <2>1
    <2>3. PICK x \in Int, y \in Int : x = g * FRAME_SIZE /\ y = q * FRAME_SIZE
      BY <1>3
    <2>4. b < x /\ ~(x <= b)
      BY <1>1, <1>2, <2>2, <2>3
    <2> QED BY <1>2, <1>5, <2>3, <2>4
  <1> QED BY <1>4, <1>5

\* A range has bytes on the pages from its first to its last and on no other.
LEMMA RangePages ==
  ASSUME NEW r \in [start : Nat, size : Nat \ {0}]
  PROVE  /\ FirstPage(r) \in Nat /\ LastPage(r) \in Nat /\ FirstPage(r) <= LastPage(r)
         /\ \A b \in r.start..(r.start + r.size - 1) :
              b \div FRAME_SIZE \in FirstPage(r)..LastPage(r)
         /\ \A g \in FirstPage(r)..LastPage(r) :
              \E b \in r.start..(r.start + r.size - 1) : b \div FRAME_SIZE = g
  <1> DEFINE s == r.start
             e == r.start + r.size - 1
  <1>1. s \in Nat /\ e \in Nat /\ s <= e /\ FRAME_SIZE \in Nat
    BY MappingsAssumption
  <1>2. /\ FirstPage(r) = s \div FRAME_SIZE /\ LastPage(r) = e \div FRAME_SIZE
        /\ FirstPage(r) \in Nat /\ LastPage(r) \in Nat
    BY <1>1, Quotient DEF FirstPage, LastPage
  <1> HIDE DEF s, e
  <1>3. ASSUME NEW b \in s..e PROVE b \div FRAME_SIZE \in FirstPage(r)..LastPage(r)
    <2>1. b \in Nat /\ b \div FRAME_SIZE \in Nat
      BY <1>1, Quotient
    <2>2. FirstPage(r) * FRAME_SIZE <= s /\ FirstPage(r) * FRAME_SIZE \in Int
      BY <1>1, <1>2, Quotient
    <2>3. FirstPage(r) <= b \div FRAME_SIZE
      BY <1>1, <1>2, <2>1, <2>2, PageOfByte
    <2>4. (b \div FRAME_SIZE) * FRAME_SIZE <= b /\ (b \div FRAME_SIZE) * FRAME_SIZE \in Int
      BY <1>1, <2>1, Quotient
    <2>5. b \div FRAME_SIZE <= LastPage(r)
      BY <1>1, <1>2, <2>1, <2>4, PageOfByte
    <2> QED BY <1>2, <2>1, <2>3, <2>5
  <1>4. FirstPage(r) <= LastPage(r)
    BY <1>1, <1>2, <1>3
  <1>5. ASSUME NEW g \in FirstPage(r)..LastPage(r)
        PROVE  \E b \in s..e : b \div FRAME_SIZE = g
    <2>1. CASE g = FirstPage(r)
      BY <1>1, <1>2, <2>1
    <2>2. CASE g # FirstPage(r)
      <3>1. g \in Nat /\ FirstPage(r) < g /\ g <= LastPage(r)
        BY <1>2, <2>2
      <3>2. s < g * FRAME_SIZE /\ g * FRAME_SIZE <= e /\ g * FRAME_SIZE \in Int
        BY <1>1, <1>2, <3>1, PageOfByte
      <3>3. (g * FRAME_SIZE) \div FRAME_SIZE = g
        <4>1. g * FRAME_SIZE \in Nat /\ (g * FRAME_SIZE) \div FRAME_SIZE \in Nat
          BY <1>1, <3>1, Quotient
        <4>2. g <= (g * FRAME_SIZE) \div FRAME_SIZE
          BY <3>1, <4>1, PageOfByte
        <4>3. g * FRAME_SIZE < (g + 1) * FRAME_SIZE
          BY <3>1, MappingsAssumption
        <4>4. (g * FRAME_SIZE) \div FRAME_SIZE < g + 1
          BY <3>1, <4>1, <4>3, PageOfByte
        <4> QED BY <3>1, <4>1, <4>2, <4>4
      <3> QED BY <1>1, <3>2, <3>3
    <2> QED BY <2>1, <2>2
  <1> QED BY <1>2, <1>3, <1>4, <1>5 DEF s, e

\* A length that is not zero takes at least a page.
LEMMA SomePages == ASSUME NEW b \in MapLen PROVE PagesOf(b) \in Nat \ {0}
  <1>1. b \in Nat /\ b >= 1 /\ FRAME_SIZE \in Nat /\ FRAME_SIZE >= 1
    BY MappingsAssumption
  <1>2. b + FRAME_SIZE - 1 \in Nat
    BY <1>1
  <1>3. 1 * FRAME_SIZE <= b + FRAME_SIZE - 1
    BY <1>1
  <1> QED BY <1>2, <1>3, Quotient, PageOfByte DEF PagesOf

-----------------------------------------------------------------------------
(***************************************************************************)
(* What mmap makes of a list.                                              *)
(***************************************************************************)

\* The fields of a VME are numbers.
LEMMA VmeFields == \A m \in Vme : m.start \in Int /\ m.end \in Int /\ m.offset \in Int
  BY DEF Vme

\* The same for those of a list.
LEMMA ListFields ==
  ASSUME NEW list \in Seq(Vme)
  PROVE  /\ Len(list) \in Nat /\ DOMAIN list = 1..Len(list)
         /\ \A i \in 1..Len(list) :
              /\ list[i] \in Vme
              /\ list[i].start \in Int /\ list[i].end \in Int /\ list[i].offset \in Int
  <1>1. Len(list) \in Nat /\ DOMAIN list = 1..Len(list) /\ \A i \in 1..Len(list) : list[i] \in Vme
    OBVIOUS
  <1> QED BY <1>1, VmeFields

\* What it means for a list to be sorted.
LEMMA SortedFacts ==
  ASSUME NEW list, NEW lo, NEW hi, Sorted(list, lo, hi)
  PROVE  /\ list \in Seq(Vme) /\ Len(list) \in Nat
         /\ \A i \in 1..Len(list) : list[i].start \in Int /\ list[i].end \in Int
         /\ \A i \in 1..Len(list) :
              lo <= list[i].start /\ list[i].start < list[i].end /\ list[i].end <= hi
         /\ \A i, j \in 1..Len(list) : i < j => list[i].end <= list[j].start
  <1>1. list \in Seq(Vme)
    BY DEF Sorted
  <1>2. /\ \A i \in 1..Len(list) :
              lo <= list[i].start /\ list[i].start < list[i].end /\ list[i].end <= hi
        /\ \A i, j \in 1..Len(list) : i < j => list[i].end <= list[j].start
    BY DEF Sorted
  <1> QED BY <1>1, <1>2, ListFields

\* The search ends at a place where the new mapping fits: before the next VME, or
\* behind the last.
LEMMA GapFits ==
  ASSUME NEW list \in Seq(Vme), NEW lo \in Int, NEW n \in Nat \ {0}
  PROVE  /\ Gap(list, lo, n) \in 1..(Len(list) + 1)
         /\ Gap(list, lo, n) <= Len(list) =>
              Candidate(list, lo, Gap(list, lo, n)) + n <= list[Gap(list, lo, n)].start
  <1> DEFINE Fits(k) == k <= Len(list) => Candidate(list, lo, k) + n <= list[k].start
             T == {k \in 1..(Len(list) + 1) : Fits(k)}
  <1>1. Len(list) \in Nat /\ Len(list) + 1 \in T
    OBVIOUS
  <1>2. T \subseteq Nat /\ T # {}
    BY <1>1
  <1>3. PICK k \in T : \A j \in T : k <= j
    BY <1>2, LeastNumber
  <1>4. ASSUME NEW j \in 1..(k - 1) PROVE Candidate(list, lo, j) + n > list[j].start
    <2>1. j \in 1..Len(list) /\ k \in Nat /\ j < k
      BY <1>1, <1>3
    <2>2. j \notin T
      BY <1>3, <2>1
    <2>3. list[j].start \in Int
      BY <2>1, ListFields
    <2>4. Candidate(list, lo, j) \in Int
      <3>1. j # 1 => j - 1 \in 1..Len(list)
        BY <1>1, <2>1
      <3> QED BY <3>1, ListFields DEF Candidate
    <2> QED BY <2>1, <2>2, <2>3, <2>4
  <1> HIDE DEF T
  <1>5. \E j \in 1..(Len(list) + 1) :
           /\ Fits(j)
           /\ \A i \in 1..(j - 1) : Candidate(list, lo, i) + n > list[i].start
    BY <1>3, <1>4 DEF T
  <1> QED BY <1>5 DEF Gap

\* new is list with m put in at place k.
IsInserted(new, list, k, m) ==
  /\ new \in Seq(Vme)
  /\ Len(new) = Len(list) + 1
  /\ \A i \in 1..(k - 1) : new[i] = list[i]
  /\ new[k] = m
  /\ \A i \in k..Len(list) : new[i + 1] = list[i]

\* What InsertAt does to a sequence, place by place.
LEMMA Inserted ==
  ASSUME NEW list \in Seq(Vme), NEW k \in 1..(Len(list) + 1), NEW m \in Vme
  PROVE  IsInserted(InsertAt(list, k, m), list, k, m)
  <1> DEFINE a == SubSeq(list, 1, k - 1)
             b == SubSeq(list, k, Len(list))
  <1>1. Len(list) \in Nat /\ k \in Nat
    OBVIOUS
  <1>2. a \in Seq(Vme) /\ Len(a) = k - 1 /\ \A i \in 1..(k - 1) : a[i] = list[i]
    BY <1>1
  <1>3. /\ b \in Seq(Vme) /\ Len(b) = Len(list) - k + 1
        /\ \A i \in 1..(Len(list) - k + 1) : b[i] = list[k + i - 1]
    BY <1>1
  <1>4. <<m>> \in Seq(Vme) /\ Len(<<m>>) = 1 /\ <<m>>[1] = m
    OBVIOUS
  <1> DEFINE am == a \o <<m>>
  <1> HIDE DEF a, b
  <1>5. /\ am \in Seq(Vme) /\ Len(am) = k
        /\ \A i \in 1..k : am[i] = IF i < k THEN list[i] ELSE m
    BY <1>1, <1>2, <1>4
  <1> HIDE DEF am
  <1>6. /\ am \o b \in Seq(Vme) /\ Len(am \o b) = Len(list) + 1
        /\ \A i \in 1..(Len(list) + 1) :
             (am \o b)[i] = IF i <= k THEN am[i] ELSE b[i - k]
    <2>1. am \in Seq(Vme) /\ b \in Seq(Vme) /\ Len(am) = k /\ Len(am) + Len(b) = Len(list) + 1
      BY <1>1, <1>3, <1>5
    <2>2. /\ am \o b \in Seq(Vme) /\ Len(am \o b) = Len(am) + Len(b)
          /\ \A i \in 1..(Len(am) + Len(b)) :
               (am \o b)[i] = IF i <= Len(am) THEN am[i] ELSE b[i - Len(am)]
      BY <2>1, ConcatProperties
    <2> QED BY <2>1, <2>2
  <1>7. InsertAt(list, k, m) = am \o b
    BY DEF InsertAt, a, b, am
  <1>8. \A i \in 1..(k - 1) : (am \o b)[i] = list[i]
    BY <1>1, <1>5, <1>6
  <1>9. (am \o b)[k] = m
    BY <1>1, <1>5, <1>6
  <1>10. ASSUME NEW i \in k..Len(list) PROVE (am \o b)[i + 1] = list[i]
    <2>1. /\ i + 1 \in 1..(Len(list) + 1) /\ ~(i + 1 <= k)
          /\ (i + 1) - k \in 1..(Len(list) - k + 1) /\ k + ((i + 1) - k) - 1 = i
      BY <1>1
    <2>2. (am \o b)[i + 1] = b[(i + 1) - k]
      BY <1>6, <2>1
    <2> QED BY <1>3, <2>1, <2>2
  <1> QED BY <1>6, <1>7, <1>8, <1>9, <1>10 DEF IsInserted

\* The new VME lies apart from the others, in its place of the order.
LEMMA MmapSorted ==
  ASSUME NEW list, NEW lo \in Int, NEW hi \in Int, Sorted(list, lo, hi), NEW n \in Nat \ {0},
         NEW w \in What, NEW m, m = NewVme(list, lo, n, w.node, w.offset), m.end <= hi
  PROVE  /\ m \in Vme /\ m.start < m.end /\ lo <= m.start
         /\ \A i \in 1..Len(list) : list[i].end <= m.start \/ m.end <= list[i].start
         /\ Sorted(InsertAt(list, Gap(list, lo, n), m), lo, hi)
  <1> DEFINE k == Gap(list, lo, n)
             s == Candidate(list, lo, k)
             new == InsertAt(list, k, m)
  <1>1. /\ list \in Seq(Vme) /\ Len(list) \in Nat
        /\ \A i \in 1..Len(list) : list[i].start \in Int /\ list[i].end \in Int
        /\ \A i \in 1..Len(list) :
             lo <= list[i].start /\ list[i].start < list[i].end /\ list[i].end <= hi
        /\ \A i, j \in 1..Len(list) : i < j => list[i].end <= list[j].start
    BY SortedFacts
  <1>2. k \in 1..(Len(list) + 1) /\ (k <= Len(list) => s + n <= list[k].start)
    BY <1>1, GapFits
  <1> HIDE DEF k
  <1>3. s \in Int /\ lo <= s
    BY <1>1, <1>2 DEF Candidate
  <1>4. \A i \in 1..Len(list) : i < k => list[i].end <= s
    <2> SUFFICES ASSUME NEW i \in 1..Len(list), i < k PROVE list[i].end <= s
      OBVIOUS
    <2>1. s = list[k - 1].end /\ k - 1 \in 1..Len(list)
      BY <1>1, <1>2 DEF Candidate
    <2>2. CASE i = k - 1
      BY <1>1, <2>1, <2>2
    <2>3. CASE i < k - 1
      BY <1>1, <2>1, <2>3
    <2> QED BY <1>2, <2>2, <2>3
  <1>5. \A i \in 1..Len(list) : k <= i => s + n <= list[i].start
    <2> SUFFICES ASSUME NEW i \in 1..Len(list), k <= i PROVE s + n <= list[i].start
      OBVIOUS
    <2>1. k \in 1..Len(list) /\ s + n <= list[k].start
      BY <1>1, <1>2
    <2>2. CASE i = k
      BY <2>1, <2>2
    <2>3. CASE k < i
      <3>1. /\ list[k].start \in Int /\ list[k].end \in Int /\ list[i].start \in Int
            /\ list[k].start < list[k].end /\ list[k].end <= list[i].start
        BY <1>1, <2>1, <2>3
      <3> HIDE DEF s
      <3> QED BY <1>3, <2>1, <3>1
    <2> QED BY <1>2, <2>2, <2>3
  <1>6. m.start = s /\ m.end = s + n /\ m \in Vme
    <2>1. m = [start |-> s, end |-> s + n, node |-> w.node, offset |-> w.offset]
      BY DEF NewVme, k
    <2>2. s + n \in Int /\ w.offset \in Int
      BY <1>3, MappingsAssumption
    <2> HIDE DEF s
    <2> QED BY <1>3, <2>1, <2>2 DEF Vme
  <1> HIDE DEF s
  <1>7. \A i \in 1..Len(list) : list[i].end <= m.start \/ m.end <= list[i].start
    BY <1>1, <1>2, <1>4, <1>5, <1>6
  <1>8. /\ new \in Seq(Vme) /\ Len(new) = Len(list) + 1
        /\ \A i \in 1..(k - 1) : new[i] = list[i]
        /\ new[k] = m
        /\ \A i \in k..Len(list) : new[i + 1] = list[i]
    <2>1. list \in Seq(Vme) /\ k \in 1..(Len(list) + 1) /\ m \in Vme
      BY <1>1, <1>2, <1>6
    <2>2. IsInserted(new, list, k, m)
      BY <2>1, Inserted
    <2> HIDE DEF new
    <2> QED BY <2>2 DEF IsInserted
  <1> HIDE DEF new
  <1>81. \A i \in 1..Len(new) : i < k => i \in 1..Len(list) /\ new[i] = list[i]
    BY <1>1, <1>2, <1>8
  <1>82. \A i \in 1..Len(new) : i > k => i - 1 \in 1..Len(list) /\ new[i] = list[i - 1]
    <2> SUFFICES ASSUME NEW i \in 1..Len(new), i > k
                 PROVE  i - 1 \in 1..Len(list) /\ new[i] = list[i - 1]
      OBVIOUS
    <2>1. i - 1 \in 1..Len(list) /\ i - 1 \in k..Len(list) /\ (i - 1) + 1 = i
      BY <1>1, <1>2, <1>8
    <2> QED BY <1>8, <2>1
  <1>83. new[k] = m /\ \A i \in 1..Len(new) : i < k \/ i = k \/ i > k
    BY <1>1, <1>2, <1>8
  <1>9. \A i \in 1..Len(new) : lo <= new[i].start /\ new[i].start < new[i].end /\ new[i].end <= hi
    <2>1. lo <= m.start /\ m.start < m.end /\ m.end <= hi
      BY <1>3, <1>6
    <2> QED BY <1>1, <1>81, <1>82, <1>83, <2>1
  <1>10. ASSUME NEW i \in 1..Len(new), NEW j \in 1..Len(new), i < j
         PROVE  new[i].end <= new[j].start
    <2>1. CASE j < k
      <3>1. i < k /\ new[i] = list[i] /\ new[j] = list[j] /\ i \in 1..Len(list) /\ j \in 1..Len(list)
        BY <1>1, <1>2, <1>8, <1>81, <1>10, <2>1
      <3> QED BY <1>1, <1>10, <3>1
    <2>2. CASE j = k
      <3>1. i < k /\ new[i] = list[i] /\ new[j] = m /\ i \in 1..Len(list)
        BY <1>1, <1>2, <1>8, <1>81, <1>83, <1>10, <2>2
      <3> QED BY <1>4, <1>6, <3>1
    <2>3. CASE j > k
      <3>1. new[j] = list[j - 1] /\ j - 1 \in 1..Len(list) /\ k <= j - 1
        BY <1>1, <1>2, <1>82, <2>3
      <3>2. CASE i < k
        <4>1. new[i] = list[i] /\ i \in 1..Len(list) /\ i < j - 1
          BY <1>1, <1>2, <1>81, <3>1, <3>2
        <4> QED BY <1>1, <3>1, <4>1
      <3>3. CASE i = k
        BY <1>5, <1>6, <1>83, <3>1, <3>3
      <3>4. CASE i > k
        <4>1. new[i] = list[i - 1] /\ i - 1 \in 1..Len(list) /\ i - 1 < j - 1
          BY <1>1, <1>2, <1>82, <1>10, <3>1, <3>4
        <4> QED BY <1>1, <3>1, <4>1
      <3> QED BY <1>83, <3>2, <3>3, <3>4
    <2> QED BY <1>83, <2>1, <2>2, <2>3
  <1>11. Sorted(new, lo, hi)
    BY <1>8, <1>9, <1>10 DEF Sorted
  <1> QED BY <1>3, <1>6, <1>7, <1>11 DEF new, k

\* What was asked for, and now m.
AlsoAsked(pages, m) ==
  [g \in DOMAIN pages \cup (m.start..(m.end - 1)) |->
     IF Covers(m, g) THEN PageFrom(m, g) ELSE pages[g]]

\* After mmap the list covers its pages as before and the new ones as asked.
LEMMA MmapShows ==
  ASSUME NEW list \in Seq(Vme), NEW k \in 1..(Len(list) + 1), NEW m \in Vme, m.start < m.end,
         \A i \in 1..Len(list) : list[i].end <= m.start \/ m.end <= list[i].start,
         NEW pages, Shows(list, pages)
  PROVE  /\ Shows(InsertAt(list, k, m), AlsoAsked(pages, m))
         /\ \A g \in DOMAIN pages :
              g \in DOMAIN AlsoAsked(pages, m) /\ AlsoAsked(pages, m)[g] = pages[g]
  <1> DEFINE new == InsertAt(list, k, m)
             more == AlsoAsked(pages, m)
  <1>1. /\ m \in Vme /\ m.start < m.end
        /\ \A i \in 1..Len(list) : list[i].end <= m.start \/ m.end <= list[i].start
    OBVIOUS
  <1>2. /\ list \in Seq(Vme) /\ Len(list) \in Nat /\ k \in 1..(Len(list) + 1)
        /\ m.start \in Int /\ m.end \in Int
        /\ \A i \in 1..Len(list) : list[i].start \in Int /\ list[i].end \in Int
    BY ListFields, VmeFields
  <1>3. /\ Len(new) = Len(list) + 1
        /\ \A i \in 1..(k - 1) : new[i] = list[i]
        /\ new[k] = m
        /\ \A i \in k..Len(list) : new[i + 1] = list[i]
    <2>1. IsInserted(new, list, k, m)
      BY <1>1, <1>2, Inserted
    <2> HIDE DEF new
    <2> QED BY <2>1 DEF IsInserted
  <1> HIDE DEF new
  <1>4. \A g \in Int : g \in m.start..(m.end - 1) <=> Covers(m, g)
    BY <1>2 DEF Covers
  <1>5. \A i \in 1..Len(list) : \A g \in Int : ~(Covers(m, g) /\ Covers(list[i], g))
    <2> SUFFICES ASSUME NEW i \in 1..Len(list), NEW g \in Int, Covers(m, g), Covers(list[i], g)
                 PROVE  FALSE
      OBVIOUS
    <2>1. /\ m.start <= g /\ g < m.end /\ list[i].start <= g /\ g < list[i].end
          /\ m.start \in Int /\ m.end \in Int /\ list[i].start \in Int /\ list[i].end \in Int
      BY <1>2 DEF Covers
    <2>2. CASE list[i].end <= m.start
      BY <2>1, <2>2
    <2>3. CASE m.end <= list[i].start
      BY <2>1, <2>3
    <2> QED BY <1>1, <2>2, <2>3
  <1>6. \A g \in Int : g \in DOMAIN pages => ~Covers(m, g)
    BY <1>5 DEF Shows
  <1>7. /\ DOMAIN more = DOMAIN pages \cup (m.start..(m.end - 1)) /\ DOMAIN more \subseteq Int
        /\ \A g \in DOMAIN more : more[g] = IF Covers(m, g) THEN PageFrom(m, g) ELSE pages[g]
    <2> HIDE DEF PageFrom
    <2>1. /\ DOMAIN more = DOMAIN pages \cup (m.start..(m.end - 1))
          /\ \A g \in DOMAIN more : more[g] = IF Covers(m, g) THEN PageFrom(m, g) ELSE pages[g]
      BY DEF AlsoAsked
    <2> QED BY <1>2, <2>1 DEF Shows
  <1> HIDE DEF more
  <1>8. \A i \in 1..Len(list) : \E j \in 1..Len(new) : new[j] = list[i]
    <2> SUFFICES ASSUME NEW i \in 1..Len(list) PROVE \E j \in 1..Len(new) : new[j] = list[i]
      OBVIOUS
    <2>1. CASE i < k
      BY <1>2, <1>3, <2>1
    <2>2. CASE ~(i < k)
      <3>1. i + 1 \in 1..Len(new) /\ i \in k..Len(list)
        BY <1>2, <1>3, <2>2
      <3> QED BY <1>3, <3>1
    <2> QED BY <2>1, <2>2
  <1>9. k \in 1..Len(new) /\ new[k] = m
    BY <1>2, <1>3
  <1>10. \A j \in 1..Len(new) : new[j] = m \/ \E i \in 1..Len(list) : new[j] = list[i]
    <2> SUFFICES ASSUME NEW j \in 1..Len(new), new[j] # m
                 PROVE  \E i \in 1..Len(list) : new[j] = list[i]
      OBVIOUS
    <2>1. CASE j < k
      <3>1. j \in 1..(k - 1) /\ j \in 1..Len(list)
        BY <1>2, <1>3, <2>1
      <3> QED BY <1>3, <3>1
    <2>2. CASE j > k
      <3>1. j - 1 \in k..Len(list) /\ j - 1 \in 1..Len(list) /\ (j - 1) + 1 = j
        BY <1>2, <1>3, <2>2
      <3> QED BY <1>3, <3>1
    <2> QED BY <1>2, <1>3, <2>1, <2>2
  <1> HIDE DEF Covers, PageFrom
  <1>11. \A g \in Int : g \in DOMAIN more <=> \E j \in 1..Len(new) : Covers(new[j], g)
    BY <1>4, <1>7, <1>8, <1>9, <1>10 DEF Shows
  <1>12. ASSUME NEW j \in 1..Len(new), NEW g \in Int, Covers(new[j], g)
         PROVE  PageFrom(new[j], g) = more[g]
    <2>1. g \in DOMAIN more
      BY <1>11, <1>12
    <2>2. CASE new[j] = m
      BY <1>7, <1>12, <2>1, <2>2
    <2>3. ASSUME NEW i \in 1..Len(list), new[j] = list[i] PROVE PageFrom(new[j], g) = more[g]
      BY <1>5, <1>7, <1>12, <2>1, <2>3 DEF Shows
    <2> QED BY <1>10, <2>2, <2>3
  <1>13. Shows(new, more)
    BY <1>7, <1>11, <1>12 DEF Shows
  <1>14. \A g \in DOMAIN pages : g \in DOMAIN more /\ more[g] = pages[g]
    BY <1>6, <1>7 DEF Shows
  <1> QED BY <1>13, <1>14 DEF new, more

-----------------------------------------------------------------------------
(***************************************************************************)
(* What munmap makes of a list.                                            *)
(***************************************************************************)

Has(list, x) == \E i \in 1..Len(list) : list[i] = x

\* A list with bounds has wider ones too.
LEMMA SortedWiden ==
  ASSUME NEW s, NEW lo \in Int, NEW hi \in Int, NEW lo2 \in Int, NEW hi2 \in Int,
         Sorted(s, lo, hi), lo2 <= lo, hi <= hi2
  PROVE  Sorted(s, lo2, hi2)
  <1>1. \A k \in 1..Len(s) : lo2 <= s[k].start /\ s[k].start < s[k].end /\ s[k].end <= hi2
    <2> SUFFICES ASSUME NEW k \in 1..Len(s)
                 PROVE lo2 <= s[k].start /\ s[k].start < s[k].end /\ s[k].end <= hi2
      OBVIOUS
    <2>1. /\ s[k].start \in Int /\ s[k].end \in Int
          /\ lo <= s[k].start /\ s[k].start < s[k].end /\ s[k].end <= hi
      BY SortedFacts
    <2> QED BY <2>1
  <1> QED BY <1>1 DEF Sorted

\* One sorted list behind another.
LEMMA SortedConcat ==
  ASSUME NEW s, NEW t, NEW lo \in Int, NEW mid \in Int, NEW hi \in Int,
         Sorted(s, lo, mid), Sorted(t, mid, hi), lo <= mid, mid <= hi
  PROVE  Sorted(s \o t, lo, hi)
  <1> DEFINE u == s \o t
  <1>1. s \in Seq(Vme) /\ t \in Seq(Vme) /\ Len(s) \in Nat /\ Len(t) \in Nat
    BY SortedFacts
  <1>2. u \in Seq(Vme) /\ Len(u) = Len(s) + Len(t)
    BY <1>1, ConcatProperties
  <1>3. \A i \in 1..Len(s) : u[i] = s[i]
    BY <1>1
  <1>4. \A i \in 1..Len(t) : u[Len(s) + i] = t[i]
    BY <1>1
  <1> HIDE DEF u
  <1>5. \A i \in 1..Len(u) : \/ i \in 1..Len(s)
                             \/ /\ i - Len(s) \in 1..Len(t) /\ i = Len(s) + (i - Len(s))
                                /\ Len(s) < i
    BY <1>1, <1>2
  <1>6. Sorted(s, lo, hi) /\ Sorted(t, lo, hi)
    BY SortedWiden
  <1>7. \A i \in 1..Len(u) : lo <= u[i].start /\ u[i].start < u[i].end /\ u[i].end <= hi
    <2> SUFFICES ASSUME NEW i \in 1..Len(u)
                 PROVE  lo <= u[i].start /\ u[i].start < u[i].end /\ u[i].end <= hi
      OBVIOUS
    <2>1. CASE i \in 1..Len(s)
      BY <1>3, <1>6, <2>1 DEF Sorted
    <2>2. CASE i \notin 1..Len(s)
      <3>1. i - Len(s) \in 1..Len(t) /\ u[i] = t[i - Len(s)]
        BY <1>4, <1>5, <2>2
      <3> QED BY <1>6, <3>1 DEF Sorted
    <2> QED BY <2>1, <2>2
  <1>8. ASSUME NEW i \in 1..Len(u), NEW j \in 1..Len(u), i < j PROVE u[i].end <= u[j].start
    <2>1. CASE i \in 1..Len(s) /\ j \in 1..Len(s)
      BY <1>3, <1>8, <2>1 DEF Sorted
    <2>2. CASE i \in 1..Len(s) /\ j \notin 1..Len(s)
      <3>1. j - Len(s) \in 1..Len(t) /\ u[j] = t[j - Len(s)]
        BY <1>4, <1>5, <2>2
      <3>2. s[i].end \in Int /\ s[i].end <= mid
        BY <2>2, SortedFacts
      <3>3. t[j - Len(s)].start \in Int /\ mid <= t[j - Len(s)].start
        BY <3>1, SortedFacts
      <3> QED BY <1>3, <2>2, <3>1, <3>2, <3>3, SMTT(30)
    <2>3. CASE i \notin 1..Len(s)
      <3>1. /\ i - Len(s) \in 1..Len(t) /\ u[i] = t[i - Len(s)] /\ Len(s) < i
        BY <1>4, <1>5, <2>3
      <3>2. j \notin 1..Len(s)
        BY <1>1, <1>8, <3>1
      <3>3. j - Len(s) \in 1..Len(t) /\ u[j] = t[j - Len(s)] /\ i - Len(s) < j - Len(s)
        BY <1>1, <1>4, <1>5, <1>8, <3>2
      <3> QED BY <3>1, <3>3 DEF Sorted
    <2> QED BY <2>1, <2>2, <2>3
  <1>9. Sorted(u, lo, hi)
    BY <1>2, <1>7, <1>8 DEF Sorted
  <1> QED BY <1>9 DEF u

\* It has the elements of both.
LEMMA HasConcat ==
  ASSUME NEW s \in Seq(Vme), NEW t \in Seq(Vme)
  PROVE  \A x \in Vme : Has(s \o t, x) <=> Has(s, x) \/ Has(t, x)
  <1> DEFINE u == s \o t
  <1>1. Len(s) \in Nat /\ Len(t) \in Nat /\ Len(u) = Len(s) + Len(t)
    BY ConcatProperties
  <1>2. \A i \in 1..Len(s) : i \in 1..Len(u) /\ u[i] = s[i]
    BY <1>1
  <1>3. \A i \in 1..Len(t) : Len(s) + i \in 1..Len(u) /\ u[Len(s) + i] = t[i]
    BY <1>1
  <1> HIDE DEF u
  <1>4. \A i \in 1..Len(u) : i \in 1..Len(s) \/ \E j \in 1..Len(t) : i = Len(s) + j
    <2> SUFFICES ASSUME NEW i \in 1..Len(u), i \notin 1..Len(s)
                 PROVE  \E j \in 1..Len(t) : i = Len(s) + j
      OBVIOUS
    <2>1. i - Len(s) \in 1..Len(t) /\ i = Len(s) + (i - Len(s))
      BY <1>1
    <2> QED BY <2>1
  <1>5. \A x \in Vme : Has(u, x) <=> Has(s, x) \/ Has(t, x)
    BY <1>2, <1>3, <1>4, ZenonT(40) DEF Has
  <1> QED BY <1>5 DEF u

\* A list of one VME.
LEMMA SortedOne ==
  ASSUME NEW m \in Vme, m.start < m.end
  PROVE  Sorted(<<m>>, m.start, m.end) /\ \A x : Has(<<m>>, x) <=> x = m
  <1>1. <<m>> \in Seq(Vme) /\ Len(<<m>>) = 1 /\ <<m>>[1] = m /\ 1..1 = {1}
    OBVIOUS
  <1>2. m.start \in Int /\ m.end \in Int
    BY VmeFields
  <1>3. Sorted(<<m>>, m.start, m.end)
    BY <1>1, <1>2 DEF Sorted
  <1> QED BY <1>1, <1>3 DEF Has

\* The empty list.
LEMMA SortedNone ==
  ASSUME NEW lo, NEW hi
  PROVE  Sorted(<<>>, lo, hi) /\ \A x : ~Has(<<>>, x)
  <1>1. <<>> \in Seq(Vme) /\ Len(<<>>) = 0 /\ 1..0 = {}
    OBVIOUS
  <1> QED BY <1>1 DEF Sorted, Has

\* What is left of a VME lies inside it, covers its pages but those taken away, and
\* fills them as before.
LEMMA LeftoversRight ==
  ASSUME NEW m \in Vme, m.start < m.end, NEW s \in Int, NEW e \in Int, s < e
  PROVE  /\ Sorted(Leftovers(m, s, e), m.start, m.end)
         /\ \A g \in Int : (\E x \in Vme : Has(Leftovers(m, s, e), x) /\ Covers(x, g))
                             <=> Covers(m, g) /\ ~(s <= g /\ g < e)
         /\ \A x \in Vme : \A g \in Int : Has(Leftovers(m, s, e), x) /\ Covers(x, g)
                             => PageFrom(x, g) = PageFrom(m, g)
  <1>1. m.start \in Int /\ m.end \in Int /\ m.offset \in Int
    BY VmeFields
  <1>2. CASE e <= m.start \/ s >= m.end
    <2>1. Leftovers(m, s, e) = <<m>>
      BY <1>2 DEF Leftovers
    <2>2. Sorted(<<m>>, m.start, m.end) /\ \A x : Has(<<m>>, x) <=> x = m
      BY SortedOne
    <2>3. \A g \in Int : Covers(m, g) => ~(s <= g /\ g < e)
      BY <1>1, <1>2 DEF Covers
    <2> QED BY <2>1, <2>2, <2>3
  <1>3. CASE ~(e <= m.start \/ s >= m.end)
    <2> DEFINE a == [m EXCEPT !.end = s]
               b == [m EXCEPT !.start = e, !.offset = @ + (e - m.start)]
               A == IF s > m.start THEN <<a>> ELSE <<>>
               B == IF e < m.end THEN <<b>> ELSE <<>>
               mid == IF s > m.start THEN s ELSE m.start
    <2>1. Leftovers(m, s, e) = A \o B
      BY <1>3 DEF Leftovers
    <2>2. a \in Vme /\ a.start = m.start /\ a.end = s /\ a.node = m.node /\ a.offset = m.offset
      BY DEF Vme
    <2>3. /\ b \in Vme /\ b.start = e /\ b.end = m.end /\ b.node = m.node
          /\ b.offset = m.offset + (e - m.start)
      <3>1. m.node \in {w.node : w \in What} /\ m.offset + (e - m.start) \in Int
        BY <1>1 DEF Vme
      <3>2. /\ b = [[m EXCEPT !.start = e] EXCEPT !.offset = m.offset + (e - m.start)]
        BY DEF Vme
      <3> HIDE DEF b
      <3> QED BY <1>1, <3>1, <3>2 DEF Vme
    <2> HIDE DEF a, b
    <2>4. /\ mid \in Int /\ m.start <= mid /\ mid <= m.end /\ mid < e
      BY <1>1, <1>3
    <2>5. /\ Sorted(A, m.start, mid)
          /\ \A x : Has(A, x) <=> s > m.start /\ x = a
      <3>1. CASE s > m.start
        <4>1. Sorted(<<a>>, a.start, a.end) /\ \A x : Has(<<a>>, x) <=> x = a
          BY <2>2, <3>1, SortedOne
        <4> QED BY <2>2, <3>1, <4>1
      <3>2. CASE ~(s > m.start)
        <4>1. Sorted(<<>>, m.start, mid) /\ \A x : ~Has(<<>>, x)
          BY SortedNone
        <4> QED BY <3>2, <4>1
      <3> QED BY <3>1, <3>2
    <2>6. /\ Sorted(B, mid, m.end)
          /\ \A x : Has(B, x) <=> e < m.end /\ x = b
      <3>1. CASE e < m.end
        <4>1. Sorted(<<b>>, b.start, b.end) /\ \A x : Has(<<b>>, x) <=> x = b
          BY <2>3, <3>1, SortedOne
        <4>2. Sorted(<<b>>, mid, m.end)
          BY <1>1, <2>3, <2>4, <4>1, SortedWiden
        <4> QED BY <3>1, <4>1, <4>2
      <3>2. CASE ~(e < m.end)
        <4>1. Sorted(<<>>, mid, m.end) /\ \A x : ~Has(<<>>, x)
          BY SortedNone
        <4> QED BY <3>2, <4>1
      <3> QED BY <3>1, <3>2
    <2> HIDE DEF A, B, mid
    <2>7. Sorted(A \o B, m.start, m.end)
      BY <1>1, <2>4, <2>5, <2>6, SortedConcat
    <2>8. A \in Seq(Vme) /\ B \in Seq(Vme)
      BY <2>5, <2>6, SortedFacts
    <2>9. \A x \in Vme : Has(A \o B, x) <=> (s > m.start /\ x = a) \/ (e < m.end /\ x = b)
      BY <2>5, <2>6, <2>8, HasConcat
    <2>10. ASSUME NEW g \in Int
           PROVE  (\E x \in Vme : Has(A \o B, x) /\ Covers(x, g))
                     <=> Covers(m, g) /\ ~(s <= g /\ g < e)
      <3>1. (s > m.start /\ Covers(a, g)) \/ (e < m.end /\ Covers(b, g))
               <=> Covers(m, g) /\ ~(s <= g /\ g < e)
        BY <1>1, <1>3, <2>2, <2>3 DEF Covers
      <3> QED BY <2>2, <2>3, <2>9, <3>1
    <2>11. \A g \in Int : PageFrom(a, g) = PageFrom(m, g)
      BY <2>2 DEF PageFrom
    <2>12. \A g \in Int : PageFrom(b, g) = PageFrom(m, g)
      <3>1. \A g \in Int : b.offset + g - b.start = m.offset + g - m.start
        BY <1>1, <2>3
      <3> QED BY <2>3, <3>1 DEF PageFrom
    <2> QED BY <2>1, <2>7, <2>9, <2>10, <2>11, <2>12
  <1> QED BY <1>2, <1>3

\* The lists that FlattenSeq puts one behind the other, up to the i-th.
IsFlatten(f, ss, N) ==
  \A i \in 1..N : f[i] = IF i = 1 THEN ss[i] ELSE f[i - 1] \o ss[i]

\* There are such lists ...
LEMMA FlattenExists ==
  ASSUME NEW ss, Len(ss) \in Nat
  PROVE  \E f : f = [i \in 1..Len(ss) |-> IF i = 1 THEN ss[i] ELSE f[i - 1] \o ss[i]]
  <1> DEFINE N == Len(ss)
             S == {n \in 0..N : \E f : IsFlatten(f, ss, n)}
  <1>1. 0 \in S
    BY DEF IsFlatten
  <1>2. ASSUME NEW n \in 0..(N - 1), n \in S PROVE n + 1 \in S
    <2>1. PICK f : IsFlatten(f, ss, n)
      BY <1>2
    <2> DEFINE last == IF n + 1 = 1 THEN ss[n + 1] ELSE f[n] \o ss[n + 1]
               h == [i \in 1..(n + 1) |-> IF i = n + 1 THEN last ELSE f[i]]
    <2>2. h[n + 1] = last /\ \A i \in 1..n : h[i] = f[i]
      <3> HIDE DEF last
      <3> QED OBVIOUS
    <2> HIDE DEF h
    <2>3. \A i \in 1..n : f[i] = IF i = 1 THEN ss[i] ELSE f[i - 1] \o ss[i]
      BY <2>1 DEF IsFlatten
    <2>4. ASSUME NEW i \in 1..n PROVE h[i] = IF i = 1 THEN ss[i] ELSE h[i - 1] \o ss[i]
      <3>1. i # 1 => i - 1 \in 1..n
        OBVIOUS
      <3> QED BY <2>2, <2>3, <3>1
    <2>5. h[n + 1] = IF n + 1 = 1 THEN ss[n + 1] ELSE h[(n + 1) - 1] \o ss[n + 1]
      <3>1. n + 1 # 1 => n \in 1..n /\ (n + 1) - 1 = n
        OBVIOUS
      <3> QED BY <2>2, <3>1
    <2>6. IsFlatten(h, ss, n + 1)
      <3>1. \A i \in 1..(n + 1) : i = n + 1 \/ i \in 1..n
        OBVIOUS
      <3> QED BY <2>4, <2>5, <3>1 DEF IsFlatten
    <2>7. n + 1 \in 0..N
      OBVIOUS
    <2> QED BY <2>6, <2>7
  <1> HIDE DEF S
  <1>3. N \in S
    <2>1. \A n \in 0..N : n \in S
      BY <1>1, <1>2, UpTo
    <2> QED BY <2>1
  <1>4. PICK f : IsFlatten(f, ss, N)
    BY <1>3 DEF S
  <1> DEFINE h == [i \in 1..N |-> f[i]]
  <1>5. ASSUME NEW i \in 1..N PROVE h[i] = IF i = 1 THEN ss[i] ELSE h[i - 1] \o ss[i]
    <2>1. h[i] = f[i] /\ (i # 1 => h[i - 1] = f[i - 1])
      OBVIOUS
    <2> HIDE DEF h
    <2> QED BY <1>4, <2>1 DEF IsFlatten
  <1>6. h = [i \in 1..N |-> h[i]]
    OBVIOUS
  <1> HIDE DEF h
  <1>7. h = [i \in 1..N |-> IF i = 1 THEN ss[i] ELSE h[i - 1] \o ss[i]]
    BY <1>5, <1>6
  <1> QED BY <1>7

\* ... and the last one is the result.
LEMMA FlattenLast ==
  ASSUME NEW ss, Len(ss) \in Nat \ {0}
  PROVE  \E f : IsFlatten(f, ss, Len(ss)) /\ FlattenSeq(ss) = f[Len(ss)]
  <1> DEFINE f == CHOOSE f : f = [i \in 1..Len(ss) |-> IF i = 1 THEN ss[i] ELSE f[i - 1] \o ss[i]]
  <1>1. f = [i \in 1..Len(ss) |-> IF i = 1 THEN ss[i] ELSE f[i - 1] \o ss[i]]
    BY FlattenExists
  <1>2. FlattenSeq(ss) = f[Len(ss)]
    BY DEF FlattenSeq
  <1> HIDE DEF f
  <1>3. IsFlatten(f, ss, Len(ss))
    BY <1>1 DEF IsFlatten
  <1> QED BY <1>2, <1>3

\* Sorted lists inside the VMEs of a sorted list, put one behind the other, make a sorted
\* list that has the elements of all.
LEMMA FlattenSorted ==
  ASSUME NEW list, NEW lo \in Int, NEW hi \in Int, lo <= hi, Sorted(list, lo, hi),
         NEW ss, ss = [k \in 1..Len(list) |-> ss[k]],
         \A k \in 1..Len(list) : Sorted(ss[k], list[k].start, list[k].end)
  PROVE  /\ Sorted(FlattenSeq(ss), lo, hi)
         /\ \A x \in Vme : Has(FlattenSeq(ss), x) <=> \E k \in 1..Len(list) : Has(ss[k], x)
  <1> DEFINE N == Len(list)
  <1>1. /\ N \in Nat
        /\ \A k \in 1..N : list[k].start \in Int /\ list[k].end \in Int
        /\ \A k \in 1..N : lo <= list[k].start /\ list[k].start < list[k].end /\ list[k].end <= hi
        /\ \A j, k \in 1..N : j < k => list[j].end <= list[k].start
    BY SortedFacts
  <1> HIDE DEF N
  <1>2. \A k \in 1..N : ss[k] \in Seq(Vme)
    BY SortedFacts DEF N
  <1>3. ss \in Seq(Seq(Vme)) /\ Len(ss) = N
    BY <1>1, <1>2 DEF N
  <1>4. CASE N = 0
    <2>1. FlattenSeq(ss) = ss
      BY <1>3, <1>4 DEF FlattenSeq
    <2>2. ss = <<>>
      BY <1>3, <1>4
    <2>3. Sorted(<<>>, lo, hi) /\ \A x : ~Has(<<>>, x)
      BY SortedNone
    <2>4. 1..Len(list) = {}
      BY <1>4 DEF N
    <2> QED BY <2>1, <2>2, <2>3, <2>4
  <1>5. CASE N # 0
    <2>1. PICK f : IsFlatten(f, ss, N) /\ FlattenSeq(ss) = f[N]
      BY <1>1, <1>3, <1>5, FlattenLast
    <2> DEFINE Good(n) == /\ Sorted(f[n], lo, list[n].end)
                          /\ \A x \in Vme : Has(f[n], x) <=> \E k \in 1..n : Has(ss[k], x)
               S == {n \in 0..N : n = 0 \/ Good(n)}
    <2>2. 0 \in S
      BY <1>1
    <2>3. ASSUME NEW n \in 0..(N - 1), n \in S PROVE n + 1 \in S
      <3>1. n + 1 \in 1..N /\ n + 1 \in 0..N
        BY <1>1
      <3>2. CASE n = 0
        <4>1. f[1] = ss[1] /\ 1 \in 1..N /\ 1..1 = {1}
          BY <2>1, <3>1, <3>2 DEF IsFlatten
        <4>2. Sorted(ss[1], list[1].start, list[1].end)
          BY <4>1 DEF N
        <4>3. Sorted(f[1], lo, list[1].end)
          BY <1>1, <4>1, <4>2, SortedWiden, SMTT(30)
        <4> HIDE DEF Sorted, Has
        <4>4. Good(1)
          BY <4>1, <4>3
        <4> QED BY <3>1, <3>2, <4>4
      <3>3. CASE n # 0
        <4>1. n \in 1..N /\ n + 1 # 1 /\ (n + 1) - 1 = n /\ n < n + 1
          <5>1. N \in Nat /\ n \in 0..(N - 1)
            BY <1>1
          <5> HIDE DEF S
          <5> QED BY <3>3, <5>1
        <4>2. f[n + 1] = f[n] \o ss[n + 1]
          BY <2>1, <3>1, <4>1 DEF IsFlatten
        <4>3. Good(n)
          BY <2>3, <3>3
        <4>4. Sorted(ss[n + 1], list[n + 1].start, list[n + 1].end)
          BY <3>1 DEF N
        <4>5. /\ list[n].end \in Int /\ list[n + 1].end \in Int /\ list[n + 1].start \in Int
              /\ lo <= list[n].end /\ list[n].end <= list[n + 1].start
              /\ list[n].end <= list[n + 1].end
          <5>1. /\ list[n].end \in Int /\ list[n + 1].end \in Int /\ list[n + 1].start \in Int
                /\ list[n].start \in Int /\ lo <= list[n].start /\ list[n].start < list[n].end
                /\ list[n].end <= list[n + 1].start /\ list[n + 1].start < list[n + 1].end
            BY <1>1, <3>1, <4>1
          <5> QED BY <5>1, SMTT(30)
        <4>6. Sorted(ss[n + 1], list[n].end, list[n + 1].end)
          BY <4>4, <4>5, SortedWiden
        <4>7. Sorted(f[n + 1], lo, list[n + 1].end)
          BY <4>2, <4>3, <4>5, <4>6, SortedConcat
        <4>8. f[n] \in Seq(Vme) /\ ss[n + 1] \in Seq(Vme)
          BY <4>3, <4>6, SortedFacts
        <4>9. \A x \in Vme : Has(f[n + 1], x) <=> Has(f[n], x) \/ Has(ss[n + 1], x)
          BY <4>2, <4>8, HasConcat
        <4>10. \A k : k \in 1..(n + 1) <=> k \in 1..n \/ k = n + 1
          BY <1>1
        <4> HIDE DEF Sorted, Has
        <4>11. Good(n + 1)
          BY <4>3, <4>7, <4>9, <4>10
        <4> QED BY <3>1, <4>11
      <3> QED BY <3>2, <3>3
    <2> HIDE DEF S, Good
    <2>4. N \in S
      <3>1. \A n \in 0..N : n \in S
        BY <1>1, <2>2, <2>3, UpTo
      <3> QED BY <1>1, <3>1
    <2>5. Good(N)
      BY <1>5, <2>4 DEF S
    <2>6. N \in 1..N
      BY <1>1, <1>5
    <2>7. list[N].end \in Int /\ list[N].end <= hi
      BY <1>1, <2>6
    <2>8. Sorted(f[N], lo, hi)
      BY <2>5, <2>7, SortedWiden DEF Good
    <2> QED BY <2>1, <2>5, <2>8 DEF Good, N
  <1> QED BY <1>4, <1>5

\* After munmap the list covers the pages that are left, and fills them as before.
LEMMA MunmapRight ==
  ASSUME NEW list, NEW lo \in Int, NEW hi \in Int, lo <= hi, Sorted(list, lo, hi),
         NEW pages, Shows(list, pages), NEW s \in Int, NEW e \in Int, s < e,
         NEW new, new = FlattenSeq([k \in DOMAIN list |-> Leftovers(list[k], s, e)])
  PROVE  /\ Sorted(new, lo, hi)
         /\ Shows(new, Restrict(pages, DOMAIN pages \ (s..(e - 1))))
  <1> DEFINE ss == [k \in 1..Len(list) |-> Leftovers(list[k], s, e)]
             N == Len(list)
             less == Restrict(pages, DOMAIN pages \ (s..(e - 1)))
  <1>1. list \in Seq(Vme) /\ \A k \in 1..N : list[k] \in Vme /\ list[k].start < list[k].end
    BY SortedFacts, ListFields
  <1>2. new = FlattenSeq(ss) /\ N \in Nat
    <2>1. DOMAIN list = 1..N /\ N \in Nat
      BY <1>1, ListFields
    <2> QED BY <2>1
  <1>3. \A k \in 1..N : ss[k] = Leftovers(list[k], s, e)
    OBVIOUS
  <1>4. ss = [k \in 1..N |-> ss[k]]
    OBVIOUS
  <1> HIDE DEF ss
  <1>5. \A k \in 1..N : Sorted(ss[k], list[k].start, list[k].end)
    BY <1>1, <1>3, LeftoversRight
  <1>6. /\ Sorted(new, lo, hi)
        /\ \A x \in Vme : Has(new, x) <=> \E k \in 1..N : Has(ss[k], x)
    <2> HIDE DEF N
    <2>1. Sorted(FlattenSeq(ss), lo, hi)
      BY <1>4, <1>5, FlattenSorted DEF N
    <2>2. \A x \in Vme : Has(FlattenSeq(ss), x) <=> \E k \in 1..N : Has(ss[k], x)
      BY <1>4, <1>5, FlattenSorted DEF N
    <2> QED BY <1>2, <2>1, <2>2
  <1>7. \A k \in 1..N : \A g \in Int :
           (\E x \in Vme : Has(ss[k], x) /\ Covers(x, g)) <=> Covers(list[k], g) /\ ~(s <= g /\ g < e)
    BY <1>1, <1>3, LeftoversRight
  <1>8. \A k \in 1..N : \A x \in Vme : \A g \in Int :
           Has(ss[k], x) /\ Covers(x, g) => PageFrom(x, g) = PageFrom(list[k], g)
    BY <1>1, <1>3, LeftoversRight
  <1>9. \A i \in 1..Len(new) : new[i] \in Vme /\ Has(new, new[i])
    <2>1. new \in Seq(Vme)
      BY <1>6, SortedFacts
    <2> QED BY <2>1, ListFields DEF Has
  <1>10. \A x : Has(new, x) => \E i \in 1..Len(new) : new[i] = x
    BY DEF Has
  <1>11. \A g \in Int : g \in s..(e - 1) <=> s <= g /\ g < e
    OBVIOUS
  <1>12. /\ DOMAIN less = DOMAIN pages \ (s..(e - 1))
         /\ \A g \in DOMAIN less : less[g] = pages[g]
    BY DEF Restrict
  <1> HIDE DEF less
  <1>13. ASSUME NEW g \in Int
         PROVE  g \in DOMAIN less <=> \E i \in 1..Len(new) : Covers(new[i], g)
    <2>1. g \in DOMAIN less <=> (\E k \in 1..N : Covers(list[k], g)) /\ ~(s <= g /\ g < e)
      BY <1>11, <1>12 DEF Shows
    <2>2. (\E i \in 1..Len(new) : Covers(new[i], g)) <=> \E x \in Vme : Has(new, x) /\ Covers(x, g)
      BY <1>9, <1>10
    <2>3. (\E x \in Vme : Has(new, x) /\ Covers(x, g))
             <=> \E k \in 1..N : \E x \in Vme : Has(ss[k], x) /\ Covers(x, g)
      BY <1>6
    <2>4. (\E k \in 1..N : \E x \in Vme : Has(ss[k], x) /\ Covers(x, g))
             <=> (\E k \in 1..N : Covers(list[k], g)) /\ ~(s <= g /\ g < e)
      BY <1>7
    <2> QED BY <2>1, <2>2, <2>3, <2>4
  <1>14. ASSUME NEW i \in 1..Len(new), NEW g \in Int, Covers(new[i], g)
         PROVE  PageFrom(new[i], g) = less[g]
    <2>1. PICK k \in 1..N : Has(ss[k], new[i])
      BY <1>6, <1>9
    <2>2. PageFrom(new[i], g) = PageFrom(list[k], g) /\ Covers(list[k], g)
      BY <1>7, <1>8, <1>9, <1>14, <2>1
    <2>3. PageFrom(list[k], g) = pages[g]
      BY <2>2 DEF Shows
    <2>4. g \in DOMAIN less
      BY <1>13, <1>14
    <2> QED BY <1>12, <2>2, <2>3, <2>4
  <1>15. Shows(new, less)
    <2>1. DOMAIN less \subseteq Int
      BY <1>12 DEF Shows
    <2> QED BY <1>13, <1>14, <2>1 DEF Shows
  <1> QED BY <1>6, <1>15 DEF less

-----------------------------------------------------------------------------
(***************************************************************************)
(* The steps.                                                              *)
(***************************************************************************)

\* The constants that bound the two areas.
LEMMA Areas ==
  /\ 1 \in Int /\ PrivateEnd \in Int /\ SharedStart \in Int /\ SharedEnd \in Int
  /\ PrivateEnd <= SharedStart /\ SharedStart <= SharedEnd
  BY MappingsAssumption

\* What is asked for lies between the bounds of the list.
LEMMA ShowsBounds ==
  ASSUME NEW list, NEW lo \in Int, NEW hi \in Int, Sorted(list, lo, hi), NEW pages, Shows(list, pages),
         NEW g \in DOMAIN pages
  PROVE  g \in Int /\ lo <= g /\ g < hi
  <1>1. g \in Int
    BY DEF Shows
  <1>2. PICK k \in 1..Len(list) : Covers(list[k], g)
    BY <1>1 DEF Shows
  <1>3. /\ list[k].start \in Int /\ list[k].end \in Int
        /\ lo <= list[k].start /\ list[k].end <= hi
    BY SortedFacts
  <1> QED BY <1>1, <1>2, <1>3 DEF Covers

\* The search for the VME of a page finds one exactly if the page was asked for, and
\* fills the page as asked.
LEMMA SearchRight ==
  ASSUME NEW list, NEW lo, NEW hi, Sorted(list, lo, hi), NEW pages, Shows(list, pages), NEW g \in Int
  PROVE  /\ Covering(list, g) # {} <=> g \in DOMAIN pages
         /\ Covering(list, g) # {} => PageFrom(list[Min(Covering(list, g))], g) = pages[g]
  <1>1. list \in Seq(Vme) /\ Len(list) \in Nat /\ DOMAIN list = 1..Len(list)
    BY SortedFacts, ListFields
  <1>2. Covering(list, g) # {} <=> g \in DOMAIN pages
    BY <1>1 DEF Covering, Shows
  <1>3. ASSUME Covering(list, g) # {} PROVE PageFrom(list[Min(Covering(list, g))], g) = pages[g]
    <2> DEFINE T == Covering(list, g)
    <2>1. T \subseteq Nat /\ T # {}
      BY <1>1, <1>3 DEF Covering
    <2>2. \E x \in T : \A y \in T : x <= y
      BY <2>1, LeastNumber
    <2>3. Min(T) \in T
      BY <2>2 DEF Min
    <2>4. Min(T) \in 1..Len(list) /\ Covers(list[Min(T)], g)
      BY <1>1, <2>3 DEF Covering
    <2> QED BY <2>4 DEF Shows
  <1> QED BY <1>2, <1>3

\* An access is not disturbed by what leaves the process its pages and its mappings,
\* and only adds to the shared ones.
LEMMA AccessKept ==
  ASSUME NEW p, AccessOf(p, access[p]), access'[p] = access[p],
         access[p] # NoAccess => p \in running',
         access[p] # NoAccess => asked'[p] = asked[p],
         access[p] # NoAccess => \A g \in DOMAIN askedShared :
                                   g \in DOMAIN askedShared' /\ askedShared'[g] = askedShared[g],
         access[p] # NoAccess => \A g : IsPresent(p, g) => IsPresent(p, g)'
  PROVE  AccessOf(p, access[p])'
  <1>1. CASE access[p] = NoAccess
    BY <1>1 DEF AccessOf, NoAccess
  <1>2. CASE access[p] # NoAccess
    BY <1>2 DEF AccessOf, FirstPage, LastPage
  <1> QED BY <1>1, <1>2

\* The spaces are not disturbed by what leaves them alone.
LEMMA SpacesKept ==
  ASSUME MapInv, UNCHANGED <<privateVmes, present, asked>>
  PROVE  \A p \in Space : SpaceInv(p)'
  BY DEF MapInv, SpaceInv, Sorted, Shows, Agrees

\* Nor the shared mappings.
LEMMA SharedKept ==
  ASSUME MapInv, UNCHANGED <<sharedVmes, askedShared, kernelHalf>>,
         (running = {} /\ calls > 0) => (running' = {} /\ calls' > 0)
  PROVE  SharedInv'
  BY DEF MapInv, SharedInv, Sorted, Shows, Agrees, NoPages

\* A call is made by a process that is not in one.
LEMMA CallFacts ==
  ASSUME MapInv, NEW p \in Space, MayCall(p)
  PROVE  /\ p \in running /\ access[p] = NoAccess /\ calls \in Nat /\ calls + 1 \in Nat /\ calls + 1 > 0
         /\ running # {} /\ Agrees(kernelHalf, askedShared)
  BY DEF MapInv, MapTypes, SharedInv, MayCall

\* The first process starts.
LEMMA LaunchInv == ASSUME MapInv, Launch PROVE MapInv'
  <1>1. MapTypes'
    BY DEF MapInv, MapTypes, Launch
  <1>2. \A p \in Space : SpaceInv(p)'
    BY SpacesKept DEF Launch
  <1>3. ASSUME NEW p \in Space PROVE AccessOf(p, access[p])'
    <2>1. access[p] = NoAccess
      BY DEF MapInv, AccessOf, Launch
    <2>2. access' = access
      BY DEF Launch
    <2> QED BY <2>1, <2>2 DEF AccessOf, NoAccess
  <1>4. SharedInv'
    <2>1. calls = 0
      BY DEF Launch
    <2> QED BY <2>1, SharedKept DEF Launch
  <1> QED BY <1>1, <1>2, <1>3, <1>4 DEF MapInv

\* mmap of private memory.
LEMMA MmapPrivateInv ==
  ASSUME MapInv, NEW p \in Space, NEW n \in Nat \ {0}, NEW w \in What,
         MmapPrivate(p, n, w.node, w.offset)
  PROVE  MapInv'
  <1> DEFINE list == privateVmes[p]
             m == NewVme(list, 1, n, w.node, w.offset)
             new == InsertAt(list, Gap(list, 1, n), m)
             more == [g \in DOMAIN asked[p] \cup (m.start..(m.end - 1)) |->
                        IF Covers(m, g) THEN PageFrom(m, g) ELSE asked[p][g]]
  <1>1. /\ MayCall(p) /\ m.end <= PrivateEnd
        /\ privateVmes' = [privateVmes EXCEPT ![p] = new]
        /\ asked' = [asked EXCEPT ![p] = more]
        /\ calls' = calls + 1
        /\ UNCHANGED <<sharedVmes, present, kernelHalf, access, running, askedShared>>
    BY DEF MmapPrivate
  <1>2. SpaceInv(p) /\ MapTypes
    BY DEF MapInv
  <1>3. Sorted(new, 1, PrivateEnd)
    BY <1>1, <1>2, Areas, MmapSorted DEF SpaceInv
  <1>4. Shows(new, more) /\ \A g \in DOMAIN asked[p] : g \in DOMAIN more /\ more[g] = asked[p][g]
    <2>1. Sorted(list, 1, PrivateEnd) /\ Shows(list, asked[p])
      BY <1>2 DEF SpaceInv
    <2>2. m = NewVme(list, 1, n, w.node, w.offset) /\ more = AlsoAsked(asked[p], m)
      BY DEF AlsoAsked
    <2> HIDE DEF m, list, more
    <2>3. /\ m \in Vme /\ m.start < m.end
          /\ \A i \in 1..Len(list) : list[i].end <= m.start \/ m.end <= list[i].start
      <3>1. m.end <= PrivateEnd /\ 1 \in Int /\ PrivateEnd \in Int
        BY <1>1, Areas
      <3> QED BY <2>1, <2>2, <3>1, MmapSorted
    <2>4. list \in Seq(Vme) /\ Gap(list, 1, n) \in 1..(Len(list) + 1)
      BY <2>1, SortedFacts, GapFits
    <2> QED BY <2>1, <2>2, <2>3, <2>4, MmapShows
  <1> HIDE DEF new, more, m, list
  <1>5. p \in running /\ access[p] = NoAccess /\ calls \in Nat /\ calls + 1 \in Nat /\ calls + 1 > 0
    BY <1>1, CallFacts
  <1>6. MapTypes'
    BY <1>1, <1>2, <1>5 DEF MapTypes
  <1>7. \A q \in Space : /\ privateVmes'[q] = IF q = p THEN new ELSE privateVmes[q]
                         /\ asked'[q] = IF q = p THEN more ELSE asked[q]
    BY <1>1, <1>2 DEF MapTypes
  <1>8. ASSUME NEW q \in Space PROVE SpaceInv(q)'
    <2>1. SpaceInv(q)
      BY DEF MapInv
    <2>2. CASE q = p
      <3>1. Agrees(present[p], more)
        BY <1>2, <1>4 DEF SpaceInv, Agrees
      <3>2. privateVmes'[q] = new /\ asked'[q] = more /\ present'[q] = present[p]
        BY <1>1, <1>7, <2>2
      <3> QED BY <1>3, <1>4, <3>1, <3>2 DEF SpaceInv, Sorted, Shows, Agrees
    <2>3. CASE q # p
      <3>1. privateVmes'[q] = privateVmes[q] /\ asked'[q] = asked[q] /\ present'[q] = present[q]
        BY <1>1, <1>7, <2>3
      <3> QED BY <2>1, <3>1 DEF SpaceInv, Sorted, Shows, Agrees
    <2> QED BY <2>2, <2>3
  <1>9. ASSUME NEW q \in Space PROVE AccessOf(q, access[q])'
    <2>1. AccessOf(q, access[q])
      BY DEF MapInv
    <2>2. access[q] # NoAccess => q # p /\ q \in running
      BY <1>5, <2>1 DEF AccessOf
    <2>3. access[q] # NoAccess => asked'[q] = asked[q]
      BY <1>7, <2>2
    <2>4. \A g : IsPresent(q, g) => IsPresent(q, g)'
      BY <1>1 DEF IsPresent
    <2> QED BY <1>1, <2>1, <2>2, <2>3, <2>4, AccessKept
  <1>10. SharedInv'
    BY <1>1, <1>5, SharedKept
  <1> QED BY <1>6, <1>8, <1>9, <1>10 DEF MapInv

\* mmap of shared memory.
LEMMA MmapSharedInv ==
  ASSUME MapInv, NEW p \in Space, NEW n \in Nat \ {0}, NEW w \in What,
         MmapShared(p, n, w.node, w.offset)
  PROVE  MapInv'
  <1> DEFINE m == NewVme(sharedVmes, SharedStart, n, w.node, w.offset)
             new == InsertAt(sharedVmes, Gap(sharedVmes, SharedStart, n), m)
             more == [g \in DOMAIN askedShared \cup (m.start..(m.end - 1)) |->
                        IF Covers(m, g) THEN PageFrom(m, g) ELSE askedShared[g]]
  <1>1. /\ MayCall(p) /\ m.end <= SharedEnd
        /\ sharedVmes' = new /\ askedShared' = more
        /\ calls' = calls + 1
        /\ UNCHANGED <<privateVmes, present, kernelHalf, access, running, asked>>
    BY DEF MmapShared
  <1>2. SharedInv /\ MapTypes
    BY DEF MapInv
  <1>3. Sorted(new, SharedStart, SharedEnd)
    BY <1>1, <1>2, Areas, MmapSorted DEF SharedInv
  <1>4. Shows(new, more) /\ \A g \in DOMAIN askedShared : g \in DOMAIN more /\ more[g] = askedShared[g]
    <2>1. Sorted(sharedVmes, SharedStart, SharedEnd) /\ Shows(sharedVmes, askedShared)
      BY <1>2 DEF SharedInv
    <2>2. m = NewVme(sharedVmes, SharedStart, n, w.node, w.offset) /\ more = AlsoAsked(askedShared, m)
      BY DEF AlsoAsked
    <2> HIDE DEF m, more
    <2>3. /\ m \in Vme /\ m.start < m.end
          /\ \A i \in 1..Len(sharedVmes) :
               sharedVmes[i].end <= m.start \/ m.end <= sharedVmes[i].start
      BY <1>1, <2>1, <2>2, Areas, MmapSorted
    <2>4. /\ sharedVmes \in Seq(Vme)
          /\ Gap(sharedVmes, SharedStart, n) \in 1..(Len(sharedVmes) + 1)
      BY <2>1, Areas, SortedFacts, GapFits
    <2> QED BY <2>1, <2>2, <2>3, <2>4, MmapShows
  <1> HIDE DEF new, more, m
  <1>5. /\ calls \in Nat /\ calls + 1 \in Nat /\ calls + 1 > 0
        /\ Agrees(kernelHalf, askedShared)
    BY <1>1, CallFacts
  <1>6. MapTypes'
    BY <1>1, <1>2, <1>5 DEF MapTypes
  <1>7. \A q \in Space : SpaceInv(q)'
    BY <1>1, SpacesKept
  <1>8. ASSUME NEW q \in Space PROVE AccessOf(q, access[q])'
    <2>1. AccessOf(q, access[q])
      BY DEF MapInv
    <2>2. access[q] # NoAccess => q \in running
      BY <2>1 DEF AccessOf
    <2>3. \A g : IsPresent(q, g) => IsPresent(q, g)'
      BY <1>1 DEF IsPresent
    <2> QED BY <1>1, <1>4, <2>1, <2>2, <2>3, AccessKept
  <1>9. SharedInv'
    <2>1. Agrees(kernelHalf, more)
      BY <1>4, <1>5 DEF Agrees
    <2> QED BY <1>1, <1>3, <1>4, <2>1 DEF SharedInv, Sorted, Shows, Agrees
  <1> QED BY <1>6, <1>7, <1>8, <1>9 DEF MapInv

\* munmap.
LEMMA MunmapInv ==
  ASSUME MapInv, NEW p \in Space, NEW s \in Nat, NEW n \in Nat \ {0}, Munmap(p, s, n)
  PROVE  MapInv'
  <1> DEFINE list == privateVmes[p]
             e == s + n
             gone == {g \in s..(e - 1) : \E k \in DOMAIN list : Covers(list[k], g)}
             new == FlattenSeq([k \in DOMAIN list |-> Leftovers(list[k], s, e)])
             less == Restrict(asked[p], DOMAIN asked[p] \ (s..(e - 1)))
             left == Restrict(present[p], DOMAIN present[p] \ gone)
  <1>1. /\ MayCall(p)
        /\ privateVmes' = [privateVmes EXCEPT ![p] = new]
        /\ present' = [present EXCEPT ![p] = left]
        /\ asked' = [asked EXCEPT ![p] = less]
        /\ calls' = calls + 1
        /\ UNCHANGED <<sharedVmes, kernelHalf, access, running, askedShared>>
    BY DEF Munmap
  <1>2. SpaceInv(p) /\ MapTypes
    BY DEF MapInv
  <1>3. e \in Int /\ s \in Int /\ s < e
    OBVIOUS
  <1>4. PrivateEnd >= 1 \/ list = <<>>
    <2>1. Sorted(list, 1, PrivateEnd)
      BY <1>2 DEF SpaceInv
    <2>2. list \in Seq(Vme) /\ \A i \in 1..Len(list) :
             /\ list[i].start \in Int /\ list[i].end \in Int
             /\ 1 <= list[i].start /\ list[i].start < list[i].end /\ list[i].end <= PrivateEnd
      BY <2>1, SortedFacts
    <2> HIDE DEF list
    <2>3. ASSUME list # <<>> PROVE PrivateEnd >= 1
      <3>1. 1 \in 1..Len(list)
        BY <2>2, <2>3
      <3>2. /\ list[1].start \in Int /\ list[1].end \in Int
            /\ 1 <= list[1].start /\ list[1].start < list[1].end /\ list[1].end <= PrivateEnd
        BY <2>2, <3>1
      <3> QED BY <3>2, Areas
    <2> QED BY <2>3
  <1>5. Sorted(new, 1, PrivateEnd) /\ Shows(new, less)
    <2>1. CASE PrivateEnd >= 1
      <3>1. 1 <= PrivateEnd
        BY <2>1, Areas
      <3> HIDE DEF e
      <3> QED BY <1>2, <1>3, <3>1, Areas, MunmapRight DEF SpaceInv
    <2>2. CASE ~(PrivateEnd >= 1)
      <3>1. MayCall(p) /\ gone # {}
        BY DEF Munmap
      <3>2. list = <<>> /\ DOMAIN list = {}
        BY <1>4, <2>2
      <3> QED BY <3>1, <3>2
    <2> QED BY <2>1, <2>2
  <1>6. Agrees(left, less)
    <2>1. list \in Seq(Vme) /\ DOMAIN list = 1..Len(list)
      BY <1>2, SortedFacts, ListFields DEF SpaceInv
    <2>2. ASSUME NEW g \in DOMAIN left PROVE g \in DOMAIN less /\ left[g] = less[g]
      <3>1. g \in DOMAIN present[p] /\ g \notin gone /\ left[g] = present[p][g]
        BY <2>2 DEF Restrict
      <3>2. g \in DOMAIN asked[p] /\ present[p][g] = asked[p][g]
        BY <1>2, <3>1 DEF SpaceInv, Agrees
      <3>3. \E k \in DOMAIN list : Covers(list[k], g)
        BY <1>2, <2>1, <3>2 DEF SpaceInv, Shows
      <3>4. g \notin s..(e - 1)
        BY <3>1, <3>3
      <3> QED BY <3>1, <3>2, <3>4 DEF Restrict
    <2> QED BY <2>2 DEF Agrees
  <1> HIDE DEF new, less, left, list, e, gone
  <1>7. p \in running /\ access[p] = NoAccess /\ calls \in Nat /\ calls + 1 \in Nat /\ calls + 1 > 0
    BY <1>1, CallFacts
  <1>8. MapTypes'
    BY <1>1, <1>2, <1>7 DEF MapTypes
  <1>9. \A q \in Space : /\ privateVmes'[q] = IF q = p THEN new ELSE privateVmes[q]
                         /\ present'[q] = IF q = p THEN left ELSE present[q]
                         /\ asked'[q] = IF q = p THEN less ELSE asked[q]
    BY <1>1, <1>2 DEF MapTypes
  <1>10. ASSUME NEW q \in Space PROVE SpaceInv(q)'
    <2>1. SpaceInv(q)
      BY DEF MapInv
    <2>2. CASE q = p
      <3>1. privateVmes'[q] = new /\ asked'[q] = less /\ present'[q] = left
        BY <1>9, <2>2
      <3> QED BY <1>5, <1>6, <3>1 DEF SpaceInv, Sorted, Shows, Agrees
    <2>3. CASE q # p
      <3>1. privateVmes'[q] = privateVmes[q] /\ asked'[q] = asked[q] /\ present'[q] = present[q]
        BY <1>9, <2>3
      <3> QED BY <2>1, <3>1 DEF SpaceInv, Sorted, Shows, Agrees
    <2> QED BY <2>2, <2>3
  <1>11. ASSUME NEW q \in Space PROVE AccessOf(q, access[q])'
    <2>1. AccessOf(q, access[q])
      BY DEF MapInv
    <2>2. access[q] # NoAccess => q # p /\ q \in running
      BY <1>7, <2>1 DEF AccessOf
    <2>3. access[q] # NoAccess => asked'[q] = asked[q] /\ present'[q] = present[q]
      BY <1>9, <2>2
    <2>4. access[q] # NoAccess => \A g : IsPresent(q, g) => IsPresent(q, g)'
      BY <1>1, <2>3 DEF IsPresent
    <2> QED BY <1>1, <2>1, <2>2, <2>3, <2>4, AccessKept
  <1>12. SharedInv'
    BY <1>1, <1>7, SharedKept
  <1> QED BY <1>8, <1>10, <1>11, <1>12 DEF MapInv

\* What is known of an access that is under way.
LEMMA AccessFacts ==
  ASSUME MapInv, NEW p \in Space, access[p].at # "none"
  PROVE  /\ access[p] # NoAccess /\ p \in running /\ Agrees(kernelHalf, askedShared)
         /\ access[p].page \in Int /\ access[p].last \in Int /\ access[p].page <= access[p].last
  <1>1. access[p] # NoAccess
    BY DEF NoAccess
  <1> QED BY <1>1 DEF MapInv, MapTypes, SharedInv, AccessOf, IsAccess

\* A step of one access that touches no list leaves the other accesses alone.
LEMMA OtherAccess ==
  ASSUME MapInv, NEW p \in Space, NEW a, access' = [access EXCEPT ![p] = a],
         UNCHANGED <<running, asked, askedShared>>,
         \A q \in Space \ {p} : \A g : IsPresent(q, g) => IsPresent(q, g)'
  PROVE  /\ \A q \in Space \ {p} : AccessOf(q, access[q])'
         /\ access'[p] = a /\ access' = [q \in Space |-> access'[q]]
  <1>1. access = [q \in Space |-> access[q]]
    BY DEF MapInv, MapTypes
  <1>2. access'[p] = a /\ \A q \in Space \ {p} : access'[q] = access[q]
    BY <1>1
  <1>3. ASSUME NEW q \in Space \ {p} PROVE AccessOf(q, access[q])'
    <2>1. AccessOf(q, access[q])
      BY DEF MapInv
    <2>2. access[q] # NoAccess => q \in running
      BY <2>1 DEF AccessOf
    <2> QED BY <1>2, <2>1, <2>2, AccessKept
  <1> QED BY <1>1, <1>2, <1>3

\* An access begins.
LEMMA BeginInv ==
  ASSUME MapInv, NEW p \in Space, NEW f \in Int, NEW l \in Int, f <= l, NEW range,
         \A r \in range : /\ r \in [start : Nat, size : Nat \ {0}]
                           /\ f = FirstPage(r) /\ l = LastPage(r),
         Begin(p, f, l, range)
  PROVE  MapInv'
  <1> DEFINE a == [at |-> "ensure", page |-> f, last |-> l, from |-> <<>>, range |-> range]
  <1>1. /\ MayCall(p) /\ calls' = calls + 1 /\ access' = [access EXCEPT ![p] = a]
        /\ UNCHANGED <<privateVmes, sharedVmes, present, kernelHalf, running, asked, askedShared>>
    BY DEF Begin
  <1>2. p \in running /\ calls \in Nat /\ calls + 1 \in Nat /\ calls + 1 > 0
    BY <1>1, CallFacts
  <1>3. a.at = "ensure" /\ a.page = f /\ a.last = l /\ a.from = <<>> /\ a.range = range
    OBVIOUS
  <1>4. IsAccess(a)
    BY DEF IsAccess
  <1> HIDE DEF a
  <1>5. \A q \in Space : \A g : IsPresent(q, g) <=> IsPresent(q, g)'
    BY <1>1 DEF IsPresent
  <1>6. /\ \A q \in Space \ {p} : AccessOf(q, access[q])'
        /\ access'[p] = a /\ access' = [q \in Space |-> access'[q]]
    BY <1>1, <1>5, OtherAccess
  <1>7. MapTypes'
    BY <1>1, <1>2, <1>6 DEF MapInv, MapTypes
  <1>8. AccessOf(p, access[p])'
    <2>1. \A r \in a.range : /\ r \in [start : Nat, size : Nat \ {0}]
                              /\ FirstPage(r) <= a.page /\ a.last = LastPage(r)
                              /\ FirstPage(r)..(a.page - 1) = {}
      BY <1>3
    <2>2. AccessOf(p, a)'
      BY <1>1, <1>2, <1>3, <1>4, <2>1 DEF AccessOf, FirstPage, LastPage
    <2> QED BY <1>6, <2>2
  <1>9. \A q \in Space : SpaceInv(q)'
    BY <1>1, SpacesKept
  <1>10. SharedInv'
    BY <1>1, <1>2, SharedKept
  <1> QED BY <1>6, <1>7, <1>8, <1>9, <1>10 DEF MapInv

\* The accesses begin, are cut at a look at the page table, and end.
LEMMA PageFaultInv ==
  ASSUME MapInv, NEW p \in Space, NEW g \in Int, PageFault(p, g)
  PROVE  MapInv'
  BY BeginInv DEF PageFault

LEMMA CheckRangeInv ==
  ASSUME MapInv, NEW p \in Space, NEW r \in [start : Nat, size : Nat \ {0}], CheckRange(p, r)
  PROVE  MapInv'
  <1>1. FirstPage(r) \in Int /\ LastPage(r) \in Int /\ FirstPage(r) <= LastPage(r)
    BY RangePages
  <1>2. Begin(p, FirstPage(r), LastPage(r), {r})
    BY DEF CheckRange
  <1> QED BY <1>1, <1>2, BeginInv

LEMMA CopyUserCstringInv ==
  ASSUME MapInv, NEW p \in Space, NEW r \in [start : Nat, size : Nat \ {0}], CopyUserCstring(p, r)
  PROVE  MapInv'
  <1>1. PICK n \in 1..r.size : CheckRange(p, [r EXCEPT !.size = n])
    BY DEF CopyUserCstring
  <1>2. [r EXCEPT !.size = n] \in [start : Nat, size : Nat \ {0}]
    OBVIOUS
  <1> QED BY <1>1, <1>2, CheckRangeInv

\* What the steps of an access do to its record.
LEMMA AccessAt ==
  ASSUME NEW o, IsAccess(o), NEW x \in {"ensure", "recheck", "map", "yes", "no"},
         NEW w, w = [o EXCEPT !.at = x]
  PROVE  /\ IsAccess(w) /\ w.at = x /\ w.page = o.page /\ w.last = o.last
         /\ w.from = o.from /\ w.range = o.range
  BY DEF IsAccess

LEMMA AccessOn ==
  ASSUME NEW o, IsAccess(o)
  PROVE  /\ IsAccess(NextPage(o)) /\ NextPage(o).last = o.last
         /\ NextPage(o).from = o.from /\ NextPage(o).range = o.range
         /\ o.page = o.last => NextPage(o).at = "yes" /\ NextPage(o).page = o.page
         /\ o.page # o.last => NextPage(o).at = "ensure" /\ NextPage(o).page = o.page + 1
  <1>1. CASE o.page = o.last
    <2>1. NextPage(o) = [o EXCEPT !.at = "yes"]
      BY <1>1 DEF NextPage
    <2> QED BY <1>1, <2>1, AccessAt
  <1>2. CASE o.page # o.last
    <2>1. PICK n \in Int : n = o.page + 1
      BY DEF IsAccess
    <2>2. PICK w : w = [o EXCEPT !.at = "ensure", !.page = @ + 1]
      OBVIOUS
    <2>3. /\ w.at = "ensure" /\ w.page = o.page + 1 /\ w.last = o.last
          /\ w.from = o.from /\ w.range = o.range
      BY <2>2 DEF IsAccess
    <2>4. w = [[o EXCEPT !.at = "ensure"] EXCEPT !.page = n]
      BY <2>1, <2>2 DEF IsAccess
    <2>5. IsAccess(w)
      BY <2>1, <2>4 DEF IsAccess
    <2>6. NextPage(o) = w
      BY <1>2, <2>2 DEF NextPage
    <2> QED BY <1>2, <2>3, <2>5, <2>6
  <1> QED BY <1>1, <1>2

\* An access whose page is there goes on to the next page or is done.
LEMMA AdvanceAccess ==
  ASSUME MapInv, NEW p \in Space, NEW o, o = access[p], NEW g, g = o.page,
         o.at \in {"ensure", "recheck", "map"}, Advance(p),
         UNCHANGED <<running, asked, askedShared>>, IsPresent(p, g)',
         \A q \in Space : \A h : IsPresent(q, h) => IsPresent(q, h)'
  PROVE  /\ \A q \in Space : AccessOf(q, access[q])'
         /\ access' = [q \in Space |-> access'[q]]
  <1>1. /\ p \in running /\ AccessOf(p, o) /\ o # NoAccess
        /\ g \in Int /\ o.last \in Int /\ g <= o.last
    BY AccessFacts DEF MapInv
  <1>2. IsAccess(o)
    BY <1>1 DEF AccessOf
  <1>3. PICK a : a = NextPage(o)
    OBVIOUS
  <1>4. access' = [access EXCEPT ![p] = a]
    BY <1>3 DEF Advance
  <1>5. /\ \A q \in Space \ {p} : AccessOf(q, access[q])'
        /\ access'[p] = a /\ access' = [q \in Space |-> access'[q]]
    BY <1>4, OtherAccess
  <1>6. \A r \in o.range :
          /\ r \in [start : Nat, size : Nat \ {0}]
          /\ FirstPage(r) \in Int /\ FirstPage(r) <= g /\ o.last = LastPage(r)
          /\ \A h \in FirstPage(r)..(g - 1) : IsPresent(p, h)'
    BY <1>1, RangePages DEF AccessOf
  <1>7. CASE o.page = o.last
    <2>1. /\ IsAccess(a) /\ a.at = "yes" /\ a.page = g /\ a.last = o.last
          /\ a.from = o.from /\ a.range = o.range
      BY <1>2, <1>3, <1>7, AccessOn
    <2>2. AccessOf(p, a)'
      <3>1. \A r \in a.range :
              /\ r \in [start : Nat, size : Nat \ {0}]
              /\ FirstPage(r) <= a.page /\ a.last = LastPage(r)
              /\ \A h \in FirstPage(r)..(a.page - 1) : IsPresent(p, h)'
        BY <1>6, <2>1
      <3> QED BY <1>1, <1>7, <2>1, <3>1 DEF AccessOf, IsAccess, FirstPage, LastPage
    <2> QED BY <1>5, <2>2
  <1>8. CASE o.page # o.last
    <2>1. /\ IsAccess(a) /\ a.at = "ensure" /\ a.page = g + 1 /\ a.last = o.last
          /\ a.from = o.from /\ a.range = o.range
      BY <1>2, <1>3, <1>8, AccessOn
    <2>2. g + 1 \in Int /\ g + 1 <= o.last
      BY <1>1, <1>8
    <2>3. AccessOf(p, a)'
      <3>1. \A r \in a.range :
              /\ r \in [start : Nat, size : Nat \ {0}]
              /\ FirstPage(r) <= a.page /\ a.last = LastPage(r)
              /\ \A h \in FirstPage(r)..(a.page - 1) : IsPresent(p, h)'
        <4> SUFFICES ASSUME NEW r \in o.range
                     PROVE /\ r \in [start : Nat, size : Nat \ {0}]
                           /\ FirstPage(r) <= g + 1 /\ o.last = LastPage(r)
                           /\ \A h \in FirstPage(r)..((g + 1) - 1) : IsPresent(p, h)'
          BY <2>1
        <4>1. \A h \in FirstPage(r)..((g + 1) - 1) : h \in FirstPage(r)..(g - 1) \/ h = g
          BY <1>1, <1>6
        <4>2. FirstPage(r) <= g + 1
          BY <1>1, <1>6
        <4> QED BY <1>6, <4>1, <4>2
      <3> QED BY <1>1, <2>1, <2>2, <3>1 DEF AccessOf, IsAccess, FirstPage, LastPage
    <2> QED BY <1>5, <2>3
  <1>9. AccessOf(p, access[p])'
    BY <1>7, <1>8
  <1> QED BY <1>5, <1>9

\* A step of an access that touches nothing else.
LEMMA AccessStep ==
  ASSUME MapInv, access' = [q \in Space |-> access'[q]],
         \A q \in Space : AccessOf(q, access[q])',
         UNCHANGED <<privateVmes, sharedVmes, present, kernelHalf, running, calls, asked, askedShared>>
  PROVE  MapInv'
  <1>1. MapTypes'
    BY DEF MapInv, MapTypes
  <1>2. \A q \in Space : SpaceInv(q)'
    BY SpacesKept
  <1>3. SharedInv'
    BY SharedKept
  <1> QED BY <1>1, <1>2, <1>3 DEF MapInv

\* The same for one that changes the record of one access.
LEMMA OneAccessStep ==
  ASSUME MapInv, NEW p \in Space, NEW a, access' = [access EXCEPT ![p] = a], AccessOf(p, a),
         UNCHANGED <<privateVmes, sharedVmes, present, kernelHalf, running, calls, asked, askedShared>>
  PROVE  MapInv'
  <1>1. \A q \in Space : \A g : IsPresent(q, g) <=> IsPresent(q, g)'
    BY DEF IsPresent
  <1>2. /\ \A q \in Space \ {p} : AccessOf(q, access[q])'
        /\ access'[p] = a /\ access' = [q \in Space |-> access'[q]]
    BY <1>1, OtherAccess
  <1>3. AccessOf(p, a)'
    BY <1>1 DEF AccessOf, FirstPage, LastPage
  <1> QED BY <1>2, <1>3, AccessStep

LEMMA EnsureInv == ASSUME MapInv, NEW p \in Space, Ensure(p) PROVE MapInv'
  <1>1. PICK o : o = access[p]
    OBVIOUS
  <1>2. PICK g : g = o.page
    OBVIOUS
  <1>3. PICK list : list = Searched(p, g)
    OBVIOUS
  <1>4. /\ o.at = "ensure" /\ o # NoAccess /\ AccessOf(p, o) /\ IsAccess(o)
        /\ g \in Int /\ p \in running /\ Agrees(kernelHalf, askedShared)
        /\ UNCHANGED <<privateVmes, sharedVmes, present, kernelHalf, running, calls, asked, askedShared>>
    <2>1. o.at = "ensure" /\ o # NoAccess
      BY <1>1 DEF Ensure, NoAccess
    <2>2. access[p].at # "none"
      BY <1>1, <2>1
    <2>3. AccessOf(p, o)
      BY <1>1 DEF MapInv
    <2> QED BY <1>1, <1>2, <2>1, <2>2, <2>3, AccessFacts DEF AccessOf, Ensure
  <1>5. /\ Covering(privateVmes[p], g) # {} <=> g \in DOMAIN asked[p]
        /\ Covering(privateVmes[p], g) # {} =>
             PageFrom(privateVmes[p][Min(Covering(privateVmes[p], g))], g) = asked[p][g]
    <2>1. Sorted(privateVmes[p], 1, PrivateEnd) /\ Shows(privateVmes[p], asked[p])
      BY DEF MapInv, SpaceInv
    <2> QED BY <1>4, <2>1, SearchRight
  <1>6. /\ Covering(sharedVmes, g) # {} <=> g \in DOMAIN askedShared
        /\ Covering(sharedVmes, g) # {} =>
             PageFrom(sharedVmes[Min(Covering(sharedVmes, g))], g) = askedShared[g]
    <2>1. Sorted(sharedVmes, SharedStart, SharedEnd) /\ Shows(sharedVmes, askedShared)
      BY DEF MapInv, SharedInv
    <2> QED BY <1>4, <2>1, SearchRight
  <1>7. CASE IsPresent(p, g) /\ Advance(p)
    <2>1. IsPresent(p, g)' /\ \A q \in Space : \A h : IsPresent(q, h) => IsPresent(q, h)'
      BY <1>4, <1>7 DEF IsPresent
    <2>2. /\ \A q \in Space : AccessOf(q, access[q])'
          /\ access' = [q \in Space |-> access'[q]]
      BY <1>1, <1>2, <1>4, <1>7, <2>1, AdvanceAccess
    <2> QED BY <1>4, <2>2, AccessStep
  <1>8. CASE Covering(list, g) # {} /\ access' = [access EXCEPT ![p].at = "recheck",
                                    ![p].from = PageFrom(list[Min(Covering(list, g))], g)]
    <2>1. PICK f : f = PageFrom(list[Min(Covering(list, g))], g)
      OBVIOUS
    <2>2. PICK a : a = [o EXCEPT !.at = "recheck", !.from = f]
      OBVIOUS
    <2>3. access' = [access EXCEPT ![p] = a]
      BY <1>1, <1>8, <2>1, <2>2 DEF MapInv, MapTypes
    <2>4. /\ IsAccess(a) /\ a.at = "recheck" /\ a.page = g /\ a.last = o.last
          /\ a.from = f /\ a.range = o.range
      BY <1>2, <1>4, <2>2 DEF IsAccess
    <2>5. \/ g \in DOMAIN asked[p] /\ f = asked[p][g]
          \/ g \in DOMAIN askedShared /\ f = askedShared[g]
      <3>1. CASE Covering(privateVmes[p], g) # {}
        <4>1. list = privateVmes[p]
          BY <1>3, <3>1 DEF Searched
        <4> QED BY <1>5, <2>1, <3>1, <4>1
      <3>2. CASE Covering(privateVmes[p], g) = {}
        <4>1. list = sharedVmes
          BY <1>3, <3>2 DEF Searched
        <4> QED BY <1>6, <1>8, <2>1, <4>1
      <3> QED BY <3>1, <3>2
    <2>6. AccessOf(p, a)
      BY <1>2, <1>4, <2>4, <2>5 DEF AccessOf
    <2> QED BY <1>4, <2>3, <2>6, OneAccessStep
  <1>9. CASE Covering(list, g) = {} /\ access' = [access EXCEPT ![p].at = "no"]
    <2>1. PICK a : a = [o EXCEPT !.at = "no"]
      OBVIOUS
    <2>2. access' = [access EXCEPT ![p] = a]
      BY <1>1, <1>9, <2>1
    <2>3. /\ IsAccess(a) /\ a.at = "no" /\ a.page = g /\ a.last = o.last
          /\ a.from = o.from /\ a.range = o.range
      BY <1>2, <1>4, <2>1, AccessAt
    <2>4. g \notin DOMAIN asked[p]
      BY <1>3, <1>5, <1>9 DEF Searched
    <2>5. AccessOf(p, a)
      BY <1>2, <1>4, <2>3, <2>4 DEF AccessOf
    <2> QED BY <1>4, <2>2, <2>5, OneAccessStep
  <1> QED BY <1>1, <1>2, <1>3, <1>7, <1>8, <1>9 DEF Ensure

LEMMA RecheckInv == ASSUME MapInv, NEW p \in Space, Recheck(p) PROVE MapInv'
  <1>1. PICK o : o = access[p]
    OBVIOUS
  <1>2. PICK g : g = o.page
    OBVIOUS
  <1>3. /\ o.at = "recheck" /\ o # NoAccess /\ AccessOf(p, o) /\ IsAccess(o)
        /\ UNCHANGED <<privateVmes, sharedVmes, present, kernelHalf, running, calls, asked, askedShared>>
    <2>1. o.at = "recheck" /\ o # NoAccess
      BY <1>1 DEF Recheck, NoAccess
    <2>2. AccessOf(p, o)
      BY <1>1 DEF MapInv
    <2> QED BY <2>1, <2>2 DEF AccessOf, Recheck
  <1>4. CASE IsPresent(p, g) /\ Advance(p)
    <2>1. IsPresent(p, g)' /\ \A q \in Space : \A h : IsPresent(q, h) => IsPresent(q, h)'
      BY <1>3, <1>4 DEF IsPresent
    <2>2. /\ \A q \in Space : AccessOf(q, access[q])'
          /\ access' = [q \in Space |-> access'[q]]
      BY <1>1, <1>2, <1>3, <1>4, <2>1, AdvanceAccess
    <2> QED BY <1>3, <2>2, AccessStep
  <1>5. CASE access' = [access EXCEPT ![p].at = "map"]
    <2>1. PICK a : a = [o EXCEPT !.at = "map"]
      OBVIOUS
    <2>2. access' = [access EXCEPT ![p] = a]
      BY <1>1, <1>5, <2>1
    <2>3. /\ IsAccess(a) /\ a.at = "map" /\ a.page = o.page /\ a.last = o.last
          /\ a.from = o.from /\ a.range = o.range
      BY <1>3, <2>1, AccessAt
    <2>4. AccessOf(p, a)
      BY <1>3, <2>3 DEF AccessOf
    <2> QED BY <1>3, <2>2, <2>4, OneAccessStep
  <1> QED BY <1>1, <1>2, <1>4, <1>5 DEF Recheck

LEMMA ReturnAccessInv == ASSUME MapInv, NEW p \in Space, ReturnAccess(p) PROVE MapInv'
  <1>1. AccessOf(p, NoAccess)
    BY DEF AccessOf
  <1>2. PICK a : a = NoAccess
    OBVIOUS
  <1> QED BY <1>1, <1>2, OneAccessStep DEF ReturnAccess

\* The page is mapped, perhaps a second time: it shows the same.
LEMMA MapPageInv == ASSUME MapInv, NEW p \in Space, MapPage(p) PROVE MapInv'
  <1>1. PICK o : o = access[p]
    OBVIOUS
  <1>2. PICK g : g = o.page
    OBVIOUS
  <1> DEFINE with(f) == [h \in DOMAIN f \cup {g} |-> IF h = g THEN o.from ELSE f[h]]
  <1>3. /\ o.at = "map" /\ o # NoAccess /\ AccessOf(p, o) /\ p \in running
        /\ Agrees(kernelHalf, askedShared) /\ g \in Int /\ Advance(p)
        /\ UNCHANGED <<privateVmes, sharedVmes, running, calls, asked, askedShared>>
    <2>1. o.at = "map" /\ o # NoAccess /\ access[p].at # "none"
      BY <1>1 DEF MapPage, NoAccess
    <2>2. AccessOf(p, o)
      BY <1>1 DEF MapInv
    <2> QED BY <1>1, <1>2, <2>1, <2>2, AccessFacts DEF MapPage
  <1>4. \/ g \in DOMAIN asked[p] /\ o.from = asked[p][g]
        \/ g \in DOMAIN askedShared /\ o.from = askedShared[g]
    BY <1>2, <1>3 DEF AccessOf
  <1>5. SpaceInv(p) /\ SharedInv /\ MapTypes
    BY DEF MapInv
  <1>6. g \in DOMAIN asked[p] => g < SharedStart
    <2> SUFFICES ASSUME g \in DOMAIN asked[p] PROVE g < SharedStart
      OBVIOUS
    <2>1. g < PrivateEnd
      BY <1>5, Areas, ShowsBounds DEF SpaceInv
    <2> QED BY <1>3, <2>1, Areas
  <1>7. g \in DOMAIN askedShared => g >= SharedStart
    <2> SUFFICES ASSUME g \in DOMAIN askedShared PROVE g >= SharedStart
      OBVIOUS
    <2>1. SharedStart <= g
      BY <1>5, Areas, ShowsBounds DEF SharedInv
    <2> QED BY <1>3, <2>1, Areas
  <1>8. \A q \in Space : \A h : IsPresent(q, h) => IsPresent(q, h)'
    <2>1. CASE g >= SharedStart
      <3>1. kernelHalf' = with(kernelHalf) /\ present' = present
        BY <1>1, <1>2, <2>1 DEF MapPage
      <3> QED BY <3>1 DEF IsPresent
    <2>2. CASE ~(g >= SharedStart)
      <3>1. kernelHalf' = kernelHalf /\ present' = [present EXCEPT ![p] = with(@)]
        BY <1>1, <1>2, <2>2 DEF MapPage
      <3>2. \A q \in Space : DOMAIN present[q] \subseteq DOMAIN present'[q]
        BY <1>5, <3>1 DEF MapTypes
      <3> QED BY <3>1, <3>2 DEF IsPresent
    <2> QED BY <2>1, <2>2
  <1>9. IsPresent(p, g)'
    <2>1. CASE g >= SharedStart
      <3>1. kernelHalf' = with(kernelHalf)
        BY <1>1, <1>2, <2>1 DEF MapPage
      <3> QED BY <3>1 DEF IsPresent
    <2>2. CASE ~(g >= SharedStart)
      <3>1. present' = [present EXCEPT ![p] = with(@)]
        BY <1>1, <1>2, <2>2 DEF MapPage
      <3>2. g \in DOMAIN present'[p]
        BY <1>5, <3>1 DEF MapTypes
      <3> QED BY <3>2 DEF IsPresent
    <2> QED BY <2>1, <2>2
  <1>10. /\ \A q \in Space : AccessOf(q, access[q])'
         /\ access' = [q \in Space |-> access'[q]]
    BY <1>1, <1>2, <1>3, <1>8, <1>9, AdvanceAccess
  <1>11. CASE g >= SharedStart
    <2>1. kernelHalf' = with(kernelHalf) /\ present' = present
      BY <1>1, <1>2, <1>11 DEF MapPage
    <2>2. MapTypes'
      BY <1>3, <1>5, <1>10, <2>1 DEF MapTypes
    <2>3. \A q \in Space : SpaceInv(q)'
      BY <1>3, <2>1, SpacesKept
    <2>4. g \in DOMAIN askedShared /\ o.from = askedShared[g]
      BY <1>3, <1>4, <1>6, <1>11, Areas
    <2>5. Agrees(with(kernelHalf), askedShared)
      BY <1>3, <2>4 DEF Agrees
    <2>6. SharedInv'
      BY <1>3, <1>5, <2>1, <2>5 DEF SharedInv, Sorted, Shows, Agrees
    <2> QED BY <1>10, <2>2, <2>3, <2>6 DEF MapInv
  <1>12. CASE ~(g >= SharedStart)
    <2>1. kernelHalf' = kernelHalf /\ present' = [present EXCEPT ![p] = with(@)]
      BY <1>1, <1>2, <1>12 DEF MapPage
    <2>2. \A q \in Space : present'[q] = IF q = p THEN with(present[p]) ELSE present[q]
      BY <1>5, <2>1 DEF MapTypes
    <2>3. MapTypes'
      BY <1>3, <1>5, <1>10, <2>1 DEF MapTypes
    <2>4. g \in DOMAIN asked[p] /\ o.from = asked[p][g]
      BY <1>4, <1>7, <1>12
    <2>5. Agrees(with(present[p]), asked[p])
      BY <1>5, <2>4 DEF SpaceInv, Agrees
    <2> HIDE DEF with
    <2>6. ASSUME NEW q \in Space PROVE SpaceInv(q)'
      <3>1. SpaceInv(q) /\ privateVmes'[q] = privateVmes[q] /\ asked'[q] = asked[q]
        BY <1>3 DEF MapInv
      <3>2. Agrees(present'[q], asked[q])
        <4>1. CASE q = p
          <5>1. present'[q] = with(present[p])
            BY <2>2, <4>1
          <5> QED BY <2>5, <4>1, <5>1
        <4>2. CASE q # p
          BY <2>2, <3>1, <4>2 DEF SpaceInv
        <4> QED BY <4>1, <4>2
      <3> QED BY <3>1, <3>2 DEF SpaceInv, Sorted, Shows, Agrees
    <2>7. SharedInv'
      BY <1>3, <2>1, SharedKept
    <2> QED BY <1>10, <2>3, <2>6, <2>7 DEF MapInv
  <1> QED BY <1>11, <1>12

\* fork: the child has the lists and the pages of its parent.
LEMMA ForkInv ==
  ASSUME MapInv, NEW p \in Space, NEW c \in Space, ForkMappings(p, c)
  PROVE  MapInv'
  <1>1. /\ MayCall(p) /\ c \notin running /\ running' = running \cup {c}
        /\ privateVmes' = [privateVmes EXCEPT ![c] = privateVmes[p]]
        /\ present' = [present EXCEPT ![c] = present[p]]
        /\ asked' = [asked EXCEPT ![c] = asked[p]]
        /\ calls' = calls + 1
        /\ UNCHANGED <<sharedVmes, kernelHalf, access, askedShared>>
    BY DEF ForkMappings
  <1>2. MapTypes
    BY DEF MapInv
  <1>3. calls \in Nat /\ calls + 1 \in Nat /\ calls + 1 > 0 /\ running # {}
    BY <1>1, CallFacts
  <1>4. \A q \in Space : /\ privateVmes'[q] = IF q = c THEN privateVmes[p] ELSE privateVmes[q]
                         /\ present'[q] = IF q = c THEN present[p] ELSE present[q]
                         /\ asked'[q] = IF q = c THEN asked[p] ELSE asked[q]
    BY <1>1, <1>2 DEF MapTypes
  <1>5. MapTypes'
    BY <1>1, <1>2, <1>3 DEF MapTypes
  <1>6. ASSUME NEW q \in Space PROVE SpaceInv(q)'
    <2>1. PICK s \in {p, q} : /\ privateVmes'[q] = privateVmes[s] /\ present'[q] = present[s]
                              /\ asked'[q] = asked[s]
      BY <1>4
    <2>2. SpaceInv(s)
      BY <2>1 DEF MapInv
    <2> QED BY <2>1, <2>2 DEF SpaceInv, Sorted, Shows, Agrees
  <1>7. ASSUME NEW q \in Space PROVE AccessOf(q, access[q])'
    <2>1. AccessOf(q, access[q])
      BY DEF MapInv
    <2>2. access[q] # NoAccess => q # c /\ q \in running
      BY <1>1, <2>1 DEF AccessOf
    <2>3. access[q] # NoAccess => asked'[q] = asked[q] /\ present'[q] = present[q]
      BY <1>4, <2>2
    <2>4. access[q] # NoAccess => \A g : IsPresent(q, g) => IsPresent(q, g)'
      BY <1>1, <2>3 DEF IsPresent
    <2> QED BY <1>1, <2>1, <2>2, <2>3, <2>4, AccessKept
  <1>8. SharedInv'
    BY <1>1, <1>3, SharedKept
  <1> QED BY <1>5, <1>6, <1>7, <1>8 DEF MapInv

\* A process ends.  No other one is in a call when it takes the shared list with it.
LEMMA FiniInv == ASSUME MapInv, NEW p \in Space, FiniThread(p) PROVE MapInv'
  <1>1. /\ p \in running /\ access[p] = NoAccess /\ running' = running \ {p}
        /\ privateVmes' = [privateVmes EXCEPT ![p] = <<>>]
        /\ present' = [present EXCEPT ![p] = NoPages]
        /\ asked' = [asked EXCEPT ![p] = NoPages]
        /\ \/ UNCHANGED <<sharedVmes, askedShared>>
           \/ running = {p} /\ sharedVmes' = <<>> /\ askedShared' = NoPages
        /\ UNCHANGED <<kernelHalf, access, calls>>
    BY DEF FiniThread
  <1>2. MapTypes /\ calls > 0
    BY <1>1 DEF MapInv, MapTypes
  <1>3. \A q \in Space : /\ privateVmes'[q] = IF q = p THEN <<>> ELSE privateVmes[q]
                         /\ present'[q] = IF q = p THEN NoPages ELSE present[q]
                         /\ asked'[q] = IF q = p THEN NoPages ELSE asked[q]
    BY <1>1, <1>2 DEF MapTypes
  <1>4. MapTypes'
    BY <1>1, <1>2 DEF MapTypes
  <1>5. DOMAIN NoPages = {} /\ Agrees(NoPages, NoPages)
    BY DEF NoPages, Agrees
  <1>6. \A lo, hi : Sorted(<<>>, lo, hi) /\ Shows(<<>>, NoPages)
    <2>1. Len(<<>>) = 0 /\ 1..0 = {}
      OBVIOUS
    <2> QED BY <1>5, <2>1, SortedNone DEF Shows
  <1>7. ASSUME NEW q \in Space PROVE SpaceInv(q)'
    <2>1. CASE q = p
      <3>1. privateVmes'[q] = <<>> /\ present'[q] = NoPages /\ asked'[q] = NoPages
        BY <1>3, <2>1
      <3> QED BY <1>5, <1>6, <3>1 DEF SpaceInv, Sorted, Shows, Agrees
    <2>2. CASE q # p
      <3>1. privateVmes'[q] = privateVmes[q] /\ present'[q] = present[q] /\ asked'[q] = asked[q]
        BY <1>3, <2>2
      <3> QED BY <3>1 DEF MapInv, SpaceInv, Sorted, Shows, Agrees
    <2> QED BY <2>1, <2>2
  <1>8. ASSUME NEW q \in Space PROVE AccessOf(q, access[q])'
    <2>1. AccessOf(q, access[q])
      BY DEF MapInv
    <2>2. access[q] # NoAccess => q # p /\ q \in running /\ running # {p}
      BY <1>1, <2>1 DEF AccessOf
    <2>3. access[q] # NoAccess => /\ q \in running' /\ asked'[q] = asked[q]
                                  /\ present'[q] = present[q] /\ askedShared' = askedShared
      BY <1>1, <1>3, <2>2
    <2>4. access[q] # NoAccess => \A g : IsPresent(q, g) => IsPresent(q, g)'
      BY <1>1, <2>3 DEF IsPresent
    <2> QED BY <1>1, <2>1, <2>3, <2>4, AccessKept
  <1>9. SharedInv'
    <2>1. CASE UNCHANGED <<sharedVmes, askedShared>>
      BY <1>1, <1>2, <2>1, SharedKept
    <2>2. CASE running = {p} /\ sharedVmes' = <<>> /\ askedShared' = NoPages
      <3>1. running' = {} /\ calls' > 0
        BY <1>1, <1>2, <2>2
      <3> QED BY <1>6, <2>2, <3>1 DEF SharedInv, Sorted, Shows, Agrees, NoPages
    <2> QED BY <1>1, <2>1, <2>2
  <1> QED BY <1>4, <1>7, <1>8, <1>9 DEF MapInv

-----------------------------------------------------------------------------
(***************************************************************************)
(* The theorems.                                                           *)
(***************************************************************************)

\* The invariant holds at first, every step keeps it, and it says what the properties ask.
LEMMA MapInitInv == MapInit => MapInv
  <1> SUFFICES ASSUME MapInit PROVE MapInv
    OBVIOUS
  <1>1. MapTypes
    BY DEF MapInit, MapTypes
  <1>2. DOMAIN NoPages = {} /\ Agrees(NoPages, NoPages)
    BY DEF NoPages, Agrees
  <1>3. \A lo, hi : Sorted(<<>>, lo, hi) /\ Shows(<<>>, NoPages)
    <2>1. Len(<<>>) = 0 /\ 1..0 = {}
      OBVIOUS
    <2> QED BY <1>2, <2>1, SortedNone DEF Shows
  <1>4. ASSUME NEW p \in Space PROVE SpaceInv(p) /\ AccessOf(p, access[p])
    <2>1. /\ privateVmes[p] = <<>> /\ present[p] = NoPages /\ asked[p] = NoPages
          /\ access[p] = NoAccess
      BY DEF MapInit
    <2> QED BY <1>2, <1>3, <2>1 DEF SpaceInv, AccessOf
  <1>5. SharedInv
    BY <1>2, <1>3 DEF MapInit, SharedInv
  <1> QED BY <1>1, <1>4, <1>5 DEF MapInv

LEMMA MapNextInv == MapInv /\ [MapNext]_mapVars => MapInv'
  <1> SUFFICES ASSUME MapInv, [MapNext]_mapVars PROVE MapInv'
    OBVIOUS
  <1>1. CASE UNCHANGED mapVars
    <2>1. UNCHANGED <<privateVmes, sharedVmes, present, kernelHalf, running, calls, asked, askedShared>>
          /\ access' = access
      BY <1>1 DEF mapVars
    <2>2. access' = [q \in Space |-> access'[q]]
      BY <2>1 DEF MapInv, MapTypes
    <2>3. \A q \in Space : AccessOf(q, access[q])'
      BY <2>1 DEF MapInv, AccessOf, IsPresent, FirstPage, LastPage
    <2> QED BY <2>1, <2>2, <2>3, AccessStep
  <1>2. CASE Launch
    BY <1>2, LaunchInv
  <1>3. ASSUME NEW p \in Space, NEW b \in MapLen, NEW w \in What,
               \/ MmapPrivate(p, PagesOf(b), w.node, w.offset)
               \/ MmapShared(p, PagesOf(b), w.node, w.offset)
        PROVE  MapInv'
    BY <1>3, SomePages, MmapPrivateInv, MmapSharedInv
  <1>4. ASSUME NEW p \in Space, NEW b \in MapLen, NEW s \in 0..(PrivateEnd - 1), Munmap(p, s, PagesOf(b))
        PROVE  MapInv'
    <2>1. s \in Nat
      OBVIOUS
    <2> QED BY <1>4, <2>1, SomePages, MunmapInv
  <1>5. ASSUME NEW p \in Space, NEW g \in 1..(SharedEnd - 1), PageFault(p, g) PROVE MapInv'
    <2>1. g \in Int
      OBVIOUS
    <2> QED BY <1>5, <2>1, PageFaultInv
  <1>6. ASSUME NEW p \in Space, NEW r \in UserRange, CheckRange(p, r) \/ CopyUserCstring(p, r)
        PROVE  MapInv'
    <2>1. r \in [start : Nat, size : Nat \ {0}]
      BY MappingsAssumption
    <2> QED BY <1>6, <2>1, CheckRangeInv, CopyUserCstringInv
  <1>7. ASSUME NEW p \in Space, Ensure(p) \/ Recheck(p) \/ MapPage(p) \/ ReturnAccess(p) \/ FiniThread(p)
        PROVE  MapInv'
    BY <1>7, EnsureInv, RecheckInv, MapPageInv, ReturnAccessInv, FiniInv
  <1>8. ASSUME NEW p \in Space, NEW c \in Space, ForkMappings(p, c) PROVE MapInv'
    BY <1>8, ForkInv
  <1> QED BY <1>1, <1>2, <1>3, <1>4, <1>5, <1>6, <1>7, <1>8 DEF MapNext

\* The inductive invariant of mmap, munmap, fork, page faults and range checks.
THEOREM MapInvariant == MapSpec => []MapInv
  BY MapInitInv, MapNextInv, PTL DEF MapSpec

\* A sorted list that shows the pages covers each of them once.
LEMMA ExactList ==
  ASSUME NEW list, NEW lo \in Int, NEW hi \in Int, Sorted(list, lo, hi), NEW pages, Shows(list, pages)
  PROVE  Exact(list, pages)
  <1>1. list \in Seq(Vme) /\ Len(list) \in Nat /\ DOMAIN list = 1..Len(list)
    BY SortedFacts, ListFields
  <1>2. ASSUME NEW g \in 1..(SharedEnd - 1)
        PROVE  Cardinality({k \in DOMAIN list : Covers(list[k], g)}) = IF g \in DOMAIN pages THEN 1 ELSE 0
    <2> DEFINE S == {k \in DOMAIN list : Covers(list[k], g)}
    <2>1. g \in Int
      OBVIOUS
    <2>2. CASE g \notin DOMAIN pages
      <3>1. S = {}
        BY <1>1, <2>1, <2>2 DEF Shows
      <3> QED BY <2>2, <3>1, FS_EmptySet
    <2>3. CASE g \in DOMAIN pages
      <3>1. PICK k \in 1..Len(list) : Covers(list[k], g)
        BY <2>1, <2>3 DEF Shows
      <3>2. ASSUME NEW j \in 1..Len(list), Covers(list[j], g) PROVE j = k
        <4>1. /\ list[j].start \in Int /\ list[j].end \in Int /\ list[k].start \in Int
              /\ list[k].end \in Int /\ list[j].start <= g /\ g < list[j].end
              /\ list[k].start <= g /\ g < list[k].end
          BY <3>1, <3>2, SortedFacts DEF Covers
        <4>2. /\ j < k => list[j].end <= list[k].start
              /\ k < j => list[k].end <= list[j].start
          BY SortedFacts
        <4>3. ~(j < k)
          BY <2>1, <4>1, <4>2
        <4>4. ~(k < j)
          BY <2>1, <4>1, <4>2
        <4> QED BY <1>1, <4>3, <4>4
      <3>3. S = {k}
        BY <1>1, <3>1, <3>2
      <3> QED BY <2>3, <3>3, FS_Singleton
    <2> QED BY <2>2, <2>3
  <1>3. ASSUME NEW k \in DOMAIN list, NEW g \in list[k].start..(list[k].end - 1)
        PROVE  PageFrom(list[k], g) = pages[g]
    <2>1. k \in 1..Len(list) /\ list[k].start \in Int /\ list[k].end \in Int
      BY <1>1, SortedFacts
    <2>2. g \in Int /\ Covers(list[k], g)
      BY <2>1 DEF Covers
    <2> QED BY <2>1, <2>2 DEF Shows
  <1> QED BY <1>2, <1>3 DEF Exact

LEMMA MapInvExact == MapInv => MappingsExact
  <1> SUFFICES ASSUME MapInv PROVE MappingsExact
    OBVIOUS
  <1>1. ASSUME NEW p \in running
        PROVE  /\ Exact(privateVmes[p], asked[p])
               /\ \A g \in DOMAIN present[p] : g \in DOMAIN asked[p] /\ present[p][g] = asked[p][g]
    <2>1. SpaceInv(p)
      BY DEF MapInv, MapTypes
    <2> QED BY <2>1, Areas, ExactList DEF SpaceInv, Agrees
  <1>2. Exact(sharedVmes, askedShared)
    BY Areas, ExactList DEF MapInv, SharedInv
  <1>3. \A g \in DOMAIN askedShared \cap DOMAIN kernelHalf : kernelHalf[g] = askedShared[g]
    BY DEF MapInv, SharedInv, Agrees, NoPages
  <1> QED BY <1>1, <1>2, <1>3 DEF MappingsExact

LEMMA MapInvAnswers == MapInv => RangeAnswerTrue
  <1> SUFFICES ASSUME MapInv, NEW p \in Space, access[p].at \in {"yes", "no"},
                      NEW r \in access[p].range
               PROVE  IF access[p].at = "yes"
                      THEN \A b \in r.start..(r.start + r.size - 1) : IsPresent(p, b \div FRAME_SIZE)
                      ELSE \E b \in r.start..(r.start + r.size - 1) :
                             b \div FRAME_SIZE \notin DOMAIN asked[p]
    BY DEF RangeAnswerTrue
  <1>1. PICK o : o = access[p]
    OBVIOUS
  <1>2. o # NoAccess /\ AccessOf(p, o) /\ IsAccess(o) /\ o.page <= o.last
    <2>1. o # NoAccess
      BY <1>1 DEF NoAccess
    <2> QED BY <1>1, <2>1 DEF MapInv, AccessOf
  <1>3. o.page \in Int /\ o.last \in Int
    BY <1>2 DEF IsAccess
  <1>4. /\ r \in [start : Nat, size : Nat \ {0}]
        /\ FirstPage(r) <= o.page /\ o.last = LastPage(r)
        /\ \A g \in FirstPage(r)..(o.page - 1) : IsPresent(p, g)
    BY <1>1, <1>2 DEF AccessOf
  <1>5. /\ FirstPage(r) \in Nat
        /\ \A b \in r.start..(r.start + r.size - 1) : b \div FRAME_SIZE \in FirstPage(r)..LastPage(r)
        /\ \A g \in FirstPage(r)..LastPage(r) :
              \E b \in r.start..(r.start + r.size - 1) : b \div FRAME_SIZE = g
    BY <1>4, RangePages
  <1>6. CASE o.at = "yes"
    <2>1. o.page = o.last /\ IsPresent(p, o.page)
      BY <1>2, <1>6 DEF AccessOf
    <2>2. \A g \in FirstPage(r)..LastPage(r) : g \in FirstPage(r)..(o.page - 1) \/ g = o.page
      BY <1>3, <1>4, <1>5, <2>1
    <2>3. \A g \in FirstPage(r)..LastPage(r) : IsPresent(p, g)
      BY <1>4, <2>1, <2>2
    <2> QED BY <1>1, <1>5, <1>6, <2>3
  <1>7. CASE o.at = "no"
    <2>1. o.page \notin DOMAIN asked[p]
      BY <1>2, <1>7 DEF AccessOf
    <2>2. o.page \in FirstPage(r)..LastPage(r)
      BY <1>2, <1>3, <1>4, <1>5
    <2> QED BY <1>1, <1>5, <1>7, <2>1, <2>2
  <1> QED BY <1>1, <1>6, <1>7

\* Whatever mmap, munmap, fork and page faults do, some of them at once on a shared page,
\* every list covers the pages that were asked for, each once and with the right page of
\* the file, and a page that is present shows what mmap was asked to show.
THEOREM MapExact == MapSpec => []MappingsExact
  BY MapInvariant, MapInvExact, PTL

\* is_user_range_mapped says yes only if every byte of the range is on a present page, and
\* no only if some byte has no mapping.
THEOREM MapRangeAnswer == MapSpec => []RangeAnswerTrue
  BY MapInvariant, MapInvAnswers, PTL

-----------------------------------------------------------------------------
(***************************************************************************)
(* The kernel heap, for every size of the arena and every request.         *)
(***************************************************************************)

\* The block of a tiling that begins at i ends before e.
Block(H, i, e) == i \in H /\ e \in H /\ i < e /\ \A j \in H : j <= i \/ e <= j

\* The headers cut the arena into blocks of even length.
Tiling(H) ==
  /\ H \subseteq 0..len
  /\ 0 \in H /\ len \in H
  /\ \A i \in H : i % 2 = 0

IsHeap(h) == h \in [array : [Index -> Int], avail : Int]

\* Header and footer of every block but those in U, which an operation is working on,
\* hold its size and its taken bit.
Cut(h, H, U) ==
  \A i, e \in H : Block(H, i, e) /\ i \notin U =>
     h.array[i] \in {e - i, e - i + 1} /\ h.array[e - 1] = h.array[i]

\* The k-th element of a list, 0 before its first and behind its last one.
At(s, k) == IF k \in 1..Len(s) THEN s[k] ELSE 0

Listed(s) == {s[k] : k \in 1..Len(s)}

\* The links run through s in both directions.
Linked(h, s) ==
  /\ h.avail = At(s, 1)
  /\ \A k \in 1..Len(s) : NextOf(h, s[k]) = At(s, k + 1) /\ PrevOf(h, s[k]) = At(s, k - 1)

\* s holds the available blocks, each once, and each has room for the links.
Holds(h, H, U, s) ==
  /\ s \in Seq(H \ U)
  /\ \A j, k \in 1..Len(s) : s[j] = s[k] => j = k
  /\ \A k \in 1..Len(s) : s[k] > 0 /\ s[k] < len
  /\ \A i, e \in H : Block(H, i, e) /\ i \notin U =>
        /\ i \in Listed(s) <=> h.array[i] = e - i
        /\ i \in Listed(s) => e - i >= 4

\* The arena is in order but for the blocks in U.
Arena(h, H, U, s) ==
  IsHeap(h) /\ Tiling(H) /\ Cut(h, H, U) /\ Linked(h, s) /\ Holds(h, H, U, s)

-----------------------------------------------------------------------------
\* The arena has an even number of words, at least eight.
LEMMA LenFacts == len \in Nat /\ len >= 8 /\ len % 2 = 0
  <1>1. Bytes \in Nat /\ Bytes > 64
    BY HeapAssumption
  <1>2. PICK q \in Int : q = Bytes \div 16 /\ q >= 4
    BY <1>1
  <1>3. q * 2 >= 8 /\ (q * 2) % 2 = 0
    BY <1>2
  <1> QED BY <1>2, <1>3 DEF len

\* What header words say about the size and the taken bit.
LEMMA TagFacts ==
  ASSUME NEW n \in Int, n % 2 = 0
  PROVE  /\ n % 2 # 1 /\ (n \div 2) * 2 = n
         /\ (n + 1) % 2 = 1 /\ (n + 1) % 2 # 0 /\ ((n + 1) \div 2) * 2 = n
  OBVIOUS

\* Distances of even places are even.
LEMMA EvenFacts ==
  ASSUME NEW m \in Int, NEW n \in Int, m % 2 = 0, n % 2 = 0
  PROVE  (m - n) % 2 = 0 /\ (m + n) % 2 = 0 /\ (m < n => m + 2 <= n)
  OBVIOUS

\* Every header but len has an end, every header but 0 is one, and every word lies in a
\* block.
LEMMA BlockFrom ==
  ASSUME NEW H, Tiling(H), NEW i \in H, i < len
  PROVE  \E e \in H : Block(H, i, e)
  <1> DEFINE T == {j \in H : i < j}
  <1>10. H \subseteq 0..len /\ len \in H /\ len \in Nat
    BY LenFacts DEF Tiling
  <1>11. H \subseteq Nat /\ len \in T
    BY <1>10
  <1>1. T \subseteq Nat /\ T # {}
    BY <1>11
  <1>2. PICK e \in T : \A j \in T : e <= j
    BY <1>1, LeastNumber
  <1>3. H \subseteq Int
    BY LenFacts DEF Tiling
  <1>4. \A j \in H : j <= i \/ e <= j
    BY <1>2, <1>3
  <1> QED BY <1>2, <1>4 DEF Block

LEMMA WordInBlock ==
  ASSUME NEW H, Tiling(H), NEW w \in Index
  PROVE  \E i, e \in H : Block(H, i, e) /\ i <= w /\ w < e
  <1> DEFINE T == {j \in H : w < j}
  <1>10. H \subseteq 0..len /\ len \in H /\ 0 \in H /\ len \in Nat /\ w \in 0..len - 1
    BY LenFacts DEF Tiling, Index
  <1>11. H \subseteq Nat /\ len \in T
    BY <1>10
  <1>1. T \subseteq Nat /\ T # {}
    BY <1>11
  <1>2. PICK e \in T : \A j \in T : e <= j
    BY <1>1, LeastNumber
  <1> DEFINE G == {len - j : j \in {j \in H : j <= w}}
  <1>4. G \subseteq Nat /\ G # {}
    BY <1>10
  <1>5. PICK g \in G : \A x \in G : g <= x
    BY <1>4, LeastNumber
  <1>6. PICK i \in H : i <= w /\ g = len - i
    OBVIOUS
  <1>7. ASSUME NEW j \in H, j <= w PROVE j <= i
    <2>1. len - j \in G
      BY <1>7
    <2>2. g <= len - j
      BY <1>5, <2>1
    <2>3. j \in Int /\ i \in Int /\ len \in Int /\ g = len - i
      BY <1>10, <1>6
    <2> QED BY <2>2, <2>3
  <1>8. \A j \in H : j <= i \/ e <= j
    BY <1>10, <1>2, <1>7
  <1>9. e \in H /\ w < e /\ i < e
    BY <1>10, <1>2, <1>6
  <1> QED BY <1>6, <1>8, <1>9 DEF Block

LEMMA BlockTo ==
  ASSUME NEW H, Tiling(H), NEW e \in H, 0 < e
  PROVE  \E i \in H : Block(H, i, e)
  <1>1. e - 1 \in Index /\ H \subseteq Int
    BY LenFacts DEF Tiling, Index
  <1>2. PICK i \in H, f \in H : Block(H, i, f) /\ i <= e - 1 /\ e - 1 < f
    BY <1>1, WordInBlock
  <1>3. e = f
    BY <1>1, <1>2 DEF Block
  <1> QED BY <1>2, <1>3

\* What the operations on words find in a block that is in order.
LEMMA BlockFacts ==
  ASSUME NEW h, NEW H, NEW U, NEW s, Arena(h, H, U, s),
         NEW i \in H, NEW e \in H, Block(H, i, e)
  PROVE  /\ i \in Index /\ e - 1 \in Index /\ e \in Nat /\ e >= i + 2 /\ e <= len
         /\ (e - i) % 2 = 0
         /\ i \notin U =>
              /\ Size(h, i) = e - i /\ Size(h, e - 1) = e - i
              /\ Right(h, i) = e /\ Left(h, e) = i
              /\ h.array[e - 1] = h.array[i]
              /\ IsAvail(h, i) <=> i \in Listed(s)
              /\ IsTaken(h, i) <=> i \notin Listed(s)
              /\ i \in Listed(s) => e >= i + 4
  <1>1. i \in 0..len /\ e \in 0..len /\ i % 2 = 0 /\ e % 2 = 0 /\ i < e /\ len \in Nat
    BY LenFacts DEF Arena, Tiling, Block
  <1>2. (e - i) % 2 = 0 /\ i + 2 <= e
    BY <1>1, EvenFacts
  <1>3. i \in Index /\ e - 1 \in Index /\ e \in Nat
    BY <1>1, LenFacts DEF Index
  <1>4. ASSUME i \notin U
        PROVE  /\ Size(h, i) = e - i /\ Size(h, e - 1) = e - i
               /\ h.array[e - 1] = h.array[i]
               /\ IsAvail(h, i) <=> i \in Listed(s)
               /\ IsTaken(h, i) <=> i \notin Listed(s)
               /\ i \in Listed(s) => e >= i + 4
    <2>1. /\ h.array[i] = e - i \/ h.array[i] = e - i + 1
          /\ h.array[e - 1] = h.array[i]
      BY <1>4 DEF Arena, Cut
    <2>2. /\ i \in Listed(s) <=> h.array[i] = e - i
          /\ i \in Listed(s) => e - i >= 4
      BY <1>4 DEF Arena, Holds
    <2>3. CASE h.array[i] = e - i
      BY <2>1, <2>2, <2>3, <1>1, <1>2, TagFacts DEF Size, IsAvail, IsTaken
    <2>4. CASE h.array[i] = e - i + 1
      BY <2>1, <2>2, <2>4, <1>1, <1>2, TagFacts DEF Size, IsAvail, IsTaken
    <2> QED BY <2>1, <2>3, <2>4
  <1> QED BY <1>1, <1>2, <1>3, <1>4 DEF Right, Left

\* Two blocks of the list lie apart, and the words with their links are neither header
\* nor footer of a block.
LEMMA ListedFacts ==
  ASSUME NEW h, NEW H, NEW U, NEW s, Arena(h, H, U, s), NEW x \in Listed(s)
  PROVE  /\ x \in H /\ x \notin U /\ x \in Nat /\ x > 0 /\ x < len
         /\ x + 1 \in Index /\ x + 2 \in Index
         /\ \A y \in Listed(s) : y # x => x + 4 <= y \/ y + 4 <= x
         /\ \A i, e \in H : Block(H, i, e) =>
               i # x + 1 /\ i # x + 2 /\ e - 1 # x + 1 /\ e - 1 # x + 2
  <1>1. /\ s \in Seq(H \ U) /\ Tiling(H)
        /\ \A k \in 1..Len(s) : s[k] > 0 /\ s[k] < len
    BY DEF Arena, Holds
  <1>2. H \subseteq Nat
    BY <1>1, LenFacts DEF Tiling
  <1>3. \A y \in Listed(s) : y \in H /\ y \notin U /\ y > 0 /\ y < len /\ y \in Nat
    <2> TAKE y \in Listed(s)
    <2>1. PICK k \in 1..Len(s) : y = s[k]
      BY DEF Listed
    <2>2. s[k] \in H \ U
      BY <1>1, <2>1, ElementOfSeq
    <2> QED BY <1>1, <1>2, <2>1, <2>2
  <1>4. \A y \in Listed(s) : \E f \in H : Block(H, y, f) /\ f >= y + 4 /\ f <= len /\ f \in Nat
    <2> TAKE y \in Listed(s)
    <2>1. PICK f \in H : Block(H, y, f)
      BY <1>1, <1>3, BlockFrom
    <2> QED BY <1>3, <2>1, BlockFacts
  <1>5. PICK f \in H : Block(H, x, f) /\ f >= x + 4 /\ f <= len /\ f \in Nat
    BY <1>4
  <1>6. x + 1 \in Index /\ x + 2 \in Index
    BY <1>3, <1>5, LenFacts DEF Index
  <1>7. ASSUME NEW y \in Listed(s), y # x PROVE x + 4 <= y \/ y + 4 <= x
    <2>1. PICK g \in H : Block(H, y, g) /\ g >= y + 4 /\ g <= len /\ g \in Nat
      BY <1>4
    <2>2. (y <= x \/ f <= y) /\ (x <= y \/ g <= x)
      BY <1>3, <1>5, <2>1 DEF Block
    <2> QED BY <1>3, <1>5, <1>7, <2>1, <2>2
  <1>8. ASSUME NEW i \in H, NEW e \in H, Block(H, i, e)
        PROVE  i # x + 1 /\ i # x + 2 /\ e - 1 # x + 1 /\ e - 1 # x + 2
    <2>1. i \in Nat /\ e \in Nat /\ (i <= x \/ f <= i) /\ (e <= x \/ f <= e)
      BY <1>2, <1>5, <1>8 DEF Block
    <2> QED BY <1>3, <1>5, <2>1
  <1> QED BY <1>3, <1>6, <1>7, <1>8

-----------------------------------------------------------------------------
(* What the operations do to the words: g is what h becomes.               *)

\* Word w is set to x.
IsSet(g, h, w, x) ==
  /\ IsHeap(g) /\ g.avail = h.avail /\ g.array[w] = x
  /\ \A j \in Index : j # w => g.array[j] = h.array[j]

\* The n words from i on are bounded by x.
IsBounded(g, h, i, n, x) ==
  /\ IsHeap(g) /\ g.avail = h.avail
  /\ g.array[i] = x /\ g.array[i + n - 1] = x
  /\ \A j \in Index : j < i \/ j > i + n - 1 => g.array[j] = h.array[j]

\* A block between p and n is taken out of the list.
IsUnlinked(g, h, p, n) ==
  /\ IsHeap(g)
  /\ p = 0 => g.avail = n
  /\ p # 0 => g.avail = h.avail /\ g.array[p + 1] = n
  /\ n # 0 => g.array[n + 2] = p
  /\ \A j \in Index : (p = 0 \/ j # p + 1) /\ (n = 0 \/ j # n + 2) => g.array[j] = h.array[j]

\* The block of n words at i becomes the first of the list.
IsPushed(g, h, i, n) ==
  /\ IsHeap(g) /\ g.avail = i
  /\ g.array[i] = n /\ g.array[i + n - 1] = n
  /\ NextOf(g, i) = h.avail /\ PrevOf(g, i) = 0
  /\ h.avail # 0 => g.array[h.avail + 2] = i
  /\ \A j \in Index : (j < i \/ j > i + n - 1) /\ (h.avail = 0 \/ j # h.avail + 2) =>
        g.array[j] = h.array[j]

\* What the stores of malloc and free change, word by word.
LEMMA SetWords ==
  ASSUME NEW h, IsHeap(h), NEW w \in Index, NEW x \in Int
  PROVE  IsSet(Set(h, w, x), h, w, x)
  BY DEF IsHeap, Set, IsSet

LEMMA SetAvail ==
  ASSUME NEW h, IsHeap(h), NEW x \in Int
  PROVE  /\ IsHeap([h EXCEPT !.avail = x]) /\ [h EXCEPT !.avail = x].avail = x
         /\ [h EXCEPT !.avail = x].array = h.array
  BY DEF IsHeap

LEMMA BoundWords ==
  ASSUME NEW h, IsHeap(h), NEW i \in Index, NEW n \in Int, n >= 1, i + n - 1 \in Index,
         NEW x \in Int
  PROVE  IsBounded(Bound(h, i, n, x), h, i, n, x)
  <1> DEFINE a == [j \in Index |-> IF j \in {i, i + n - 1} THEN x
                                   ELSE IF j \in i + 1 .. i + n - 2 THEN Junk
                                   ELSE h.array[j]]
  <1>1. Bound(h, i, n, x) = [h EXCEPT !.array = a]
    BY DEF Bound
  <1>2. a \in [Index -> Int]
    BY DEF IsHeap, Junk
  <1>3. IsHeap(Bound(h, i, n, x)) /\ Bound(h, i, n, x).avail = h.avail
        /\ Bound(h, i, n, x).array = a
    BY <1>1, <1>2 DEF IsHeap
  <1>4. Index \subseteq Int
    BY LenFacts DEF Index
  <1>5. \A j \in Index : j < i \/ j > i + n - 1 => a[j] = h.array[j]
    BY <1>4
  <1>6. a[i] = x /\ a[i + n - 1] = x
    BY <1>4
  <1> QED BY <1>3, <1>5, <1>6 DEF IsBounded

LEMMA UnlinkWords ==
  ASSUME NEW h, IsHeap(h), NEW i \in Index, i + 1 \in Index, i + 2 \in Index,
         NEW p, p = PrevOf(h, i), NEW n, n = NextOf(h, i),
         p = 0 \/ p + 1 \in Index, n = 0 \/ n + 2 \in Index,
         p # 0 /\ n # 0 => p + 1 # n + 2
  PROVE  IsUnlinked(Unlink(h, i), h, p, n)
  <1> DEFINE h1 == IF p = 0 THEN [h EXCEPT !.avail = n] ELSE Set(h, p + 1, n)
             g == IF n # 0 THEN Set(h1, n + 2, p) ELSE h1
  <1>1. Unlink(h, i) = g
    BY DEF Unlink
  <1>2. n \in Int /\ p \in Int
    BY DEF IsHeap, NextOf, PrevOf
  <1>3. /\ IsHeap(h1)
        /\ p = 0 => h1.avail = n
        /\ p # 0 => h1.avail = h.avail /\ h1.array[p + 1] = n
        /\ \A j \in Index : (p = 0 \/ j # p + 1) => h1.array[j] = h.array[j]
    <2>1. CASE p = 0
      BY <1>2, <2>1, SetAvail
    <2>2. CASE p # 0
      <3>1. IsSet(Set(h, p + 1, n), h, p + 1, n)
        BY <1>2, <2>2, SetWords, Zenon
      <3> QED BY <2>2, <3>1 DEF IsSet
    <2> QED BY <2>1, <2>2
  <1> HIDE DEF h1
  <1>4. /\ IsHeap(g) /\ g.avail = h1.avail
        /\ n # 0 => g.array[n + 2] = p
        /\ \A j \in Index : (n = 0 \/ j # n + 2) => g.array[j] = h1.array[j]
    <2>1. CASE n = 0
      BY <1>3, <2>1
    <2>2. CASE n # 0
      <3>1. IsSet(Set(h1, n + 2, p), h1, n + 2, p)
        BY <1>2, <1>3, <2>2, SetWords, Zenon
      <3> QED BY <2>2, <3>1 DEF IsSet
    <2> QED BY <2>1, <2>2
  <1> HIDE DEF g
  <1>5. p # 0 => g.array[p + 1] = n
    BY <1>2, <1>3, <1>4
  <1> QED BY <1>1, <1>3, <1>4, <1>5 DEF IsUnlinked

LEMMA MakeAvailWords ==
  ASSUME NEW h, IsHeap(h), NEW i \in Index, NEW n \in Int, n >= 4, i + n - 1 \in Index,
         h.avail = 0 \/ (h.avail + 2 \in Index /\ (h.avail + 2 < i \/ h.avail + 2 > i + n - 1))
  PROVE  IsPushed(MakeAvail(h, i, n), h, i, n)
  <1> DEFINE b == Bound(h, i, n, n)
             c == Set(b, i + 1, h.avail)
             d == Set(c, i + 2, 0)
             f == IF h.avail # 0 THEN Set(d, h.avail + 2, i) ELSE d
             g == [f EXCEPT !.avail = i]
  <1>1. MakeAvail(h, i, n) = g
    BY DEF MakeAvail
  <1>2. i \in Int /\ h.avail \in Int /\ i + 1 \in Index /\ i + 2 \in Index /\ 0 \in Int /\ n >= 1
    BY LenFacts DEF IsHeap, Index
  <1>3. IsBounded(b, h, i, n, n)
    BY <1>2, BoundWords
  <1> HIDE DEF b
  <1>4. IsSet(c, b, i + 1, h.avail)
    BY <1>2, <1>3, SetWords, Zenon DEF IsBounded
  <1> HIDE DEF c
  <1>5. IsSet(d, c, i + 2, 0)
    <2>1. IsHeap(c)
      BY <1>4 DEF IsSet
    <2> QED BY <1>2, <2>1, SetWords, Zenon
  <1> HIDE DEF d
  <1>6. /\ IsHeap(f)
        /\ h.avail # 0 => f.array[h.avail + 2] = i
        /\ \A j \in Index : (h.avail = 0 \/ j # h.avail + 2) => f.array[j] = d.array[j]
    <2>1. CASE h.avail = 0
      BY <1>5, <2>1 DEF IsSet
    <2>2. CASE h.avail # 0
      <3>1. IsHeap(d)
        BY <1>5 DEF IsSet
      <3>2. IsSet(Set(d, h.avail + 2, i), d, h.avail + 2, i)
        BY <1>2, <3>1, <2>2, SetWords, Zenon
      <3> QED BY <2>2, <3>2 DEF IsSet
    <2> QED BY <2>1, <2>2
  <1> HIDE DEF f
  <1>7. IsHeap(g) /\ g.avail = i /\ g.array = f.array
    BY <1>2, <1>6, SetAvail
  <1> HIDE DEF g
  <1>8. \A j \in i..i + n - 1 : j \in Index /\ j \in Int /\ (h.avail = 0 \/ j # h.avail + 2)
    BY LenFacts DEF Index
  <1>9. i \in i..i + n - 1 /\ i + 1 \in i..i + n - 1 /\ i + 2 \in i..i + n - 1 /\ i + n - 1 \in i..i + n - 1
    BY <1>2
  <1>10. \A j \in i..i + n - 1 : j # i + 1 /\ j # i + 2 => g.array[j] = b.array[j]
    BY <1>4, <1>5, <1>6, <1>7, <1>8 DEF IsSet
  <1>11. g.array[i] = n /\ g.array[i + n - 1] = n
    <2>1. i + n - 1 # i + 1 /\ i + n - 1 # i + 2 /\ i # i + 1 /\ i # i + 2
      BY <1>2
    <2> QED BY <2>1, <1>3, <1>9, <1>10 DEF IsBounded
  <1>12. g.array[i + 1] = h.avail
    <2>1. i + 1 # i + 2
      BY <1>2
    <2> QED BY <2>1, <1>2, <1>4, <1>5, <1>6, <1>7, <1>8, <1>9 DEF IsSet
  <1>13. g.array[i + 2] = 0
    BY <1>2, <1>5, <1>6, <1>7, <1>8, <1>9 DEF IsSet
  <1>14. ASSUME NEW j \in Index, j < i \/ j > i + n - 1, h.avail = 0 \/ j # h.avail + 2
         PROVE  g.array[j] = h.array[j]
    <2>1. j # i + 1 /\ j # i + 2
      BY <1>2, <1>14, LenFacts DEF Index
    <2>2. b.array[j] = h.array[j]
      BY <1>3, <1>14 DEF IsBounded
    <2> QED BY <1>14, <2>1, <2>2, <1>4, <1>5, <1>6, <1>7 DEF IsSet
  <1>15. h.avail # 0 => g.array[h.avail + 2] = i
    BY <1>6, <1>7
  <1> QED BY <1>1, <1>7, <1>11, <1>12, <1>13, <1>14, <1>15 DEF NextOf, PrevOf, IsPushed

-----------------------------------------------------------------------------
\* The list without its k-th element.
Without(s, k) == [j \in 1..Len(s) - 1 |-> IF j < k THEN s[j] ELSE s[j + 1]]

IsWithout(w, s, k, S) ==
  /\ w \in Seq(S \ {s[k]}) /\ Len(w) = Len(s) - 1
  /\ \A i, j \in 1..Len(s) - 1 : w[i] = w[j] => i = j
  /\ \A j \in 0..Len(s) : At(w, j) = IF j < k THEN At(s, j) ELSE At(s, j + 1)
  /\ Listed(w) = Listed(s) \ {s[k]}
  /\ \A j \in 1..Len(s) - 1 : w[j] = s[IF j < k THEN j ELSE j + 1]

LEMMA WithoutFacts ==
  ASSUME NEW S, NEW s \in Seq(S), NEW k \in 1..Len(s),
         \A i, j \in 1..Len(s) : s[i] = s[j] => i = j
  PROVE  IsWithout(Without(s, k), s, k, S)
  <1> DEFINE w == Without(s, k)
  <1>1. Len(s) \in Nat /\ Len(s) >= 1 /\ k \in Int
    BY LenProperties
  <1>2. \A j \in 1..Len(s) : s[j] \in S
    BY ElementOfSeq
  <1>3. \A j \in 1..Len(s) - 1 : w[j] = s[IF j < k THEN j ELSE j + 1]
    BY <1>1 DEF Without
  <1>4. \A j \in 1..Len(s) - 1 : w[j] \in S \ {s[k]}
    <2> TAKE j \in 1..Len(s) - 1
    <2> DEFINE m == IF j < k THEN j ELSE j + 1
    <2>1. m \in 1..Len(s) /\ m # k
      BY <1>1
    <2>2. w[j] = s[m]
      BY <1>3
    <2> HIDE DEF m
    <2> QED BY <1>2, <2>1, <2>2
  <1>5. w \in [1..Len(s) - 1 -> S \ {s[k]}]
    BY <1>4 DEF Without
  <1>6. w \in Seq(S \ {s[k]}) /\ Len(w) = Len(s) - 1
    BY <1>1, <1>5, IsASeq, Len(s) - 1 \in Nat
  <1>7. ASSUME NEW i \in 1..Len(s) - 1, NEW j \in 1..Len(s) - 1, w[i] = w[j] PROVE i = j
    BY <1>1, <1>3, <1>7, SMTT(30)
  <1>8. ASSUME NEW j \in 0..Len(s)
        PROVE  At(w, j) = IF j < k THEN At(s, j) ELSE At(s, j + 1)
    <2>1. CASE j \in 1..Len(s) - 1
      BY <2>1, <1>1, <1>3, <1>6 DEF At
    <2>2. CASE j \notin 1..Len(s) - 1
      <3>1. At(w, j) = 0
        BY <2>2, <1>6 DEF At
      <3>2. j = 0 \/ j = Len(s)
        BY <1>1, <2>2
      <3>3. CASE j = 0
        BY <1>1, <3>1, <3>3 DEF At
      <3>4. CASE j = Len(s)
        BY <1>1, <3>1, <3>4 DEF At
      <3> QED BY <3>2, <3>3, <3>4
    <2> QED BY <2>1, <2>2
  <1>9. Listed(w) = Listed(s) \ {s[k]}
    <2>1. ASSUME NEW y \in Listed(w) PROVE y \in Listed(s) \ {s[k]}
      <3>1. PICK j \in 1..Len(s) - 1 : y = w[j]
        BY <1>6 DEF Listed
      <3>2. (IF j < k THEN j ELSE j + 1) \in 1..Len(s)
        BY <1>1
      <3> QED BY <1>3, <1>4, <3>1, <3>2 DEF Listed
    <2>2. ASSUME NEW y \in Listed(s) \ {s[k]} PROVE y \in Listed(w)
      <3>1. PICK m \in 1..Len(s) : y = s[m]
        BY DEF Listed
      <3>2. m # k
        BY <2>2, <3>1
      <3>3. CASE m < k
        <4>1. m \in 1..Len(w) /\ w[m] = s[m]
          BY <1>1, <1>3, <1>6, <3>3
        <4> QED BY <3>1, <4>1 DEF Listed
      <3>4. CASE m > k
        <4>1. m - 1 \in 1..Len(w) /\ w[m - 1] = s[m]
          <5>1. m - 1 \in 1..Len(s) - 1 /\ ~(m - 1 < k) /\ (m - 1) + 1 = m
            BY <1>1, <3>4
          <5> QED BY <1>3, <1>6, <5>1
        <4> QED BY <3>1, <4>1 DEF Listed
      <3> QED BY <1>1, <3>2, <3>3, <3>4
    <2> QED BY <2>1, <2>2
  <1> HIDE DEF w
  <1> QED BY <1>3, <1>6, <1>7, <1>8, <1>9 DEF IsWithout, w

\* A block is taken out of the list and is worked on from here on.
LEMMA UnlinkArena ==
  ASSUME NEW h, NEW H, NEW U, NEW s, Arena(h, H, U, s), NEW k \in 1..Len(s)
  PROVE  Arena(Unlink(h, s[k]), H, U \cup {s[k]}, Without(s, k))
  <1> DEFINE i == s[k]
             g == Unlink(h, i)
             w == Without(s, k)
             p == PrevOf(h, i)
             n == NextOf(h, i)
  <1>1. /\ IsHeap(h) /\ Tiling(H) /\ Cut(h, H, U) /\ Linked(h, s) /\ Holds(h, H, U, s)
        /\ s \in Seq(H \ U) /\ Len(s) \in Nat /\ k \in Int
        /\ \A a, b \in 1..Len(s) : s[a] = s[b] => a = b
    BY LenProperties DEF Arena, Holds
  <1>2. n = At(s, k + 1) /\ p = At(s, k - 1)
    BY <1>1 DEF Linked
  <1>3. \A j \in 1..Len(s) : s[j] \in Listed(s)
    BY DEF Listed
  <1>4. p # 0 => k - 1 \in 1..Len(s) /\ p = s[k - 1]
    BY <1>2 DEF At
  <1>5. n # 0 => k + 1 \in 1..Len(s) /\ n = s[k + 1]
    BY <1>2 DEF At
  <1>6. /\ i \in Index /\ i + 1 \in Index /\ i + 2 \in Index
        /\ p = 0 \/ p + 1 \in Index
        /\ n = 0 \/ n + 2 \in Index
    <2>1. \A x \in Listed(s) : x \in Index /\ x + 1 \in Index /\ x + 2 \in Index
      <3> TAKE x \in Listed(s)
      <3>1. x \in Nat /\ x < len /\ x + 1 \in Index /\ x + 2 \in Index
        BY ListedFacts
      <3> QED BY <3>1, LenFacts DEF Index
    <2>2. i \in Listed(s) /\ (p # 0 => p \in Listed(s)) /\ (n # 0 => n \in Listed(s))
      BY <1>3, <1>4, <1>5
    <2> HIDE DEF i, p, n
    <2> QED BY <2>1, <2>2
  <1>7. p # 0 /\ n # 0 => p + 1 # n + 2
    <2> SUFFICES ASSUME p # 0, n # 0 PROVE p + 1 # n + 2
      OBVIOUS
    <2>1. p # n
      <3>1. k - 1 # k + 1
        BY <1>1
      <3> QED BY <1>1, <1>4, <1>5, <3>1
    <2>2. p \in Listed(s) /\ n \in Listed(s)
      BY <1>3, <1>4, <1>5
    <2>3. p \in Nat /\ n \in Nat /\ (p + 4 <= n \/ n + 4 <= p)
      BY <2>1, <2>2, ListedFacts
    <2> QED BY <2>3
  <1>8. IsUnlinked(g, h, p, n)
    <2> HIDE DEF i
    <2>1. p = PrevOf(h, i) /\ n = NextOf(h, i)
      OBVIOUS
    <2> HIDE DEF p, n
    <2> QED BY <1>1, <1>6, <1>7, <2>1, UnlinkWords, Zenon
  <1>9. /\ w \in Seq((H \ U) \ {i}) /\ Len(w) = Len(s) - 1
        /\ \A a, b \in 1..Len(w) : w[a] = w[b] => a = b
        /\ \A j \in 0..Len(s) : At(w, j) = IF j < k THEN At(s, j) ELSE At(s, j + 1)
        /\ Listed(w) = Listed(s) \ {i}
        /\ \A j \in 1..Len(w) : w[j] = s[IF j < k THEN j ELSE j + 1]
    <2>1. IsWithout(w, s, k, H \ U)
      BY <1>1, WithoutFacts, Zenon
    <2> HIDE DEF w, g, p, n
    <2> QED BY <2>1 DEF IsWithout
  <1> HIDE DEF w, g, p, n
  \* Headers and footers are not changed.
  <1>10. \A a, e \in H : Block(H, a, e) =>
           g.array[a] = h.array[a] /\ g.array[e - 1] = h.array[e - 1]
    <2> TAKE a, e \in H
    <2> HAVE Block(H, a, e)
    <2>1. a \in Index /\ e - 1 \in Index
      BY BlockFacts
    <2>2. p # 0 => a # p + 1 /\ e - 1 # p + 1
      <3> SUFFICES ASSUME p # 0 PROVE a # p + 1 /\ e - 1 # p + 1
        OBVIOUS
      <3>1. p \in Listed(s)
        BY <1>3, <1>4
      <3> QED BY <3>1, ListedFacts
    <2>3. n # 0 => a # n + 2 /\ e - 1 # n + 2
      <3> SUFFICES ASSUME n # 0 PROVE a # n + 2 /\ e - 1 # n + 2
        OBVIOUS
      <3>1. n \in Listed(s)
        BY <1>3, <1>5
      <3> QED BY <3>1, ListedFacts
    <2> QED BY <1>8, <2>1, <2>2, <2>3 DEF IsUnlinked
  <1>11. Cut(g, H, U \cup {i})
    BY <1>1, <1>10 DEF Cut
  <1>12. g.avail = At(w, 1)
    <2>1. At(w, 1) = IF 1 < k THEN At(s, 1) ELSE At(s, 2)
      BY <1>1, <1>9
    <2>2. CASE k = 1
      <3>1. p = 0
        BY <1>2, <2>2 DEF At
      <3> QED BY <1>2, <1>8, <2>1, <2>2, <3>1 DEF IsUnlinked
    <2>3. CASE k # 1
      <3>1. k - 1 \in 1..Len(s) /\ p = s[k - 1] /\ 1 < k
        BY <1>1, <1>2, <2>3 DEF At
      <3>2. p # 0
        BY <1>1, <3>1 DEF Holds
      <3> QED BY <1>1, <1>8, <2>1, <3>1, <3>2 DEF IsUnlinked, Linked
    <2> QED BY <2>2, <2>3
  <1>13. ASSUME NEW m \in 1..Len(s), m # k
         PROVE  /\ NextOf(g, s[m]) = IF m = k - 1 THEN n ELSE At(s, m + 1)
                /\ PrevOf(g, s[m]) = IF m = k + 1 THEN p ELSE At(s, m - 1)
    <2> DEFINE x == s[m]
    <2>1. /\ x \in Nat /\ x + 1 \in Index /\ x + 2 \in Index /\ x # 0
          /\ \A y \in Listed(s) : y # x => x + 4 <= y \/ y + 4 <= x
      BY <1>3, ListedFacts
    <2>2. NextOf(h, x) = At(s, m + 1) /\ PrevOf(h, x) = At(s, m - 1)
      BY <1>1 DEF Linked
    <2>3. p # 0 => p \in Nat /\ (p = x <=> m = k - 1) /\ (p # x => x + 4 <= p \/ p + 4 <= x)
      BY <1>1, <1>3, <1>4, <2>1, ListedFacts, SMTT(30)
    <2>4. n # 0 => n \in Nat /\ (n = x <=> m = k + 1) /\ (n # x => x + 4 <= n \/ n + 4 <= x)
      BY <1>1, <1>3, <1>5, <2>1, ListedFacts
    <2>5. m = k - 1 => p = x
      BY <1>1, <1>2 DEF At
    <2>6. m = k + 1 => n = x
      BY <1>1, <1>2 DEF At
    <2> HIDE DEF x
    <2>7. NextOf(g, x) = IF m = k - 1 THEN n ELSE At(s, m + 1)
      <3>1. n = 0 \/ x + 1 # n + 2
        BY <2>1, <2>4
      <3>2. CASE m = k - 1
        BY <1>8, <2>1, <2>5, <3>2 DEF IsUnlinked, NextOf
      <3>3. CASE m # k - 1
        <4>1. p = 0 \/ x + 1 # p + 1
          BY <2>1, <2>3, <3>3
        <4> QED BY <1>8, <2>1, <2>2, <3>1, <3>3, <4>1 DEF IsUnlinked, NextOf
      <3> QED BY <3>2, <3>3
    <2>8. PrevOf(g, x) = IF m = k + 1 THEN p ELSE At(s, m - 1)
      <3>1. p = 0 \/ x + 2 # p + 1
        BY <2>1, <2>3
      <3>2. CASE m = k + 1
        BY <1>8, <2>1, <2>6, <3>2 DEF IsUnlinked, PrevOf
      <3>3. CASE m # k + 1
        <4>1. n = 0 \/ x + 2 # n + 2
          BY <2>1, <2>4, <3>3
        <4> QED BY <1>8, <2>1, <2>2, <3>1, <3>3, <4>1 DEF IsUnlinked, PrevOf
      <3> QED BY <3>2, <3>3
    <2> QED BY <2>7, <2>8 DEF x
  <1>14. ASSUME NEW j \in 1..Len(w)
         PROVE  NextOf(g, w[j]) = At(w, j + 1) /\ PrevOf(g, w[j]) = At(w, j - 1)
    <2>1. j \in Int /\ j + 1 \in 0..Len(s) /\ j - 1 \in 0..Len(s)
      BY <1>1, <1>9
    <2>2. /\ At(w, j + 1) = IF j + 1 < k THEN At(s, j + 1) ELSE At(s, j + 2)
          /\ At(w, j - 1) = IF j - 1 < k THEN At(s, j - 1) ELSE At(s, j)
      BY <1>9, <2>1
    <2>3. CASE j < k
      <3>1. w[j] = s[j] /\ j \in 1..Len(s) /\ j # k /\ j # k + 1 /\ j - 1 < k
        BY <1>1, <1>9, <2>1, <2>3
      <3>2. CASE j = k - 1
        BY <1>1, <1>2, <1>13, <2>1, <2>2, <3>1, <3>2
      <3>3. CASE j # k - 1
        BY <1>1, <1>13, <2>1, <2>2, <2>3, <3>1, <3>3
      <3> QED BY <3>2, <3>3
    <2>4. CASE ~(j < k)
      <3>1. w[j] = s[j + 1] /\ j + 1 \in 1..Len(s) /\ j + 1 # k /\ j + 1 # k - 1 /\ ~(j + 1 < k)
        <4>1. j + 1 \in 1..Len(s) /\ j + 1 # k /\ j + 1 # k - 1 /\ ~(j + 1 < k)
          BY <1>1, <1>9, <2>1, <2>4
        <4> QED BY <1>9, <2>4, <4>1
      <3>2. NextOf(g, w[j]) = At(s, j + 2)
        BY <1>1, <1>13, <2>1, <3>1
      <3>3. PrevOf(g, w[j]) = IF j = k THEN p ELSE At(s, j)
        BY <1>1, <1>13, <2>1, <3>1
      <3>4. CASE j = k
        BY <1>1, <1>2, <2>2, <3>1, <3>2, <3>3, <3>4
      <3>5. CASE j # k
        BY <1>1, <2>1, <2>2, <2>4, <3>1, <3>2, <3>3, <3>5
      <3> QED BY <3>4, <3>5
    <2> QED BY <2>3, <2>4
  <1>15. Linked(g, w)
    BY <1>12, <1>14 DEF Linked
  <1>16. Holds(g, H, U \cup {i}, w)
    <2>1. (H \ U) \ {i} = H \ (U \cup {i})
      OBVIOUS
    <2>2. \A j \in 1..Len(w) : w[j] > 0 /\ w[j] < len
      <3> TAKE j \in 1..Len(w)
      <3>1. w[j] \in Listed(s)
        BY <1>9 DEF Listed
      <3> QED BY <3>1, ListedFacts
    <2>3. \A a, e \in H : Block(H, a, e) /\ a \notin U \cup {i} =>
            /\ a \in Listed(w) <=> g.array[a] = e - a
            /\ a \in Listed(w) => e - a >= 4
      BY <1>1, <1>9, <1>10 DEF Holds
    <2> QED BY <1>9, <2>1, <2>2, <2>3 DEF Holds
  <1>17. IsHeap(g)
    BY <1>8 DEF IsUnlinked
  <1> QED BY <1>1, <1>11, <1>15, <1>16, <1>17 DEF Arena, w, g

-----------------------------------------------------------------------------
(* Blocks that become taken or available, are joined, split or detached.   *)

\* Other blocks lie on one side of a block, and so do the links of the listed ones if it
\* is being worked on.
LEMMA Outside ==
  ASSUME NEW h, NEW H, NEW U, NEW s, Arena(h, H, U, s),
         NEW i \in H, NEW e \in H, Block(H, i, e)
  PROVE  /\ \A a, f \in H : Block(H, a, f) /\ a # i =>
               (a < i /\ f - 1 < i) \/ (a > e - 1 /\ f - 1 > e - 1)
         /\ i \in U => \A x \in Listed(s) : x + 2 < i \/ x > e - 1
  <1>1. H \subseteq Nat /\ Tiling(H)
    BY LenFacts DEF Arena, Tiling
  <1>2. ASSUME NEW a \in H, NEW f \in H, Block(H, a, f), a # i
        PROVE  (a < i /\ f - 1 < i) \/ (a > e - 1 /\ f - 1 > e - 1)
    <2>1. /\ a \in Nat /\ f \in Nat /\ i \in Nat /\ e \in Nat /\ a < f /\ i < e
          /\ a <= i \/ e <= a
          /\ i <= a \/ f <= i
      BY <1>1, <1>2 DEF Block
    <2> QED BY <1>2, <2>1
  <1>3. ASSUME i \in U, NEW x \in Listed(s) PROVE x + 2 < i \/ x > e - 1
    <2>1. x \in H /\ x \notin U /\ x \in Nat /\ x < len
      BY ListedFacts
    <2>2. PICK f \in H : Block(H, x, f)
      BY <1>1, <2>1, BlockFrom
    <2>3. f \in Nat /\ f >= x + 4
      BY <2>1, <2>2, BlockFacts
    <2>4. x # i
      BY <1>3, <2>1
    <2>5. (x < i /\ f - 1 < i) \/ (x > e - 1 /\ f - 1 > e - 1)
      BY <1>2, <2>1, <2>2, <2>4
    <2>6. i \in Nat /\ e \in Nat
      BY <1>1
    <2> QED BY <2>1, <2>3, <2>5, <2>6
  <1> QED BY <1>2, <1>3

\* The block at i becomes taken.
LEMMA TakenArena ==
  ASSUME NEW h, NEW H, NEW U, NEW s, Arena(h, H, U, s),
         NEW i \in H, NEW e \in H, Block(H, i, e), i \in U
  PROVE  Arena(MakeTaken(h, i, e - i), H, U \ {i}, s)
  <1> DEFINE g == MakeTaken(h, i, e - i)
  <1>1. /\ IsHeap(h) /\ Tiling(H) /\ Cut(h, H, U) /\ Linked(h, s) /\ Holds(h, H, U, s)
    BY DEF Arena
  <1>2. /\ i \in Index /\ e - 1 \in Index /\ e \in Nat /\ e >= i + 2 /\ i \in Int
        /\ i + (e - i) - 1 = e - 1
    <2>1. i \in Index /\ e - 1 \in Index /\ e \in Nat /\ e >= i + 2
      BY BlockFacts
    <2> QED BY <2>1, LenFacts DEF Index
  <1>3. IsBounded(g, h, i, e - i, e - i + 1)
    <2>1. e - i \in Int /\ e - i >= 1 /\ i + (e - i) - 1 \in Index /\ e - i + 1 \in Int
      BY <1>2
    <2> QED BY <1>1, <1>2, <2>1, BoundWords DEF MakeTaken
  <1>4. /\ IsHeap(g) /\ g.avail = h.avail
        /\ g.array[i] = e - i + 1 /\ g.array[e - 1] = e - i + 1
        /\ \A j \in Index : j < i \/ j > e - 1 => g.array[j] = h.array[j]
    BY <1>2, <1>3 DEF IsBounded
  <1> HIDE DEF g
  <1>5. ASSUME NEW a \in H, NEW f \in H, Block(H, a, f), a # i
        PROVE  g.array[a] = h.array[a] /\ g.array[f - 1] = h.array[f - 1]
    <2>1. a \in Index /\ f - 1 \in Index
      BY <1>5, BlockFacts
    <2>2. (a < i /\ f - 1 < i) \/ (a > e - 1 /\ f - 1 > e - 1)
      BY <1>5, Outside
    <2> QED BY <1>4, <2>1, <2>2
  <1>6. \A f \in H : Block(H, i, f) => f = e
    BY <1>1, <1>2, LenFacts DEF Block, Tiling
  <1>7. Cut(g, H, U \ {i})
    <2> SUFFICES ASSUME NEW a \in H, NEW f \in H, Block(H, a, f), a \notin U \ {i}
                 PROVE  g.array[a] \in {f - a, f - a + 1} /\ g.array[f - 1] = g.array[a]
      BY DEF Cut
    <2>1. CASE a = i
      BY <1>4, <1>6, <2>1
    <2>2. CASE a # i
      BY <1>1, <1>5, <2>2 DEF Cut
    <2> QED BY <2>1, <2>2
  <1>8. ASSUME NEW x \in Listed(s)
        PROVE  NextOf(g, x) = NextOf(h, x) /\ PrevOf(g, x) = PrevOf(h, x)
    <2>1. x \in Nat /\ x + 1 \in Index /\ x + 2 \in Index
      BY ListedFacts
    <2>2. x + 2 < i \/ x > e - 1
      BY Outside
    <2>3. (x + 1 < i /\ x + 2 < i) \/ (x + 1 > e - 1 /\ x + 2 > e - 1)
      BY <1>2, <2>1, <2>2
    <2> QED BY <1>4, <2>1, <2>3 DEF NextOf, PrevOf
  <1>9. Linked(g, s)
    <2>1. \A k \in 1..Len(s) : s[k] \in Listed(s)
      BY DEF Listed
    <2> QED BY <1>1, <1>4, <1>8, <2>1 DEF Linked
  <1>10. Holds(g, H, U \ {i}, s)
    <2>1. s \in Seq(H \ (U \ {i}))
      <3>1. s \in Seq(H \ U) /\ H \ U \subseteq H \ (U \ {i})
        BY <1>1 DEF Holds
      <3> QED BY <3>1, SeqMonotonic
    <2>2. i \notin Listed(s)
      BY ListedFacts
    <2>3. ASSUME NEW a \in H, NEW f \in H, Block(H, a, f), a \notin U \ {i}
          PROVE  /\ a \in Listed(s) <=> g.array[a] = f - a
                 /\ a \in Listed(s) => f - a >= 4
      <3>1. CASE a = i
        BY <1>2, <1>4, <1>6, <2>2, <2>3, <3>1
      <3>2. CASE a # i
        <4>1. a \notin U /\ g.array[a] = h.array[a]
          BY <1>5, <2>3, <3>2
        <4> QED BY <1>1, <2>3, <4>1 DEF Holds
      <3> QED BY <3>1, <3>2
    <2> QED BY <1>1, <2>1, <2>3 DEF Holds
  <1> QED BY <1>1, <1>4, <1>7, <1>9, <1>10 DEF Arena, g

\* The list with i in front.
With(i, s) == [j \in 1..Len(s) + 1 |-> IF j = 1 THEN i ELSE s[j - 1]]

IsWith(w, s, i, S) ==
  /\ w \in Seq(S \cup {i}) /\ Len(w) = Len(s) + 1
  /\ w[1] = i
  /\ \A j \in 2..Len(s) + 1 : w[j] = s[j - 1]
  /\ \A j, k \in 1..Len(s) + 1 : w[j] = w[k] => j = k
  /\ Listed(w) = Listed(s) \cup {i}
  /\ \A j \in 2..Len(s) + 2 : At(w, j) = At(s, j - 1)

LEMMA WithFacts ==
  ASSUME NEW S, NEW s \in Seq(S), NEW i, i \notin Listed(s),
         \A j, k \in 1..Len(s) : s[j] = s[k] => j = k
  PROVE  IsWith(With(i, s), s, i, S)
  <1> DEFINE w == With(i, s)
  <1>1. Len(s) \in Nat
    BY LenProperties
  <1>2. \A j \in 1..Len(s) : s[j] \in S /\ s[j] \in Listed(s)
    BY ElementOfSeq DEF Listed
  <1>3. w[1] = i /\ \A j \in 2..Len(s) + 1 : w[j] = s[j - 1]
    BY <1>1 DEF With
  <1>4. \A j \in 2..Len(s) + 1 : j - 1 \in 1..Len(s)
    BY <1>1
  <1>5. \A j \in 1..Len(s) + 1 : w[j] \in S \cup {i}
    <2> TAKE j \in 1..Len(s) + 1
    <2>1. CASE j = 1
      BY <1>3, <2>1
    <2>2. CASE j # 1
      <3>1. j \in 2..Len(s) + 1
        BY <1>1, <2>2
      <3> QED BY <1>2, <1>3, <1>4, <3>1
    <2> QED BY <2>1, <2>2
  <1>6. w \in [1..Len(s) + 1 -> S \cup {i}]
    BY <1>5 DEF With
  <1>7. w \in Seq(S \cup {i}) /\ Len(w) = Len(s) + 1
    <2>1. Len(s) + 1 \in Nat
      BY <1>1
    <2> QED BY <1>6, <2>1, IsASeq
  <1>8. ASSUME NEW j \in 1..Len(s) + 1, NEW k \in 1..Len(s) + 1, w[j] = w[k] PROVE j = k
    <2>1. \A m \in 1..Len(s) + 1 : m = 1 \/ (m \in 2..Len(s) + 1 /\ m - 1 \in 1..Len(s))
      BY <1>1
    <2>2. \A m \in 2..Len(s) + 1 : w[m] # i
      BY <1>2, <1>3, <1>4
    <2>3. CASE j = 1 \/ k = 1
      BY <1>3, <1>8, <2>1, <2>2, <2>3
    <2>4. CASE j # 1 /\ k # 1
      <3>1. s[j - 1] = s[k - 1] /\ j - 1 \in 1..Len(s) /\ k - 1 \in 1..Len(s)
        BY <1>3, <1>8, <2>1, <2>4
      <3>2. j - 1 = k - 1
        BY <3>1
      <3> QED BY <3>2
    <2> QED BY <2>3, <2>4
  <1>9. Listed(w) = Listed(s) \cup {i}
    <2>1. ASSUME NEW y \in Listed(w) PROVE y \in Listed(s) \cup {i}
      <3>1. PICK j \in 1..Len(s) + 1 : y = w[j]
        BY <1>7 DEF Listed
      <3>2. j = 1 \/ j \in 2..Len(s) + 1
        BY <1>1
      <3> QED BY <1>2, <1>3, <1>4, <3>1, <3>2
    <2>2. i \in Listed(w)
      <3>1. 1 \in 1..Len(w)
        BY <1>1, <1>7
      <3> QED BY <1>3, <3>1 DEF Listed
    <2>3. ASSUME NEW y \in Listed(s) PROVE y \in Listed(w)
      <3>1. PICK m \in 1..Len(s) : y = s[m]
        BY DEF Listed
      <3>2. m + 1 \in 2..Len(s) + 1 /\ m + 1 \in 1..Len(w) /\ (m + 1) - 1 = m
        BY <1>1, <1>7
      <3>3. w[m + 1] = s[m]
        BY <1>3, <3>2
      <3> QED BY <3>1, <3>2, <3>3 DEF Listed
    <2> QED BY <2>1, <2>2, <2>3
  <1>10. ASSUME NEW j \in 2..Len(s) + 2 PROVE At(w, j) = At(s, j - 1)
    <2>1. CASE j \in 2..Len(s) + 1
      BY <1>1, <1>3, <1>7, <2>1 DEF At
    <2>2. CASE j = Len(s) + 2
      BY <1>1, <1>7, <2>2 DEF At
    <2> QED BY <1>1, <2>1, <2>2
  <1> HIDE DEF w
  <1> QED BY <1>3, <1>7, <1>8, <1>9, <1>10 DEF IsWith, w

\* The block at i becomes available and the first of the list.
LEMMA AvailArena ==
  ASSUME NEW h, NEW H, NEW U, NEW s, Arena(h, H, U, s),
         NEW i \in H, NEW e \in H, Block(H, i, e), i \in U, i > 0, e - i >= 4
  PROVE  Arena(MakeAvail(h, i, e - i), H, U \ {i}, With(i, s))
  <1> DEFINE g == MakeAvail(h, i, e - i)
             w == With(i, s)
  <1>1. /\ IsHeap(h) /\ Tiling(H) /\ Cut(h, H, U) /\ Linked(h, s) /\ Holds(h, H, U, s)
        /\ s \in Seq(H \ U) /\ Len(s) \in Nat
    BY LenProperties DEF Arena, Holds
  <1>2. /\ i \in Index /\ e - 1 \in Index /\ e \in Nat /\ i \in Int /\ e <= len
        /\ i + (e - i) - 1 = e - 1 /\ len \in Nat
    <2>1. i \in Index /\ e - 1 \in Index /\ e \in Nat /\ e <= len
      BY BlockFacts
    <2> QED BY <2>1, LenFacts DEF Index
  <1>3. h.avail = 0 \/ (h.avail \in Listed(s) /\ Len(s) >= 1 /\ h.avail = s[1])
    BY <1>1 DEF Linked, At, Listed
  <1>4. \A x \in Listed(s) : /\ x \in Nat /\ x > 0 /\ x + 1 \in Index /\ x + 2 \in Index
                             /\ x + 2 < i \/ x > e - 1
    BY ListedFacts, Outside
  <1>5. IsPushed(g, h, i, e - i)
    <2>1. e - i \in Int /\ i + (e - i) - 1 \in Index
      BY <1>2
    <2>2. \/ h.avail = 0
          \/ h.avail + 2 \in Index /\ (h.avail + 2 < i \/ h.avail + 2 > i + (e - i) - 1)
      BY <1>2, <1>3, <1>4
    <2> QED BY <1>1, <1>2, <2>1, <2>2, MakeAvailWords, Zenon
  <1>6. /\ IsHeap(g) /\ g.avail = i
        /\ g.array[i] = e - i /\ g.array[e - 1] = e - i
        /\ NextOf(g, i) = h.avail /\ PrevOf(g, i) = 0
        /\ h.avail # 0 => g.array[h.avail + 2] = i
        /\ \A j \in Index : (j < i \/ j > e - 1) /\ (h.avail = 0 \/ j # h.avail + 2) =>
              g.array[j] = h.array[j]
    BY <1>2, <1>5 DEF IsPushed
  <1>7. /\ w \in Seq((H \ U) \cup {i}) /\ Len(w) = Len(s) + 1
        /\ w[1] = i
        /\ \A j \in 2..Len(s) + 1 : w[j] = s[j - 1]
        /\ \A j, k \in 1..Len(s) + 1 : w[j] = w[k] => j = k
        /\ Listed(w) = Listed(s) \cup {i}
        /\ \A j \in 2..Len(s) + 2 : At(w, j) = At(s, j - 1)
    <2>1. i \notin Listed(s)
      BY ListedFacts
    <2>2. \A j, k \in 1..Len(s) : s[j] = s[k] => j = k
      BY <1>1 DEF Holds
    <2>3. IsWith(w, s, i, H \ U)
      BY <1>1, <2>1, <2>2, WithFacts, Zenon
    <2> HIDE DEF g, w
    <2> QED BY <2>3 DEF IsWith
  <1> HIDE DEF w, g
  <1>8. ASSUME NEW a \in H, NEW f \in H, Block(H, a, f), a # i
        PROVE  g.array[a] = h.array[a] /\ g.array[f - 1] = h.array[f - 1]
    <2>1. a \in Index /\ f - 1 \in Index
      BY <1>8, BlockFacts
    <2>2. (a < i /\ f - 1 < i) \/ (a > e - 1 /\ f - 1 > e - 1)
      BY <1>8, Outside
    <2>3. h.avail = 0 \/ (a # h.avail + 2 /\ f - 1 # h.avail + 2)
      <3> SUFFICES ASSUME h.avail \in Listed(s) PROVE a # h.avail + 2 /\ f - 1 # h.avail + 2
        BY <1>3
      <3> QED BY <1>8, ListedFacts
    <2> QED BY <1>6, <2>1, <2>2, <2>3
  <1>9. \A f \in H : Block(H, i, f) => f = e
    BY <1>1, <1>2, LenFacts DEF Block, Tiling
  <1>10. Cut(g, H, U \ {i})
    <2> SUFFICES ASSUME NEW a \in H, NEW f \in H, Block(H, a, f), a \notin U \ {i}
                 PROVE  g.array[a] \in {f - a, f - a + 1} /\ g.array[f - 1] = g.array[a]
      BY DEF Cut
    <2>1. CASE a = i
      BY <1>6, <1>9, <2>1
    <2>2. CASE a # i
      BY <1>1, <1>8, <2>2 DEF Cut
    <2> QED BY <2>1, <2>2
  <1>11. ASSUME NEW x \in Listed(s)
         PROVE  /\ NextOf(g, x) = NextOf(h, x)
                /\ PrevOf(g, x) = IF x = h.avail THEN i ELSE PrevOf(h, x)
    <2>1. (x + 1 < i /\ x + 2 < i) \/ (x + 1 > e - 1 /\ x + 2 > e - 1)
      BY <1>2, <1>4
    <2>2. h.avail = 0 \/ (x + 1 # h.avail + 2 /\ (x # h.avail => x + 2 # h.avail + 2))
      <3> SUFFICES ASSUME h.avail \in Listed(s)
                   PROVE  x + 1 # h.avail + 2 /\ (x # h.avail => x + 2 # h.avail + 2)
        BY <1>3
      <3>1. x \in Nat /\ h.avail \in Nat
        BY <1>4
      <3>2. x # h.avail => x + 4 <= h.avail \/ h.avail + 4 <= x
        BY ListedFacts
      <3> QED BY <3>1, <3>2
    <2>3. NextOf(g, x) = NextOf(h, x)
      BY <1>4, <1>6, <2>1, <2>2 DEF NextOf
    <2>4. CASE x = h.avail
      BY <1>4, <1>6, <2>3, <2>4 DEF PrevOf
    <2>5. CASE x # h.avail
      BY <1>4, <1>6, <2>1, <2>2, <2>3, <2>5 DEF PrevOf
    <2> QED BY <2>3, <2>4, <2>5
  <1>12. Linked(g, w)
    <2>1. At(w, 1) = i /\ At(w, 0) = 0
      BY <1>1, <1>7 DEF At
    <2>2. ASSUME NEW j \in 1..Len(w)
          PROVE  NextOf(g, w[j]) = At(w, j + 1) /\ PrevOf(g, w[j]) = At(w, j - 1)
      <3>1. CASE j = 1
        <4>1. At(w, 2) = At(s, 1)
          <5>1. 2 \in 2..Len(s) + 2
            BY <1>1
          <5> QED BY <1>7, <5>1
        <4> QED BY <1>1, <1>6, <1>7, <2>1, <3>1, <4>1 DEF Linked
      <3>2. CASE j # 1
        <4>1. j \in 2..Len(s) + 1 /\ j - 1 \in 1..Len(s) /\ j \in Int
          BY <1>1, <1>7, <3>2
        <4>2. w[j] = s[j - 1] /\ s[j - 1] \in Listed(s)
          BY <1>7, <4>1 DEF Listed
        <4>3. At(w, j + 1) = At(s, j)
          <5>1. j + 1 \in 2..Len(s) + 2 /\ (j + 1) - 1 = j
            BY <1>1, <4>1
          <5> QED BY <1>7, <5>1
        <4>4. NextOf(h, s[j - 1]) = At(s, j) /\ PrevOf(h, s[j - 1]) = At(s, j - 2)
          <5>1. (j - 1) + 1 = j /\ (j - 1) - 1 = j - 2
            BY <4>1
          <5> QED BY <1>1, <4>1, <5>1 DEF Linked
        <4>5. CASE j = 2
          <5>1. s[1] = h.avail /\ At(w, 1) = i
            BY <1>1, <2>1, <4>1, <4>5 DEF Linked, At
          <5> QED BY <1>11, <4>2, <4>3, <4>4, <4>5, <5>1
        <4>6. CASE j # 2
          <5>1. s[j - 1] # h.avail
            <6>1. 1 \in 1..Len(s) /\ j - 1 # 1
              BY <1>1, <4>1, <4>6
            <6>2. h.avail = s[1]
              BY <1>1, <6>1 DEF Linked, At
            <6> QED BY <1>1, <4>1, <6>1, <6>2 DEF Holds
          <5>2. At(w, j - 1) = At(s, j - 2)
            <6>1. j - 1 \in 2..Len(s) + 2 /\ (j - 1) - 1 = j - 2
              BY <1>1, <4>1, <4>6
            <6> QED BY <1>7, <6>1
          <5> QED BY <1>11, <4>2, <4>3, <4>4, <5>1, <5>2
        <4> QED BY <4>5, <4>6
      <3> QED BY <3>1, <3>2
    <2> QED BY <1>6, <2>1, <2>2 DEF Linked
  <1>13. Holds(g, H, U \ {i}, w)
    <2>1. w \in Seq(H \ (U \ {i}))
      <3>1. (H \ U) \cup {i} \subseteq H \ (U \ {i})
        OBVIOUS
      <3> QED BY <1>7, <3>1, SeqMonotonic
    <2>2. \A k \in 1..Len(w) : w[k] > 0 /\ w[k] < len
      <3> TAKE k \in 1..Len(w)
      <3>1. w[k] = i \/ w[k] \in Listed(s)
        BY <1>7 DEF Listed
      <3>2. i < len
        BY <1>2, LenFacts
      <3> QED BY <3>1, <3>2, ListedFacts
    <2>3. ASSUME NEW a \in H, NEW f \in H, Block(H, a, f), a \notin U \ {i}
          PROVE  /\ a \in Listed(w) <=> g.array[a] = f - a
                 /\ a \in Listed(w) => f - a >= 4
      <3>1. CASE a = i
        BY <1>6, <1>7, <1>9, <2>3, <3>1
      <3>2. CASE a # i
        <4>1. a \notin U /\ g.array[a] = h.array[a]
          BY <1>8, <2>3, <3>2
        <4> QED BY <1>1, <1>7, <2>3, <3>2, <4>1 DEF Holds
      <3> QED BY <3>1, <3>2
    <2> QED BY <1>7, <2>1, <2>2, <2>3 DEF Holds
  <1> QED BY <1>1, <1>6, <1>10, <1>12, <1>13 DEF Arena, g, w

\* A taken block is worked on from here on.
LEMMA DetachArena ==
  ASSUME NEW h, NEW H, NEW U, NEW s, Arena(h, H, U, s), NEW i \in H, i \notin Listed(s)
  PROVE  Arena(h, H, U \cup {i}, s)
  <1>1. s \in Seq(H \ (U \cup {i}))
    <2>1. s \in Seq(H \ U) /\ Len(s) \in Nat
      BY LenProperties DEF Arena, Holds
    <2>2. \A k \in 1..Len(s) : s[k] \in H \ (U \cup {i})
      BY <2>1, ElementOfSeq DEF Listed
    <2>3. s = [k \in 1..Len(s) |-> s[k]]
      BY <2>1
    <2>4. s \in [1..Len(s) -> H \ (U \cup {i})]
      BY <2>2, <2>3
    <2> QED BY <2>1, <2>4, IsASeq
  <1>2. Cut(h, H, U \cup {i})
    BY DEF Arena, Cut
  <1>3. Holds(h, H, U \cup {i}, s)
    BY <1>1 DEF Arena, Holds
  <1> QED BY <1>2, <1>3 DEF Arena

\* Two blocks that are worked on are joined.
LEMMA JoinArena ==
  ASSUME NEW h, NEW H, NEW U, NEW s, Arena(h, H, U, s),
         NEW i \in H, NEW m \in H, NEW e \in H, Block(H, i, m), Block(H, m, e), i \in U, m \in U
  PROVE  Arena(h, H \ {m}, U, s) /\ Block(H \ {m}, i, e)
  <1>1. H \subseteq Nat /\ Tiling(H) /\ H \subseteq 0..len /\ len \in Nat
    BY LenFacts DEF Arena, Tiling
  <1>2. /\ i \in Nat /\ m \in Nat /\ e \in Nat /\ i < m /\ m < e /\ e <= len
        /\ \A j \in H : (j <= i \/ m <= j) /\ (j <= m \/ e <= j)
    BY <1>1 DEF Block
  <1>3. Block(H \ {m}, i, e)
    BY <1>1, <1>2 DEF Block
  <1>4. ASSUME NEW a \in H \ {m}, NEW f \in H \ {m}, Block(H \ {m}, a, f), a # i
        PROVE  Block(H, a, f)
    <2>1. /\ a \in Nat /\ f \in Nat /\ a < f /\ \A j \in H \ {m} : j <= a \/ f <= j
      BY <1>1, <1>4 DEF Block
    <2>2. i <= a \/ f <= i
      BY <1>2, <2>1
    <2>3. m <= a \/ f <= m
      BY <1>2, <1>4, <2>1, <2>2
    <2> QED BY <2>1, <2>3 DEF Block
  <1>5. Tiling(H \ {m})
    BY <1>1, <1>2 DEF Tiling
  <1>6. Cut(h, H \ {m}, U)
    BY <1>4 DEF Arena, Cut
  <1>7. Holds(h, H \ {m}, U, s)
    <2>1. H \ U = (H \ {m}) \ U
      OBVIOUS
    <2> QED BY <1>4, <2>1 DEF Arena, Holds
  <1> QED BY <1>3, <1>5, <1>6, <1>7 DEF Arena

\* A block that is worked on is split.
LEMMA SplitArena ==
  ASSUME NEW h, NEW H, NEW U, NEW s, Arena(h, H, U, s),
         NEW i \in H, NEW e \in H, Block(H, i, e), i \in U,
         NEW m \in Int, i < m, m < e, m % 2 = 0
  PROVE  /\ Arena(h, H \cup {m}, U \cup {m}, s)
         /\ Block(H \cup {m}, i, m) /\ Block(H \cup {m}, m, e)
         /\ m \notin H
  <1>1. H \subseteq Nat /\ Tiling(H) /\ H \subseteq 0..len /\ len \in Nat
    BY LenFacts DEF Arena, Tiling
  <1>2. /\ i \in Nat /\ e \in Nat /\ e <= len
        /\ \A j \in H : j <= i \/ e <= j
    BY <1>1 DEF Block
  <1>3. m \notin H
    BY <1>2
  <1>4. Block(H \cup {m}, i, m) /\ Block(H \cup {m}, m, e)
    BY <1>1, <1>2 DEF Block
  <1>5. ASSUME NEW a \in H \cup {m}, NEW f \in H \cup {m}, Block(H \cup {m}, a, f),
               a \notin U \cup {m}
        PROVE  a \in H /\ f \in H /\ Block(H, a, f)
    <2>1. /\ a \in Nat /\ f \in Int /\ a < f /\ \A j \in H \cup {m} : j <= a \/ f <= j
          /\ a \in H /\ a # i
      BY <1>1, <1>5 DEF Block
    <2>2. f # m
      BY <1>2, <2>1
    <2> QED BY <2>1, <2>2 DEF Block
  <1>6. Tiling(H \cup {m})
    BY <1>1, <1>2 DEF Tiling
  <1>7. Cut(h, H \cup {m}, U \cup {m})
    BY <1>5 DEF Arena, Cut
  <1>8. Holds(h, H \cup {m}, U \cup {m}, s)
    <2>1. H \ U = (H \cup {m}) \ (U \cup {m})
      BY <1>3
    <2> QED BY <1>5, <2>1 DEF Arena, Holds
  <1> QED BY <1>3, <1>4, <1>6, <1>7, <1>8 DEF Arena

-----------------------------------------------------------------------------
(* malloc.                                                                 *)

\* The first and the last block are markers that stay taken, no two available blocks lie
\* side by side, and what malloc has returned lies in taken blocks, each in its own.
InOrder(H, s, bs) ==
  /\ Block(H, 0, 2) /\ Block(H, len - 2, len) /\ len - 2 \notin Listed(s)
  /\ \A i, e \in H : Block(H, i, e) /\ i \in Listed(s) => e \notin Listed(s)
  /\ \A b \in bs :
        /\ b \in [at : Index, bytes : Request]
        /\ b.at - 1 \in H /\ b.at - 1 \notin Listed(s) /\ b.at > 1 /\ b.at - 1 < len - 2
        /\ \A e \in H : Block(H, b.at - 1, e) => b.at + (b.bytes + 7) \div 8 <= e - 1
  /\ \A b, c \in bs : b.at = c.at => b = c

\* The heap before and after init.
HeapInv ==
  \/ heap = NoHeap /\ blocks = {}
  \/ \E H : \E s \in Seq(H) : Arena(heap, H, {}, s) /\ InOrder(H, s, blocks)

\* A block for n bytes is even, has room for the links, and for header and footer.
LEMMA EntriesFacts ==
  ASSUME NEW n \in Request
  PROVE  /\ Entries(n) \in Nat /\ Entries(n) >= 4 /\ Entries(n) % 2 = 0
         /\ (n + 7) \div 8 \in Nat /\ (n + 7) \div 8 >= 1 /\ Entries(n) >= (n + 7) \div 8 + 2
  <1>1. n \in Nat /\ n >= 1
    BY HeapAssumption
  <1>2. PICK q \in Int : q = (n + 7) \div 8 /\ q >= 1
    BY <1>1
  <1> DEFINE k == q + 2
             m == IF k < 4 THEN 4 ELSE k
  <1>3. Entries(n) = m + (m % 2)
    BY <1>2 DEF Entries
  <1>4. m \in Nat /\ m >= 4 /\ m >= q + 2
    BY <1>2
  <1> HIDE DEF m
  <1>5. m + (m % 2) \in Nat /\ m + (m % 2) >= m /\ (m + (m % 2)) % 2 = 0
    BY <1>4
  <1> QED BY <1>2, <1>3, <1>4, <1>5

\* There is one block from each header, and one up to each header.
LEMMA OneBlock ==
  ASSUME NEW H, H \subseteq Int, NEW i \in H, NEW e \in H, Block(H, i, e)
  PROVE  /\ \A f \in H : Block(H, i, f) => f = e
         /\ \A a \in H : Block(H, a, e) => a = i
  BY DEF Block

\* The search ends with a block of the list that fits, if there is one.
LEMMA BestFitFacts ==
  ASSUME NEW h, NEW s, s = List(h), Len(s) \in Nat, s = [k \in 1..Len(s) |-> s[k]],
         NEW n \in Int, \A k \in 1..Len(s) : Size(h, s[k]) \in Nat /\ s[k] # 0
  PROVE  IF BestFit(h, n) = 0 THEN \A k \in 1..Len(s) : Size(h, s[k]) < n
         ELSE \E k \in 1..Len(s) : BestFit(h, n) = s[k] /\ Size(h, s[k]) >= n
  <1> DEFINE Fits  == {k \in DOMAIN s : Size(h, s[k]) >= n}
             Ends  == {k \in Fits : \/ Size(h, s[k]) = n
                                    \/ Cardinality({j \in Fits : j <= k}) = CountDown}
             Seen  == {k \in Fits : \A e \in Ends : k <= e}
             Least == {k \in Seen : \A j \in Seen : Size(h, s[k]) <= Size(h, s[j])}
  <1>1. BestFit(h, n) = IF Seen = {} THEN 0 ELSE s[Min(Least)]
    BY DEF BestFit
  <1>2. DOMAIN s = 1..Len(s) /\ Fits \subseteq 1..Len(s) /\ Ends \subseteq Fits /\ Seen \subseteq Fits
        /\ Least \subseteq Seen
    OBVIOUS
  <1>3. \A k \in Fits : k \in 1..Len(s) /\ Size(h, s[k]) >= n
    BY <1>2
  <1>4. \A k \in 1..Len(s) : k \notin Fits => Size(h, s[k]) < n
    BY <1>2
  <1>5. Fits # {} => Seen # {}
    <2> SUFFICES ASSUME Fits # {} PROVE Seen # {}
      OBVIOUS
    <2> HIDE DEF Fits, Ends
    <2>1. Fits \subseteq Nat
      BY <1>2
    <2>2. PICK k \in Fits : \A j \in Fits : k <= j
      BY <2>1, LeastNumber
    <2> QED BY <1>2, <2>2
  <1>6. Seen # {} => Least # {}
    <2> SUFFICES ASSUME Seen # {} PROVE Least # {}
      OBVIOUS
    <2> DEFINE T == {Size(h, s[k]) : k \in Seen}
    <2> HIDE DEF Seen
    <2>1. T \subseteq Nat /\ T # {}
      BY <1>2
    <2>2. PICK x \in T : \A y \in T : x <= y
      BY <2>1, LeastNumber
    <2> QED BY <2>2
  <1> HIDE DEF Fits, Ends, Seen, Least
  <1>7. CASE Seen = {}
    <2>1. BestFit(h, n) = 0 /\ Fits = {}
      BY <1>1, <1>5, <1>7
    <2> QED BY <1>4, <2>1
  <1>8. CASE Seen # {}
    <2>1. Least \subseteq Nat /\ Least # {}
      BY <1>2, <1>6, <1>8
    <2>2. \E x \in Least : \A y \in Least : x <= y
      BY <2>1, LeastNumber
    <2>3. Min(Least) \in Least
      BY <2>2 DEF Min
    <2> DEFINE m == Min(Least)
    <2> HIDE DEF m
    <2>4. m \in 1..Len(s) /\ Size(h, s[m]) >= n /\ BestFit(h, n) = s[m]
      BY <1>1, <1>2, <1>3, <1>8, <2>3 DEF m
    <2>5. BestFit(h, n) # 0
      BY <2>4
    <2> QED BY <2>4, <2>5
  <1> QED BY <1>7, <1>8

-----------------------------------------------------------------------------
(* The walks over the list and the arena.                                  *)

\* The first n elements of s.
First(s, n) == [k \in 1..(IF n <= Len(s) THEN n ELSE Len(s)) |-> s[k]]

LEMMA FirstFacts ==
  ASSUME NEW S, NEW s \in Seq(S), NEW n \in Nat
  PROVE  /\ First(s, n) \in Seq(S)
         /\ Len(First(s, n)) = IF n <= Len(s) THEN n ELSE Len(s)
         /\ First(s, 0) = <<>>
         /\ n < Len(s) => Append(First(s, n), s[n + 1]) = First(s, n + 1)
         /\ n >= Len(s) => First(s, n) = s
         /\ 0 < n /\ n <= Len(s) => Last(First(s, n)) = s[n]
  <1> DEFINE m == IF n <= Len(s) THEN n ELSE Len(s)
  <1>1. Len(s) \in Nat /\ m \in Nat /\ m <= Len(s)
    BY LenProperties
  <1>2. \A k \in 1..Len(s) : s[k] \in S
    BY ElementOfSeq
  <1>3. First(s, n) \in [1..m -> S] /\ \A k \in 1..m : First(s, n)[k] = s[k]
    BY <1>1, <1>2 DEF First
  <1>4. First(s, n) \in Seq(S) /\ Len(First(s, n)) = m
    BY <1>1, <1>3, IsASeq
  <1>5. First(s, 0) = <<>>
    BY <1>1 DEF First
  <1>6. ASSUME n < Len(s) PROVE Append(First(s, n), s[n + 1]) = First(s, n + 1)
    <2>1. m = n /\ n + 1 \in 1..Len(s)
      BY <1>1, <1>6
    <2> DEFINE a == Append(First(s, n), s[n + 1])
               b == First(s, n + 1)
    <2>2. /\ a \in Seq(S) /\ Len(a) = n + 1
          /\ \A k \in 1..n : a[k] = s[k]
          /\ a[n + 1] = s[n + 1]
      BY <1>2, <1>3, <1>4, <2>1, AppendProperties
    <2>3. b = [k \in 1..n + 1 |-> s[k]]
      BY <2>1 DEF First
    <2>4. a = [k \in 1..n + 1 |-> a[k]]
      BY <2>2
    <2>5. \A k \in 1..n + 1 : a[k] = s[k]
      <3> TAKE k \in 1..n + 1
      <3>1. k \in 1..n \/ k = n + 1
        OBVIOUS
      <3> QED BY <2>2, <3>1
    <2> QED BY <2>3, <2>4, <2>5
  <1>7. ASSUME n >= Len(s) PROVE First(s, n) = s
    <2>1. m = Len(s)
      BY <1>1, <1>7
    <2>2. s = [k \in 1..Len(s) |-> s[k]]
      BY LenProperties
    <2> QED BY <2>1, <2>2 DEF First
  <1>8. 0 < n /\ n <= Len(s) => Last(First(s, n)) = s[n]
    BY <1>3, <1>4 DEF Last
  <1> QED BY <1>4, <1>5, <1>6, <1>7, <1>8

\* The equation that defines the walk over the list.
ListStep(g, h) ==
  [n \in 0 .. len |->
     IF n = 0 THEN <<>>
     ELSE LET s == g[n - 1]
              x == IF s = <<>> THEN h.avail ELSE NextOf(h, Last(s))
          IN  IF x = 0 \/ Len(s) < n - 1 THEN s ELSE Append(s, x)]

LEMMA ListDefined ==
  ASSUME NEW h, NEW g, g = ListStep(g, h)
  PROVE  \E w : w = ListStep(w, h) /\ List(h) = w[len]
  BY DEF List, ListStep

\* The walk over the list finds the list.
LEMMA ListIs ==
  ASSUME NEW h, NEW H, NEW U, NEW s, Arena(h, H, U, s)
  PROVE  List(h) = s
  <1>1. /\ s \in Seq(H) /\ Len(s) \in Nat
        /\ \A j, k \in 1..Len(s) : s[j] = s[k] => j = k
        /\ \A k \in 1..Len(s) : s[k] \in Index /\ s[k] # 0
        /\ len \in Nat
    <2>1. s \in Seq(H \ U)
      BY DEF Arena, Holds
    <2>2. s \in Seq(H)
      BY <2>1, SeqMonotonic, H \ U \subseteq H
    <2>3. \A k \in 1..Len(s) : s[k] \in H /\ s[k] > 0 /\ s[k] < len
      BY <2>2, ElementOfSeq DEF Arena, Holds
    <2>4. H \subseteq 0..len /\ len \in Nat
      BY LenFacts DEF Arena, Tiling
    <2>5. \A k \in 1..Len(s) : s[k] \in Index /\ s[k] # 0
      <3> TAKE k \in 1..Len(s)
      <3>1. s[k] \in 0..len /\ s[k] > 0 /\ s[k] < len
        BY <2>3, <2>4
      <3> QED BY <2>4, <3>1 DEF Index
    <2> QED BY <2>2, <2>4, <2>5, LenProperties DEF Arena, Holds
  <1>2. Len(s) <= len
    <2>1. s \in Injection(1..Len(s), Index)
      <3>1. s = [k \in 1..Len(s) |-> s[k]]
        BY <1>1, LenProperties
      <3>2. s \in [1..Len(s) -> Index]
        BY <1>1, <3>1
      <3> QED BY <1>1, <3>2 DEF Injection, IsInjective
    <2>2. IsFiniteSet(Index) /\ Cardinality(Index) = len
      <3>1. 0 \in Int /\ len - 1 \in Int /\ 0 <= len
        BY <1>1
      <3>2. IsFiniteSet(0..len - 1) /\ Cardinality(0..len - 1) = IF 0 > len - 1 THEN 0 ELSE len - 1 - 0 + 1
        BY <3>1, FS_Interval, Zenon
      <3> QED BY <1>1, <3>2, LenFacts DEF Index
    <2>3. Cardinality(1..Len(s)) <= Cardinality(Index)
      BY <2>1, <2>2, FS_Injection
    <2>4. Cardinality(1..Len(s)) = Len(s)
      <3>1. 1 \in Int /\ Len(s) \in Int
        BY <1>1
      <3>2. Cardinality(1..Len(s)) = IF 1 > Len(s) THEN 0 ELSE Len(s) - 1 + 1
        BY <3>1, FS_Interval, Zenon
      <3> QED BY <1>1, <3>2
    <2> QED BY <2>2, <2>3, <2>4
  <1>3. /\ h.avail = At(s, 1)
        /\ \A k \in 1..Len(s) : NextOf(h, s[k]) = At(s, k + 1)
    BY DEF Arena, Linked
  \* The step from the first n elements to the first n + 1.
  <1>4. ASSUME NEW n \in Nat, NEW p, p = First(s, n), NEW x,
               x = IF p = <<>> THEN h.avail ELSE NextOf(h, Last(p))
        PROVE  (IF x = 0 \/ Len(p) < n THEN p ELSE Append(p, x)) = First(s, n + 1)
    <2>1. n + 1 \in Nat /\ 0 \in Nat
      OBVIOUS
    <2>2. /\ p \in Seq(H) /\ Len(p) = IF n <= Len(s) THEN n ELSE Len(s)
          /\ First(s, 0) = <<>>
          /\ n < Len(s) => Append(p, s[n + 1]) = First(s, n + 1)
          /\ n >= Len(s) => p = s /\ First(s, n + 1) = s
          /\ 0 < n /\ n <= Len(s) => Last(p) = s[n]
      <3>1. n >= Len(s) => First(s, n + 1) = s
        <4>1. n >= Len(s) => n + 1 >= Len(s)
          BY <1>1
        <4> QED BY <1>1, <2>1, <4>1, FirstFacts
      <3>2. /\ First(s, n) \in Seq(H) /\ Len(First(s, n)) = IF n <= Len(s) THEN n ELSE Len(s)
            /\ First(s, 0) = <<>>
            /\ n < Len(s) => Append(First(s, n), s[n + 1]) = First(s, n + 1)
            /\ n >= Len(s) => First(s, n) = s
            /\ 0 < n /\ n <= Len(s) => Last(First(s, n)) = s[n]
        BY <1>1, FirstFacts, ZenonT(40)
      <3> QED BY <1>4, <3>1, <3>2
    <2>3. p = <<>> <=> Len(p) = 0
      BY <2>2, EmptySeq
    <2>4. CASE n < Len(s)
      <3>1. Len(p) = n /\ n + 1 \in 1..Len(s)
        BY <1>1, <2>2, <2>4
      <3>2. x = s[n + 1]
        <4>1. CASE n = 0
          BY <1>3, <1>4, <2>3, <3>1, <4>1 DEF At
        <4>2. CASE n # 0
          <5>1. n \in 1..Len(s) /\ Last(p) = s[n] /\ p # <<>>
            BY <1>1, <2>2, <2>3, <2>4, <3>1, <4>2
          <5> QED BY <1>3, <1>4, <3>1, <5>1 DEF At
        <4> QED BY <4>1, <4>2
      <3>3. x # 0 /\ ~(Len(p) < n)
        BY <1>1, <3>1, <3>2
      <3> QED BY <2>2, <2>4, <3>1, <3>2, <3>3
    <2>5. CASE n = Len(s)
      <3>1. x = 0
        <4>1. CASE n = 0
          BY <1>3, <1>4, <2>2, <2>3, <2>5, <4>1 DEF At
        <4>2. CASE n # 0
          <5>1. n \in 1..Len(s) /\ Last(p) = s[n] /\ p # <<>>
            BY <1>1, <2>2, <2>3, <2>5, <4>2
          <5> QED BY <1>3, <1>4, <2>5, <5>1 DEF At
        <4> QED BY <4>1, <4>2
      <3> QED BY <1>1, <2>2, <2>5, <3>1
    <2>6. CASE n > Len(s)
      BY <1>1, <2>2, <2>6
    <2> QED BY <1>1, <2>4, <2>5, <2>6
  <1> DEFINE g == [n \in 0..len |-> First(s, n)]
  <1>5. g = ListStep(g, h)
    <2>1. ASSUME NEW n \in 0..len
          PROVE  g[n] = IF n = 0 THEN <<>>
                        ELSE LET p == g[n - 1]
                                 x == IF p = <<>> THEN h.avail ELSE NextOf(h, Last(p))
                             IN  IF x = 0 \/ Len(p) < n - 1 THEN p ELSE Append(p, x)
      <3>1. CASE n = 0
        <4>1. First(s, 0) = <<>>
          BY <1>1, 0 \in Nat, FirstFacts
        <4> QED BY <3>1, <4>1
      <3>2. CASE n # 0
        <4>1. PICK m \in Nat : m = n - 1 /\ m \in 0..len /\ m + 1 = n
          <5>1. n - 1 \in Nat /\ n - 1 \in 0..len /\ (n - 1) + 1 = n
            BY <1>1, <3>2
          <5> QED BY <5>1
        <4>2. g[m] = First(s, m) /\ g[n] = First(s, n)
          BY <4>1
        <4> HIDE DEF g
        <4> DEFINE p == g[m]
                   x == IF p = <<>> THEN h.avail ELSE NextOf(h, Last(p))
        <4>3. p = First(s, m) /\ x = IF p = <<>> THEN h.avail ELSE NextOf(h, Last(p))
          BY <4>2
        <4> HIDE DEF p, x
        <4>4. (IF x = 0 \/ Len(p) < m THEN p ELSE Append(p, x)) = First(s, m + 1)
          BY <1>4, <4>3, Zenon
        <4>5. g[n] = IF x = 0 \/ Len(p) < m THEN p ELSE Append(p, x)
          BY <4>1, <4>2, <4>4
        <4> QED BY <3>2, <4>1, <4>5 DEF p, x
      <3> QED BY <3>1, <3>2
    <2> HIDE DEF g
    <2>2. g = [n \in 0..len |-> g[n]]
      BY DEF g
    <2> QED BY <2>1, <2>2 DEF ListStep
  <1> HIDE DEF g
  <1>6. PICK w : w = ListStep(w, h) /\ List(h) = w[len]
    BY <1>5, ListDefined
  <1> DEFINE S == {n \in 0..len : w[n] = First(s, n)}
  <1>7. 0 \in S
    <2>1. 0 \in 0..len /\ First(s, 0) = <<>>
      BY <1>1, FirstFacts, 0 \in Nat
    <2> QED BY <1>6, <2>1 DEF ListStep
  <1>8. \A n \in 0..(len - 1) : n \in S => n + 1 \in S
    <2> SUFFICES ASSUME NEW n \in 0..(len - 1), w[n] = First(s, n)
                 PROVE  w[n + 1] = First(s, n + 1)
      BY <1>1
    <2>1. n \in Nat /\ n + 1 \in 0..len /\ n + 1 # 0 /\ (n + 1) - 1 = n
      BY <1>1
    <2>2. w[n + 1] = LET x == IF w[n] = <<>> THEN h.avail ELSE NextOf(h, Last(w[n]))
                     IN  IF x = 0 \/ Len(w[n]) < n THEN w[n] ELSE Append(w[n], x)
      BY <1>6, <2>1 DEF ListStep
    <2> QED BY <1>4, <2>1, <2>2
  <1>9. len \in S
    <2> HIDE DEF S
    <2>1. \A n \in 0..len : n \in S
      BY <1>1, <1>7, <1>8, UpTo
    <2> QED BY <1>1, <2>1
  <1>10. First(s, len) = s
    BY <1>1, <1>2, FirstFacts
  <1> QED BY <1>6, <1>9, <1>10
-----------------------------------------------------------------------------
(* The walk over the headers.                                              *)

\* A set of numbers up to N has a greatest one.
LEMMA MaxFacts ==
  ASSUME NEW N \in Nat, NEW T, T \subseteq 0..N, T # {}
  PROVE  Max(T) \in T /\ \A y \in T : y <= Max(T)
  <1> DEFINE G == {N - y : y \in T}
  <1>1. G \subseteq Nat /\ G # {}
    <2>1. \A y \in T : N - y \in Nat
      OBVIOUS
    <2> QED BY <2>1
  <1>2. PICK g \in G : \A z \in G : g <= z
    BY <1>1, LeastNumber
  <1>3. PICK x \in T : g = N - x
    BY <1>2
  <1>4. \A y \in T : x >= y
    <2> TAKE y \in T
    <2>1. N - x <= N - y
      BY <1>2, <1>3
    <2> QED BY <2>1
  <1>5. Max(T) \in T /\ \A y \in T : Max(T) >= y
    BY <1>4 DEF Max
  <1>6. \A y \in T : y <= Max(T)
    BY <1>5
  <1> QED BY <1>5, <1>6

Below(H, x) == {j \in H : j < x}

\* The first n + 1 headers.
Heads(H, n) == {x \in H : Cardinality(Below(H, x)) <= n}

\* The headers below a header are counted block by block.
LEMMA BelowFacts ==
  ASSUME NEW H, Tiling(H), NEW x \in H
  PROVE  /\ IsFiniteSet(Below(H, x)) /\ Cardinality(Below(H, x)) \in Nat
         /\ Cardinality(Below(H, x)) <= len
         /\ x = 0 => Cardinality(Below(H, x)) = 0
         /\ \A y \in H : x < y => Cardinality(Below(H, x)) + 1 <= Cardinality(Below(H, y))
         /\ \A y \in H : Block(H, x, y) => Cardinality(Below(H, y)) = Cardinality(Below(H, x)) + 1
  <1>1. H \subseteq 0..len /\ len \in Nat /\ H \subseteq Nat
    BY LenFacts DEF Tiling
  <1>2. \A y \in H : /\ IsFiniteSet(Below(H, y)) /\ Cardinality(Below(H, y)) \in Nat
                     /\ Cardinality(Below(H, y)) <= len
    <2> TAKE y \in H
    <2>1. Below(H, y) \subseteq 0 .. len - 1
      <3> SUFFICES ASSUME NEW j \in H, j < y PROVE j \in 0 .. len - 1
        BY DEF Below
      <3>1. j \in 0..len /\ y \in 0..len
        BY <1>1
      <3> QED BY <1>1, <3>1
    <2>2. 0 \in Int /\ len - 1 \in Int
      BY <1>1
    <2>3. IsFiniteSet(0 .. len - 1)
          /\ Cardinality(0 .. len - 1) = IF 0 > len - 1 THEN 0 ELSE len - 1 - 0 + 1
      BY <2>2, FS_Interval, Zenon
    <2>4. Cardinality(0 .. len - 1) = len
      BY <1>1, <2>3, LenFacts
    <2>5. IsFiniteSet(Below(H, y)) /\ Cardinality(Below(H, y)) <= Cardinality(0 .. len - 1)
      BY <2>1, <2>3, FS_Subset, Zenon
    <2> QED BY <2>4, <2>5, FS_CardinalityType
  <1>3. x = 0 => Cardinality(Below(H, x)) = 0
    <2>1. x = 0 => Below(H, x) = {}
      <3> SUFFICES ASSUME x = 0, NEW j \in H, j < x PROVE FALSE
        BY DEF Below
      <3> QED BY <1>1
    <2> QED BY <2>1, FS_EmptySet
  <1>4. x \notin Below(H, x)
    BY <1>1 DEF Below
  <1>5. Cardinality(Below(H, x) \cup {x}) = Cardinality(Below(H, x)) + 1
    BY <1>2, <1>4, FS_AddElement
  <1>6. ASSUME NEW y \in H, x < y
        PROVE  Cardinality(Below(H, x)) + 1 <= Cardinality(Below(H, y))
    <2>1. Below(H, x) \cup {x} \subseteq Below(H, y)
      <3>1. \A j \in H : j < x => j < y
        BY <1>1, <1>6
      <3> QED BY <1>6, <3>1 DEF Below
    <2>2. Cardinality(Below(H, x) \cup {x}) <= Cardinality(Below(H, y))
      BY <1>2, <2>1, FS_Subset, Zenon
    <2> QED BY <1>5, <2>2
  <1>7. ASSUME NEW y \in H, Block(H, x, y)
        PROVE  Cardinality(Below(H, y)) = Cardinality(Below(H, x)) + 1
    <2>1. Below(H, y) = Below(H, x) \cup {x}
      <3>1. ASSUME NEW j \in H PROVE j < y <=> j < x \/ j = x
        <4>1. x < y /\ (j <= x \/ y <= j)
          BY <1>7 DEF Block
        <4> QED BY <1>1, <4>1
      <3> QED BY <3>1 DEF Below
    <2> QED BY <1>5, <2>1
  <1> QED BY <1>2, <1>3, <1>6, <1>7

\* The equation that defines the walk over the headers.
HeadStep(g) ==
  [n \in 0 .. len |->
     IF n = 0 THEN {0}
     ELSE LET w == g[n - 1]
              i == Max(w)
          IN  IF i \notin Index \/ Size(heap, i) <= 0 THEN w
              ELSE w \cup {i + Size(heap, i)}]

LEMMA HeadersDefined ==
  ASSUME NEW g, g = HeadStep(g)
  PROVE  \E w : w = HeadStep(w) /\ Headers = w[len]
  BY DEF Headers, HeadStep

\* One step of the walk.
LEMMA HeadsGrow ==
  ASSUME NEW H, NEW s, Arena(heap, H, {}, s), NEW n \in Nat, NEW w, w = Heads(H, n),
         NEW i, i = Max(w)
  PROVE  (IF i \notin Index \/ Size(heap, i) <= 0 THEN w ELSE w \cup {i + Size(heap, i)})
           = Heads(H, n + 1)
  <1>1. Tiling(H) /\ H \subseteq 0..len /\ H \subseteq Nat /\ len \in Nat /\ 0 \in H /\ len \in H
    BY LenFacts DEF Arena, Tiling
  <1>2. 0 \in w /\ w \subseteq H /\ w \subseteq 0..len
    <2>1. Cardinality(Below(H, 0)) = 0
      BY <1>1, BelowFacts
    <2>2. Cardinality(Below(H, 0)) <= n
      BY <2>1
    <2>3. 0 \in w /\ w \subseteq H
      BY <1>1, <2>2 DEF Heads
    <2> QED BY <1>1, <2>3
  <1>3. i \in w /\ \A y \in w : y <= i
    BY <1>1, <1>2, MaxFacts
  <1>4. i \in H /\ i \in 0..len /\ Cardinality(Below(H, i)) <= n /\ Cardinality(Below(H, i)) \in Nat
    BY <1>1, <1>2, <1>3, BelowFacts DEF Heads
  <1>5. CASE i = len
    <2>1. \A x \in H : Cardinality(Below(H, x)) <= n
      <3> SUFFICES ASSUME NEW x \in H PROVE Cardinality(Below(H, x)) <= n
        OBVIOUS
      <3>1. x = len \/ x < len
        BY <1>1
      <3>2. x < len => Cardinality(Below(H, x)) + 1 <= Cardinality(Below(H, len))
        BY <1>1, BelowFacts
      <3>3. Cardinality(Below(H, x)) \in Nat
        BY <1>1, BelowFacts
      <3> QED BY <1>4, <1>5, <3>1, <3>2, <3>3
    <2>2. w = H
      BY <2>1 DEF Heads
    <2>3. Heads(H, n + 1) = H
      <3>1. \A x \in H : Cardinality(Below(H, x)) \in Nat
        BY <1>1, BelowFacts
      <3>2. \A x \in H : Cardinality(Below(H, x)) <= n + 1
        BY <2>1, <3>1
      <3> QED BY <3>2 DEF Heads
    <2>4. i \notin Index
      BY <1>1, <1>5 DEF Index
    <2> QED BY <2>2, <2>3, <2>4
  <1>6. CASE i # len
    <2>1. i < len
      BY <1>1, <1>4, <1>6
    <2>2. PICK e \in H : Block(H, i, e)
      BY <1>1, <1>4, <2>1, BlockFrom
    <2>3. i \in Index /\ Size(heap, i) = e - i /\ i < e /\ e \in Nat
      <3>1. i \in Index /\ e \in Nat /\ Size(heap, i) = e - i
        BY <1>4, <2>2, BlockFacts
      <3> QED BY <2>2, <3>1 DEF Block
    <2>4. Cardinality(Below(H, e)) = Cardinality(Below(H, i)) + 1
      BY <1>1, <1>4, <2>2, BelowFacts
    <2>5. Cardinality(Below(H, i)) = n
      <3>1. e \notin w
        BY <1>3, <1>4, <2>3
      <3>2. ~(Cardinality(Below(H, e)) <= n)
        BY <3>1 DEF Heads
      <3> QED BY <1>4, <2>4, <3>2
    <2>6. w \cup {e} = Heads(H, n + 1)
      <3>1. ASSUME NEW x \in H
            PROVE  x \in w \cup {e} <=> Cardinality(Below(H, x)) <= n + 1
        <4>1. Cardinality(Below(H, x)) \in Nat
          BY <1>1, BelowFacts
        <4>2. x \in w <=> Cardinality(Below(H, x)) <= n
          BY DEF Heads
        <4>3. x <= i \/ x = e \/ e < x
          <5>1. x <= i \/ e <= x
            BY <2>2 DEF Block
          <5> QED BY <1>1, <2>3, <5>1
        <4>4. x <= i => x \in w
          <5>1. x < i => Cardinality(Below(H, x)) + 1 <= Cardinality(Below(H, i))
            BY <1>1, <1>4, BelowFacts
          <5>2. x <= i => x < i \/ x = i
            BY <1>1, <1>4
          <5> QED BY <1>4, <4>1, <4>2, <5>1, <5>2
        <4>5. e < x => Cardinality(Below(H, e)) + 1 <= Cardinality(Below(H, x))
          BY <1>1, BelowFacts
        <4> QED BY <2>4, <2>5, <4>1, <4>2, <4>3, <4>4, <4>5
      <3> QED BY <1>2, <3>1 DEF Heads
    <2>7. i + Size(heap, i) = e /\ ~(Size(heap, i) <= 0)
      BY <1>4, <2>3
    <2> QED BY <2>3, <2>6, <2>7
  <1> QED BY <1>5, <1>6

\* The walk finds the headers.
LEMMA HeadersIs ==
  ASSUME NEW H, NEW s, Arena(heap, H, {}, s)
  PROVE  Headers = H
  <1>1. Tiling(H) /\ H \subseteq 0..len /\ H \subseteq Nat /\ len \in Nat /\ 0 \in H
    BY LenFacts DEF Arena, Tiling
  <1>2. Heads(H, 0) = {0}
    <2>1. Cardinality(Below(H, 0)) = 0
      BY <1>1, BelowFacts
    <2>2. \A x \in H : 0 < x => ~(Cardinality(Below(H, x)) <= 0)
      <3> SUFFICES ASSUME NEW x \in H, 0 < x PROVE ~(Cardinality(Below(H, x)) <= 0)
        OBVIOUS
      <3>1. Cardinality(Below(H, 0)) + 1 <= Cardinality(Below(H, x)) /\ Cardinality(Below(H, x)) \in Nat
        BY <1>1, BelowFacts
      <3> QED BY <2>1, <3>1
    <2>3. \A x \in H : x = 0 \/ 0 < x
      BY <1>1
    <2>4. Cardinality(Below(H, 0)) <= 0
      BY <2>1
    <2>5. \A x \in H : Cardinality(Below(H, x)) <= 0 <=> x = 0
      BY <2>2, <2>3, <2>4
    <2> QED BY <1>1, <2>5 DEF Heads
  <1>3. Heads(H, len) = H
    BY <1>1, BelowFacts DEF Heads
  <1> DEFINE g == [n \in 0..len |-> Heads(H, n)]
  <1>4. g = HeadStep(g)
    <2>1. ASSUME NEW n \in 0..len
          PROVE  g[n] = IF n = 0 THEN {0}
                        ELSE LET w == g[n - 1]
                                 i == Max(w)
                             IN  IF i \notin Index \/ Size(heap, i) <= 0 THEN w
                                 ELSE w \cup {i + Size(heap, i)}
      <3>1. CASE n = 0
        BY <1>2, <3>1
      <3>2. CASE n # 0
        <4>1. PICK m \in Nat : m = n - 1 /\ m \in 0..len /\ m + 1 = n
          <5>1. n - 1 \in Nat /\ n - 1 \in 0..len /\ (n - 1) + 1 = n
            BY <1>1, <3>2
          <5> QED BY <5>1
        <4>2. g[m] = Heads(H, m) /\ g[n] = Heads(H, n)
          BY <4>1
        <4> HIDE DEF g
        <4> DEFINE w == g[m]
                   i == Max(w)
        <4>3. w = Heads(H, m) /\ i = Max(w)
          BY <4>2
        <4> HIDE DEF w, i
        <4>4. (IF i \notin Index \/ Size(heap, i) <= 0 THEN w ELSE w \cup {i + Size(heap, i)})
                = Heads(H, m + 1)
          BY <4>3, HeadsGrow, Zenon
        <4>5. g[n] = IF i \notin Index \/ Size(heap, i) <= 0 THEN w ELSE w \cup {i + Size(heap, i)}
          BY <4>1, <4>2, <4>4
        <4> QED BY <3>2, <4>1, <4>5 DEF w, i
      <3> QED BY <3>1, <3>2
    <2> HIDE DEF g
    <2>2. g = [n \in 0..len |-> g[n]]
      BY DEF g
    <2> QED BY <2>1, <2>2 DEF HeadStep
  <1> HIDE DEF g
  <1>5. PICK w : w = HeadStep(w) /\ Headers = w[len]
    BY <1>4, HeadersDefined
  <1> DEFINE S == {n \in 0..len : w[n] = Heads(H, n)}
  <1>6. 0 \in S
    <2>1. 0 \in 0..len
      BY <1>1
    <2> QED BY <1>2, <1>5, <2>1 DEF HeadStep
  <1>7. \A n \in 0..(len - 1) : n \in S => n + 1 \in S
    <2> SUFFICES ASSUME NEW n \in 0..(len - 1), w[n] = Heads(H, n)
                 PROVE  w[n + 1] = Heads(H, n + 1)
      BY <1>1
    <2>1. n \in Nat /\ n + 1 \in 0..len /\ n + 1 # 0 /\ (n + 1) - 1 = n
      BY <1>1
    <2>2. w[n + 1] = LET i == Max(w[n])
                     IN  IF i \notin Index \/ Size(heap, i) <= 0 THEN w[n]
                         ELSE w[n] \cup {i + Size(heap, i)}
      BY <1>5, <2>1 DEF HeadStep
    <2> QED BY <2>1, <2>2, HeadsGrow
  <1>8. len \in S
    <2> HIDE DEF S
    <2>1. \A n \in 0..len : n \in S
      BY <1>1, <1>6, <1>7, UpTo
    <2> QED BY <1>1, <2>1
  <1> QED BY <1>3, <1>5, <1>8
-----------------------------------------------------------------------------
(* What the invariant says.                                                *)

\* Only the headers in U count.
LEMMA CleanArena ==
  ASSUME NEW h, NEW H, NEW U, NEW V, NEW s, Arena(h, H, U, s), U \cap H = V \cap H
  PROVE  Arena(h, H, V, s)
  <1>1. H \ U = H \ V /\ \A i \in H : i \in U <=> i \in V
    OBVIOUS
  <1>2. Cut(h, H, V)
    BY <1>1 DEF Arena, Cut
  <1>3. Holds(h, H, V, s)
    BY <1>1 DEF Arena, Holds
  <1> QED BY <1>2, <1>3 DEF Arena

\* What is used most of an arena.
LEMMA ArenaSeq ==
  ASSUME NEW h, NEW H, NEW U, NEW s, Arena(h, H, U, s)
  PROVE  /\ s \in Seq(H) /\ Len(s) \in Nat /\ DOMAIN s = 1..Len(s)
         /\ s = [k \in 1..Len(s) |-> s[k]]
         /\ \A j, k \in 1..Len(s) : s[j] = s[k] => j = k
         /\ \A x \in Listed(s) : \E k \in 1..Len(s) : x = s[k]
         /\ \A k \in 1..Len(s) : s[k] \in Listed(s)
         /\ Tiling(H) /\ H \subseteq 0..len /\ H \subseteq Nat /\ len \in Nat /\ len >= 8
         /\ 0 \in H /\ len \in H
  <1>1. s \in Seq(H \ U)
    BY DEF Arena, Holds
  <1>2. s \in Seq(H)
    BY <1>1, SeqMonotonic, H \ U \subseteq H
  <1>3. Len(s) \in Nat /\ DOMAIN s = 1..Len(s) /\ s = [k \in 1..Len(s) |-> s[k]]
    BY <1>2, LenProperties
  <1>4. Tiling(H) /\ H \subseteq 0..len /\ H \subseteq Nat /\ len \in Nat /\ len >= 8
         /\ 0 \in H /\ len \in H
    BY LenFacts DEF Arena, Tiling
  <1> QED BY <1>2, <1>3, <1>4 DEF Arena, Holds, Listed

\* After init the headers and the list are those the walks find.
LEMMA Ready ==
  ASSUME HeapInv, heap # NoHeap
  PROVE  \E H : \E s \in Seq(H) : /\ Arena(heap, H, {}, s) /\ InOrder(H, s, blocks)
                                  /\ Headers = H /\ List(heap) = s
  <1>1. PICK H : \E s \in Seq(H) : Arena(heap, H, {}, s) /\ InOrder(H, s, blocks)
    BY DEF HeapInv
  <1>2. PICK s \in Seq(H) : Arena(heap, H, {}, s) /\ InOrder(H, s, blocks)
    BY <1>1
  <1>3. Headers = H
    BY <1>2, HeadersIs
  <1>4. List(heap) = s
    BY <1>2, ListIs
  <1> QED BY <1>2, <1>3, <1>4

\* Each header has a block, available or taken; behind an available block a taken one
\* follows.
LEMMA HeaderFacts ==
  ASSUME NEW H, NEW s, Arena(heap, H, {}, s), InOrder(H, s, blocks), NEW i \in H, i # len
  PROVE  \E e \in H :
           /\ Block(H, i, e) /\ Right(heap, i) = e /\ Size(heap, i) = e - i /\ i < e
           /\ heap.array[i] = heap.array[e - 1]
           /\ IsAvail(heap, i) <=> i \in Listed(s)
           /\ IsTaken(heap, i) <=> i \notin Listed(s)
           /\ i \in Listed(s) => e - i >= 4 /\ e # len /\ e \notin Listed(s)
  <1>1. H \subseteq Nat /\ i < len /\ Tiling(H) /\ len \in Nat
    <2>1. H \subseteq 0..len /\ H \subseteq Nat /\ Tiling(H) /\ len \in Nat
      BY ArenaSeq
    <2>2. i \in 0..len
      BY <2>1
    <2> QED BY <2>1, <2>2
  <1>2. PICK e \in H : Block(H, i, e)
    BY <1>1, BlockFrom
  <1>3. /\ Right(heap, i) = e /\ Size(heap, i) = e - i
        /\ heap.array[i] = heap.array[e - 1]
        /\ IsAvail(heap, i) <=> i \in Listed(s)
        /\ IsTaken(heap, i) <=> i \notin Listed(s)
        /\ i \in Listed(s) => e >= i + 4
    BY <1>2, BlockFacts
  <1>4. i < e
    BY <1>2 DEF Block
  <1>5. i \in Listed(s) => e # len /\ e \notin Listed(s)
    <2>1. Block(H, len - 2, len) /\ len - 2 \notin Listed(s)
      BY DEF InOrder
    <2>2. e = len => i = len - 2
      BY <1>1, <1>2, <2>1 DEF Block
    <2> QED BY <1>2, <2>1, <2>2 DEF InOrder
  <1>6. i \in Nat /\ e \in Nat
    BY <1>1
  <1>7. i \in Listed(s) => e - i >= 4
    BY <1>3, <1>6
  <1> QED BY <1>2, <1>3, <1>4, <1>5, <1>7

\* The invariant says that the heap is well formed.
LEMMA InvWellFormed ==
  ASSUME HeapInv PROVE HeapWellFormed
  <1> SUFFICES ASSUME heap # NoHeap
               PROVE  LET s == List(heap) IN
                      /\ Max(Headers) = len
                      /\ \A i \in Headers \ {len} :
                            /\ heap.array[i] = heap.array[i + Size(heap, i) - 1]
                            /\ IsAvail(heap, i) => Size(heap, i) >= 4
                                                   /\ IsTaken(heap, Right(heap, i))
                      /\ ToSet(s) = {i \in Headers \ {len} : IsAvail(heap, i)}
                      /\ IsInjective(s)
                      /\ \A k \in DOMAIN s : PrevOf(heap, s[k]) = IF k = 1 THEN 0 ELSE s[k - 1]
    BY DEF HeapWellFormed
  <1>1. PICK H : \E s \in Seq(H) : /\ Arena(heap, H, {}, s) /\ InOrder(H, s, blocks)
                                   /\ Headers = H /\ List(heap) = s
    BY Ready
  <1>2. PICK s \in Seq(H) : /\ Arena(heap, H, {}, s) /\ InOrder(H, s, blocks)
                            /\ Headers = H /\ List(heap) = s
    BY <1>1
  <1>3. /\ Len(s) \in Nat /\ DOMAIN s = 1..Len(s)
        /\ \A j, k \in 1..Len(s) : s[j] = s[k] => j = k
        /\ H \subseteq 0..len /\ H \subseteq Nat /\ len \in Nat /\ len \in H
    BY <1>2, ArenaSeq
  <1>4. Max(H) = len
    <2>1. Max(H) \in H /\ len <= Max(H)
      BY <1>3, MaxFacts
    <2>2. Max(H) \in 0..len
      BY <1>3, <2>1
    <2> QED BY <1>3, <2>1, <2>2
  <1>5. ASSUME NEW i \in H, i # len
        PROVE  /\ heap.array[i] = heap.array[i + Size(heap, i) - 1]
               /\ IsAvail(heap, i) => Size(heap, i) >= 4 /\ IsTaken(heap, Right(heap, i))
    <2>1. PICK e \in H :
             /\ Right(heap, i) = e /\ Size(heap, i) = e - i
             /\ heap.array[i] = heap.array[e - 1]
             /\ IsAvail(heap, i) <=> i \in Listed(s)
             /\ i \in Listed(s) => e - i >= 4 /\ e # len /\ e \notin Listed(s)
      BY <1>2, <1>5, HeaderFacts
    <2>2. i + Size(heap, i) - 1 = e - 1
      <3>1. i \in Nat /\ e \in Nat
        BY <1>3
      <3> QED BY <2>1, <3>1
    <2>3. i \in Listed(s) => IsTaken(heap, e)
      <3> SUFFICES ASSUME i \in Listed(s) PROVE IsTaken(heap, e)
        OBVIOUS
      <3>1. e # len /\ e \notin Listed(s)
        BY <2>1
      <3> QED BY <1>2, <3>1, HeaderFacts
    <2> QED BY <2>1, <2>2, <2>3
  <1>6. ToSet(s) = {i \in H \ {len} : IsAvail(heap, i)}
    <2>1. ToSet(s) = Listed(s)
      BY <1>3 DEF ToSet, Listed
    <2>2. \A x \in Listed(s) : x \in H /\ x # len
      BY <1>2, <1>3, ListedFacts
    <2>3. \A i \in H : i # len => (IsAvail(heap, i) <=> i \in Listed(s))
      BY <1>2, HeaderFacts
    <2> QED BY <2>1, <2>2, <2>3
  <1>7. IsInjective(s)
    BY <1>3 DEF IsInjective
  <1>8. ASSUME NEW k \in DOMAIN s
        PROVE  PrevOf(heap, s[k]) = IF k = 1 THEN 0 ELSE s[k - 1]
    <2>1. k \in 1..Len(s) /\ PrevOf(heap, s[k]) = At(s, k - 1)
      BY <1>2, <1>3, <1>8 DEF Arena, Linked
    <2>2. At(s, k - 1) = IF k = 1 THEN 0 ELSE s[k - 1]
      BY <1>3, <2>1 DEF At
    <2> QED BY <2>1, <2>2
  <1> QED BY <1>2, <1>4, <1>5, <1>6, <1>7, <1>8

\* The invariant says that malloc fails only if no run of free words is long enough.
LEMMA InvFull ==
  ASSUME HeapInv PROVE FailsOnlyWhenFull
  <1> SUFFICES ASSUME heap # NoHeap, NEW n \in Request, BestFit(heap, Entries(n)) = 0,
                      NEW i \in Index,
                      \A j \in i .. i + Entries(n) - 1 :
                         j \in Index /\ \A h \in Headers \ {len} :
                                           ~(IsTaken(heap, h) /\ j \in h .. Right(heap, h) - 1)
               PROVE  FALSE
    BY DEF FailsOnlyWhenFull
  <1>1. PICK H : \E s \in Seq(H) : /\ Arena(heap, H, {}, s) /\ InOrder(H, s, blocks)
                                   /\ Headers = H /\ List(heap) = s
    BY Ready
  <1>2. PICK s \in Seq(H) : /\ Arena(heap, H, {}, s) /\ InOrder(H, s, blocks)
                            /\ Headers = H /\ List(heap) = s
    BY <1>1
  <1>3. /\ Len(s) \in Nat /\ s = [k \in 1..Len(s) |-> s[k]]
        /\ \A x \in Listed(s) : \E k \in 1..Len(s) : x = s[k]
        /\ \A k \in 1..Len(s) : s[k] \in Listed(s)
        /\ H \subseteq 0..len /\ H \subseteq Nat /\ len \in Nat /\ Tiling(H)
    BY <1>2, ArenaSeq
  <1> DEFINE E == Entries(n)
  <1>4. E \in Nat /\ E >= 4
    BY EntriesFacts
  <1> HIDE DEF E
  <1>5. i \in Nat /\ i \in 0 .. len - 1
    BY <1>3 DEF Index
  <1>6. \A k \in 1..Len(s) : Size(heap, s[k]) < E
    <2>1. \A k \in 1..Len(s) : Size(heap, s[k]) \in Nat /\ s[k] # 0
      <3> TAKE k \in 1..Len(s)
      <3>1. s[k] \in Listed(s)
        BY <1>3
      <3>2. s[k] \in H /\ s[k] # 0 /\ s[k] # len
        BY <1>2, <1>3, <3>1, ListedFacts
      <3>3. PICK e \in H : Size(heap, s[k]) = e - s[k] /\ s[k] < e
        BY <1>2, <3>2, HeaderFacts
      <3>4. s[k] \in Nat /\ e \in Nat
        BY <1>3, <3>2
      <3> QED BY <3>2, <3>3, <3>4
    <2>2. E \in Int /\ s = List(heap) /\ BestFit(heap, E) = 0
      BY <1>2, <1>4 DEF E
    <2> QED BY <1>3, <2>1, <2>2, BestFitFacts
  <1>7. PICK a, e \in H : Block(H, a, e) /\ a <= i /\ i < e
    BY <1>3, WordInBlock
  <1>8. a \in Nat /\ e \in Nat /\ a # len
    BY <1>3, <1>5, <1>7
  <1>9. /\ Right(heap, a) = e /\ Size(heap, a) = e - a
        /\ IsTaken(heap, a) <=> a \notin Listed(s)
        /\ a \in Listed(s) => e # len /\ e \notin Listed(s)
    <2>1. /\ Right(heap, a) = e /\ Size(heap, a) = e - a
          /\ IsTaken(heap, a) <=> a \notin Listed(s)
      BY <1>2, <1>7, BlockFacts
    <2>2. Block(H, len - 2, len) /\ len - 2 \notin Listed(s)
      BY <1>2 DEF InOrder
    <2>3. e = len => a = len - 2
      BY <1>3, <1>7, <2>2 DEF Block
    <2>4. a \in Listed(s) => e \notin Listed(s)
      BY <1>2, <1>7 DEF InOrder
    <2> QED BY <2>1, <2>2, <2>3, <2>4
  <1>10. a \in Listed(s)
    <2>1. i \in i .. i + E - 1 /\ i \in a .. e - 1
      BY <1>4, <1>5, <1>7, <1>8
    <2> QED BY <1>2, <1>8, <1>9, <2>1 DEF E
  <1>11. e \in i .. i + E - 1
    <2>1. e - a < E
      BY <1>3, <1>6, <1>9, <1>10
    <2> QED BY <1>4, <1>5, <1>7, <1>8, <2>1
  <1>12. PICK f \in H : Right(heap, e) = f /\ e < f /\ (IsTaken(heap, e) <=> e \notin Listed(s))
    BY <1>2, <1>9, <1>10, HeaderFacts
  <1>13. e \in e .. f - 1
    <2>1. f \in Nat
      BY <1>3
    <2> QED BY <1>8, <1>12, <2>1
  <1> QED BY <1>2, <1>9, <1>10, <1>11, <1>12, <1>13 DEF E
-----------------------------------------------------------------------------
(* init and malloc keep the invariant.                                     *)

\* What is used most of the order of the blocks.
LEMMA InOrderFacts ==
  ASSUME NEW h, NEW H, NEW s, NEW bs, Arena(h, H, {}, s), InOrder(H, s, bs)
  PROVE  /\ 2 \in H /\ len - 2 \in H
         /\ \A x \in H : x <= 0 \/ 2 <= x
         /\ \A x \in H : x <= len - 2 \/ len <= x
         /\ len - 2 \notin Listed(s)
         /\ \A x \in Listed(s) : x \in H /\ x \in Nat /\ 2 <= x /\ x < len - 2
         /\ \A i, e \in H : Block(H, i, e) /\ i \in Listed(s) => e \notin Listed(s)
  <1>1. /\ 2 \in H /\ len - 2 \in H
        /\ \A x \in H : x <= 0 \/ 2 <= x
        /\ \A x \in H : x <= len - 2 \/ len <= x
        /\ len - 2 \notin Listed(s)
    BY DEF InOrder, Block
  <1>2. H \subseteq Nat /\ len \in Nat
    BY ArenaSeq
  <1>3. ASSUME NEW x \in Listed(s)
        PROVE  x \in H /\ x \in Nat /\ 2 <= x /\ x < len - 2
    <2>1. x \in H /\ x > 0 /\ x < len
      BY ListedFacts
    <2>2. x \in Nat /\ x # len - 2 /\ (x <= 0 \/ 2 <= x) /\ (x <= len - 2 \/ len <= x)
      BY <1>1, <1>2, <2>1
    <2> QED BY <1>2, <2>1, <2>2
  <1> QED BY <1>1, <1>3 DEF InOrder

\* Before init there are no blocks.
LEMMA NoArena ==
  ASSUME NEW H, NEW U, NEW s
  PROVE  ~Arena(NoHeap, H, U, s)
  <1> SUFFICES ASSUME IsHeap(NoHeap) PROVE FALSE
    BY DEF Arena
  <1>1. NoHeap.array = <<>> /\ NoHeap.array \in [Index -> Int]
    BY DEF NoHeap, IsHeap
  <1>2. 0 \in Index
    BY LenFacts DEF Index
  <1>3. Index = {}
    BY <1>1
  <1> QED BY <1>2, <1>3

\* init leaves one available block between the two markers.
LEMMA SetUpKeeps ==
  ASSUME HeapInv, SetUp
  PROVE  HeapInv'
  <1> DEFINE raw == [array |-> [i \in Index |-> Junk], avail |-> 0]
             H == {0, 2, len - 2, len}
             U == {0, 2, len - 2}
             s == With(2, <<>>)
             h1 == MakeTaken(raw, 0, 2)
             h2 == MakeAvail(h1, 2, len - 4)
             h3 == MakeTaken(h2, len - 2, 2)
  <1>1. len \in Nat /\ len >= 8 /\ len % 2 = 0 /\ (len - 2) % 2 = 0
    <2>1. len \in Nat /\ len >= 8 /\ len % 2 = 0
      BY LenFacts
    <2>2. len \in Int /\ 2 \in Int /\ 2 % 2 = 0
      BY <2>1
    <2>3. (len - 2) % 2 = 0
      BY <2>1, <2>2, EvenFacts
    <2> QED BY <2>1, <2>3
  <1>2. Block(H, 0, 2) /\ Block(H, 2, len - 2) /\ Block(H, len - 2, len)
    BY <1>1 DEF Block
  <1>3. Arena(raw, H, U, <<>>)
    <2>1. Tiling(H)
      BY <1>1 DEF Tiling
    <2>2. IsHeap(raw)
      BY DEF IsHeap, Junk
    <2>3. \A i, e \in H : ~(Block(H, i, e) /\ i \notin U)
      BY <1>1 DEF Block
    <2>4. Len(<<>>) = 0 /\ <<>> \in Seq(H \ U)
      OBVIOUS
    <2>5. Linked(raw, <<>>)
      BY <2>4 DEF Linked, At
    <2> HIDE DEF H, U, raw
    <2>6. Cut(raw, H, U)
      BY <2>3 DEF Cut
    <2>7. Holds(raw, H, U, <<>>)
      BY <2>3, <2>4 DEF Holds
    <2> QED BY <2>1, <2>2, <2>5, <2>6, <2>7 DEF Arena
  <1>4. 0 \in H /\ 2 \in H /\ len - 2 \in H /\ len \in H /\ 0 \in U /\ 2 \in U \ {0}
        /\ len - 2 \in (U \ {0}) \ {2} /\ ((U \ {0}) \ {2}) \ {len - 2} = {}
    BY <1>1
  <1>5. heap' = h3 /\ blocks' = blocks /\ blocks = {}
    <2>1. heap' = h3 /\ blocks' = blocks /\ heap = NoHeap
      BY DEF SetUp
    <2>2. \A G, t : ~Arena(NoHeap, G, {}, t)
      BY NoArena
    <2> QED BY <2>1, <2>2 DEF HeapInv
  <1> HIDE DEF H, U, raw
  <1>6. Arena(h1, H, U \ {0}, <<>>)
    <2>1. Arena(MakeTaken(raw, 0, 2 - 0), H, U \ {0}, <<>>)
      BY <1>2, <1>3, <1>4, TakenArena, Zenon
    <2>2. 2 - 0 = 2
      OBVIOUS
    <2> QED BY <2>1, <2>2
  <1> HIDE DEF h1
  <1>7. Arena(h2, H, (U \ {0}) \ {2}, s)
    <2>1. 2 > 0 /\ (len - 2) - 2 = len - 4 /\ len - 4 >= 4
      BY <1>1
    <2>2. (len - 2) - 2 >= 4
      BY <2>1
    <2>3. Arena(MakeAvail(h1, 2, (len - 2) - 2), H, (U \ {0}) \ {2}, s)
      BY <1>2, <1>4, <1>6, <2>1, <2>2, AvailArena, Zenon
    <2> QED BY <2>1, <2>3
  <1> HIDE DEF h2
  <1>8. Arena(h3, H, {}, s)
    <2>1. len - (len - 2) = 2
      BY <1>1
    <2>2. Arena(MakeTaken(h2, len - 2, len - (len - 2)), H, ((U \ {0}) \ {2}) \ {len - 2}, s)
      BY <1>2, <1>4, <1>7, TakenArena, Zenon
    <2> QED BY <1>4, <2>1, <2>2
  <1>9. Listed(s) = {2}
    <2>1. /\ <<>> \in Seq({}) /\ Len(<<>>) = 0
      OBVIOUS
    <2>2. Listed(<<>>) = {}
      BY <2>1 DEF Listed
    <2>3. IsWith(s, <<>>, 2, {})
      <3>1. 2 \notin Listed(<<>>)
        BY <2>2
      <3>2. \A j, k \in 1..Len(<<>>) : <<>>[j] = <<>>[k] => j = k
        BY <2>1
      <3> QED BY <2>1, <3>1, <3>2, WithFacts
    <2>4. Listed(s) = Listed(<<>>) \cup {2}
      BY <2>3 DEF IsWith
    <2> QED BY <2>2, <2>4
  <1> HIDE DEF s, h3
  <1>10. InOrder(H, s, {})
    <2>1. len - 2 \notin {2} /\ \A e \in H : Block(H, 2, e) => e # 2
      BY <1>1 DEF Block
    <2> QED BY <1>2, <1>9, <2>1 DEF InOrder
  <1>11. s \in Seq(H)
    BY <1>8, ArenaSeq
  <1> QED BY <1>5, <1>8, <1>10, <1>11 DEF HeapInv

\* A block that the list gave up and that was cut in two: its second part is listed.
LEMMA SplitOrder ==
  ASSUME NEW h, NEW H, NEW s, NEW bs, Arena(h, H, {}, s), InOrder(H, s, bs),
         NEW i \in Listed(s), NEW e \in H, Block(H, i, e),
         NEW m \in Nat, i < m, m < e, m \notin H,
         NEW z, Listed(z) = (Listed(s) \ {i}) \cup {m},
         NEW n \in Request, i + 1 \in Index, i + 1 + (n + 7) \div 8 <= m - 1
  PROVE  InOrder(H \cup {m}, z, bs \cup {[at |-> i + 1, bytes |-> n]})
  <1> DEFINE G == H \cup {m}
             new == [at |-> i + 1, bytes |-> n]
  <1>1. /\ H \subseteq Nat /\ len \in Nat /\ len >= 8 /\ 0 \in H /\ len \in H
    BY ArenaSeq
  <1>2. /\ 2 \in H /\ len - 2 \in H
        /\ \A x \in H : x <= 0 \/ 2 <= x
        /\ \A x \in H : x <= len - 2 \/ len <= x
        /\ len - 2 \notin Listed(s)
        /\ \A x \in Listed(s) : x \in H /\ x \in Nat /\ 2 <= x /\ x < len - 2
        /\ \A a, f \in H : Block(H, a, f) /\ a \in Listed(s) => f \notin Listed(s)
    BY InOrderFacts
  <1>3. /\ i \in H /\ i \in Nat /\ e \in Nat /\ 2 <= i /\ i < len - 2
        /\ \A x \in H : x <= i \/ e <= x
    BY <1>1, <1>2 DEF Block
  <1>4. e <= len - 2 /\ m < len - 2
    <2>1. e <= len - 2
      BY <1>1, <1>2, <1>3
    <2> QED BY <1>1, <1>3, <2>1
  <1>5. Block(G, 0, 2) /\ Block(G, len - 2, len)
    BY <1>1, <1>2, <1>3, <1>4 DEF Block
  <1>6. len - 2 \notin Listed(z)
    BY <1>1, <1>2, <1>4
  <1>7. ASSUME NEW a \in H, a # i, NEW f \in G, Block(G, a, f)
        PROVE  f \in H /\ Block(H, a, f)
    <2>1. a < f /\ a \in Nat /\ (i <= a \/ f <= i) /\ \A x \in H : x <= a \/ f <= x
      BY <1>1, <1>3, <1>7 DEF Block
    <2>2. f # m
      BY <1>1, <1>3, <1>7, <2>1
    <2> QED BY <1>7, <2>1, <2>2 DEF Block
  <1>8. ASSUME NEW f \in G, Block(G, m, f)
        PROVE  f = e
    <2>1. m < f /\ f \in Nat /\ (e <= m \/ f <= e)
      BY <1>1, <1>8 DEF Block
    <2>2. f \in H /\ (f <= i \/ e <= f)
      BY <1>3, <2>1
    <2> QED BY <1>3, <2>1, <2>2
  <1>9. ASSUME NEW f \in G, Block(G, i, f)
        PROVE  f = m
    <2>1. i < f /\ f \in Nat /\ (m <= i \/ f <= m)
      BY <1>1, <1>9 DEF Block
    <2>2. f = m \/ (f \in H /\ (f <= i \/ e <= f))
      BY <1>3
    <2> QED BY <1>3, <2>1, <2>2
  <1>10. ASSUME NEW a \in G, NEW f \in G, Block(G, a, f), a \in Listed(z)
         PROVE  f \notin Listed(z)
    <2>1. CASE a = m
      <3>1. f = e
        BY <1>8, <1>10, <2>1
      <3>2. e \notin Listed(s) /\ e # m
        BY <1>2, <1>3
      <3> QED BY <3>1, <3>2
    <2>2. CASE a # m
      <3>1. a \in Listed(s) /\ a # i /\ a \in H
        BY <1>2, <1>10, <2>2
      <3>2. f \in H /\ Block(H, a, f)
        BY <1>7, <1>10, <3>1
      <3>3. f \notin Listed(s) /\ f # m
        BY <1>2, <3>1, <3>2
      <3> QED BY <3>3
    <2> QED BY <2>1, <2>2
  <1>11. \A b \in bs :
            /\ b \in [at : Index, bytes : Request]
            /\ b.at - 1 \in H /\ b.at - 1 \notin Listed(s) /\ b.at > 1 /\ b.at - 1 < len - 2
            /\ \A f \in H : Block(H, b.at - 1, f) => b.at + (b.bytes + 7) \div 8 <= f - 1
    BY DEF InOrder
  <1>12. ASSUME NEW b \in bs
         PROVE  /\ b \in [at : Index, bytes : Request]
                /\ b.at - 1 \in G /\ b.at - 1 \notin Listed(z) /\ b.at > 1 /\ b.at - 1 < len - 2
                /\ \A f \in G : Block(G, b.at - 1, f) => b.at + (b.bytes + 7) \div 8 <= f - 1
                /\ b.at # i + 1
    <2> DEFINE a == b.at - 1
    <2>1. /\ a \in H /\ a \notin Listed(s)
          /\ \A f \in H : Block(H, a, f) => b.at + (b.bytes + 7) \div 8 <= f - 1
      BY <1>11
    <2>2. a # i /\ a # m
      BY <2>1
    <2> HIDE DEF a
    <2>3. \A f \in G : Block(G, a, f) => b.at + (b.bytes + 7) \div 8 <= f - 1
      BY <1>7, <2>1, <2>2
    <2>4. a \in G /\ a \notin Listed(z)
      BY <2>1, <2>2
    <2>5. b.at # i + 1
      BY <1>3, <2>2 DEF a
    <2> QED BY <1>11, <2>3, <2>4, <2>5 DEF a
  <1>13. /\ new \in [at : Index, bytes : Request] /\ new.at - 1 = i
         /\ i \in G /\ i \notin Listed(z) /\ new.at > 1 /\ i < len - 2
         /\ \A f \in G : Block(G, i, f) => new.at + (new.bytes + 7) \div 8 <= f - 1
    <2>1. i # m /\ i \in G /\ i \notin Listed(z)
      BY <1>3
    <2>2. new \in [at : Index, bytes : Request] /\ new.at = i + 1 /\ new.bytes = n
      OBVIOUS
    <2>3. i + 1 - 1 = i /\ i + 1 > 1
      BY <1>3
    <2>4. \A f \in G : Block(G, i, f) => i + 1 + (n + 7) \div 8 <= f - 1
      BY <1>9
    <2> HIDE DEF G, new
    <2> QED BY <1>3, <2>1, <2>2, <2>3, <2>4
  <1>14. \A b, c \in bs : b.at = c.at => b = c
    BY DEF InOrder
  <1> HIDE DEF G, new
  <1>15. \A b \in bs \cup {new} :
            /\ b \in [at : Index, bytes : Request]
            /\ b.at - 1 \in G /\ b.at - 1 \notin Listed(z) /\ b.at > 1 /\ b.at - 1 < len - 2
            /\ \A f \in G : Block(G, b.at - 1, f) => b.at + (b.bytes + 7) \div 8 <= f - 1
    BY <1>12, <1>13
  <1>16. \A b, c \in bs \cup {new} : b.at = c.at => b = c
    BY <1>12, <1>14 DEF new
  <1>17. InOrder(G, z, bs \cup {new})
    BY <1>5, <1>6, <1>10, <1>15, <1>16 DEF InOrder
  <1> QED BY <1>17 DEF G, new

\* A block that the list gave up as a whole.
LEMMA TakeOrder ==
  ASSUME NEW h, NEW H, NEW s, NEW bs, Arena(h, H, {}, s), InOrder(H, s, bs),
         NEW i \in Listed(s), NEW e \in H, Block(H, i, e),
         NEW z, Listed(z) = Listed(s) \ {i},
         NEW n \in Request, i + 1 \in Index, i + 1 + (n + 7) \div 8 <= e - 1
  PROVE  InOrder(H, z, bs \cup {[at |-> i + 1, bytes |-> n]})
  <1> DEFINE new == [at |-> i + 1, bytes |-> n]
  <1>1. H \subseteq Nat /\ len \in Nat
    BY ArenaSeq
  <1>2. /\ i \in H /\ i \in Nat /\ 2 <= i /\ i < len - 2
    BY InOrderFacts
  <1>3. \A b \in bs :
            /\ b \in [at : Index, bytes : Request]
            /\ b.at - 1 \in H /\ b.at - 1 \notin Listed(s) /\ b.at > 1 /\ b.at - 1 < len - 2
            /\ \A f \in H : Block(H, b.at - 1, f) => b.at + (b.bytes + 7) \div 8 <= f - 1
    BY DEF InOrder
  <1>4. \A b \in bs : b.at # i + 1
    <2> TAKE b \in bs
    <2>1. b.at - 1 # i
      BY <1>3
    <2> QED BY <1>2, <2>1
  <1>5. \A f \in H : Block(H, i, f) => f = e
    <2>1. H \subseteq Int
      BY <1>1
    <2> QED BY <1>2, <2>1, OneBlock
  <1>6. /\ new \in [at : Index, bytes : Request] /\ new.at - 1 = i
        /\ i \notin Listed(z) /\ new.at > 1
        /\ \A f \in H : Block(H, i, f) => new.at + (new.bytes + 7) \div 8 <= f - 1
    BY <1>2, <1>5
  <1>7. \A b, c \in bs : b.at = c.at => b = c
    BY DEF InOrder
  <1>8. \A b, c \in bs \cup {new} : b.at = c.at => b = c
    BY <1>4, <1>7
  <1> HIDE DEF new
  <1>9. \A b \in bs \cup {new} :
            /\ b \in [at : Index, bytes : Request]
            /\ b.at - 1 \in H /\ b.at - 1 \notin Listed(z) /\ b.at > 1 /\ b.at - 1 < len - 2
            /\ \A f \in H : Block(H, b.at - 1, f) => b.at + (b.bytes + 7) \div 8 <= f - 1
    BY <1>2, <1>3, <1>6
  <1>10. InOrder(H, z, bs \cup {new})
    BY <1>8, <1>9 DEF InOrder
  <1> QED BY <1>10 DEF new
\* What malloc settles on is an available block that is long enough.
LEMMA SettlesOn ==
  ASSUME NEW H, NEW s, Arena(heap, H, {}, s), NEW n \in Request,
         NEW i, i = BestFit(heap, Entries(n)), i # 0
  PROVE  \E k \in 1..Len(s) : \E e \in H :
            i = s[k] /\ Block(H, i, e) /\ Size(heap, i) = e - i /\ e - i >= Entries(n)
  <1>1. /\ Len(s) \in Nat /\ s = [k \in 1..Len(s) |-> s[k]]
        /\ \A k \in 1..Len(s) : s[k] \in Listed(s)
        /\ H \subseteq Nat /\ len \in Nat /\ Tiling(H)
    BY ArenaSeq
  <1>2. ASSUME NEW k \in 1..Len(s)
        PROVE  \E e \in H : Block(H, s[k], e) /\ Size(heap, s[k]) = e - s[k]
                            /\ Size(heap, s[k]) \in Nat /\ s[k] # 0
    <2>1. s[k] \in Listed(s)
      BY <1>1
    <2>2. s[k] \in H /\ s[k] # 0 /\ s[k] < len
      BY <2>1, ListedFacts
    <2>3. PICK e \in H : Block(H, s[k], e)
      BY <1>1, <2>2, BlockFrom
    <2>4. Size(heap, s[k]) = e - s[k]
      BY <2>2, <2>3, BlockFacts
    <2>5. s[k] \in Nat /\ e \in Nat /\ s[k] < e
      BY <1>1, <2>2, <2>3 DEF Block
    <2> QED BY <2>2, <2>3, <2>4, <2>5
  <1> DEFINE E == Entries(n)
  <1>3. E \in Nat
    BY EntriesFacts
  <1>4. s = List(heap)
    BY ListIs
  <1>5. i = BestFit(heap, E)
    OBVIOUS
  <1> HIDE DEF E
  <1>6. \A k \in 1..Len(s) : Size(heap, s[k]) \in Nat /\ s[k] # 0
    BY <1>2
  <1>7. E \in Int /\ BestFit(heap, E) # 0
    BY <1>3, <1>5
  <1>8. IF BestFit(heap, E) = 0 THEN \A k \in 1..Len(s) : Size(heap, s[k]) < E
        ELSE \E k \in 1..Len(s) : BestFit(heap, E) = s[k] /\ Size(heap, s[k]) >= E
    BY <1>1, <1>4, <1>6, <1>7, BestFitFacts
  <1>9. PICK k \in 1..Len(s) : i = s[k] /\ Size(heap, s[k]) >= E
    BY <1>5, <1>7, <1>8
  <1>10. PICK e \in H : Block(H, s[k], e) /\ Size(heap, s[k]) = e - s[k]
    BY <1>2
  <1> QED BY <1>9, <1>10 DEF E

\* malloc takes a block from the list, and gives back what is left of it.
LEMMA MallocKeeps ==
  ASSUME NEW H, NEW s, Arena(heap, H, {}, s), InOrder(H, s, blocks),
         NEW n \in Request, Malloc(n)
  PROVE  \E G : \E z : Arena(heap', G, {}, z) /\ InOrder(G, z, blocks')
  <1> DEFINE E == Entries(n)
             i == BestFit(heap, E)
             b == [at |-> i + 1, bytes |-> n]
             h1 == Unlink(heap, i)
             extra == Size(heap, i) - E
  <1>1. /\ heap' = IF extra >= 4 THEN MakeAvail(MakeTaken(h1, i, E), i + E, extra)
                   ELSE MakeTaken(h1, i, Size(heap, i))
        /\ blocks' = blocks \cup {b} /\ i # 0
    BY DEF Malloc, TakeAndSplit
  <1>2. E \in Nat /\ E >= 4 /\ E % 2 = 0 /\ (n + 7) \div 8 \in Nat /\ E >= (n + 7) \div 8 + 2
    BY EntriesFacts
  <1>3. PICK k \in 1..Len(s) : \E e \in H :
            i = s[k] /\ Block(H, i, e) /\ Size(heap, i) = e - i /\ e - i >= E
    BY <1>1, SettlesOn
  <1>4. PICK e \in H : i = s[k] /\ Block(H, i, e) /\ Size(heap, i) = e - i /\ e - i >= E
    BY <1>3
  <1>5. i \in Listed(s) /\ H \subseteq Nat /\ len \in Nat /\ s \in Seq(H) /\ Len(s) \in Nat
        /\ \A x, y \in 1..Len(s) : s[x] = s[y] => x = y
    BY <1>4, ArenaSeq
  <1>6. i \in H /\ i \in Nat /\ e \in Nat /\ i > 0 /\ i + 1 \in Index /\ i < e
    <2>1. i \in H /\ i \in Nat /\ i > 0 /\ i + 1 \in Index
      BY <1>5, ListedFacts
    <2> QED BY <1>4, <1>5, <2>1 DEF Block
  <1>7. i % 2 = 0
    BY <1>6 DEF Arena, Tiling
  <1> HIDE DEF E, i, h1, extra
  <1> DEFINE w == Without(s, k)
  <1>8. Arena(h1, H, {i}, w)
    <2>1. Arena(Unlink(heap, s[k]), H, {} \cup {s[k]}, w)
      BY UnlinkArena
    <2>2. {} \cup {s[k]} = {i} /\ Unlink(heap, s[k]) = h1
      BY <1>4 DEF h1
    <2> QED BY <2>1, <2>2
  <1>9. Listed(w) = Listed(s) \ {i}
    <2>1. IsWithout(w, s, k, H)
      BY <1>5, WithoutFacts
    <2> QED BY <1>4, <2>1 DEF IsWithout
  <1> HIDE DEF w
  <1>10. CASE extra >= 4
    <2> DEFINE m == i + E
               G == H \cup {m}
               h2 == MakeTaken(h1, i, E)
               h3 == MakeAvail(h2, m, extra)
               z == With(m, w)
    <2>1. /\ m \in Nat /\ i < m /\ m < e /\ m - i = E /\ e - m = extra /\ m > 0 /\ e - m >= 4
      <3>1. extra = (e - i) - E
        BY <1>4 DEF extra
      <3> QED BY <1>2, <1>6, <1>10, <3>1
    <2>2. m % 2 = 0 /\ m \in Int
      BY <1>2, <1>6, <1>7, EvenFacts
    <2> HIDE DEF m
    <2>3. /\ Arena(h1, G, {i} \cup {m}, w)
          /\ Block(G, i, m) /\ Block(G, m, e) /\ m \notin H
      <3>1. i \in {i}
        OBVIOUS
      <3> QED BY <1>4, <1>6, <1>8, <2>1, <2>2, <3>1, SplitArena
    <2>4. i \in G /\ m \in G /\ e \in G /\ i \in {i} \cup {m} /\ m \in ({i} \cup {m}) \ {i}
          /\ (({i} \cup {m}) \ {i}) \ {m} = {}
      BY <1>6, <2>1
    <2>5. Arena(h2, G, ({i} \cup {m}) \ {i}, w)
      <3>1. Arena(MakeTaken(h1, i, m - i), G, ({i} \cup {m}) \ {i}, w)
        BY <2>3, <2>4, TakenArena, Zenon
      <3> QED BY <2>1, <3>1
    <2> HIDE DEF h2
    <2>6. Arena(h3, G, {}, z)
      <3>1. Arena(MakeAvail(h2, m, e - m), G, (({i} \cup {m}) \ {i}) \ {m}, z)
        BY <2>1, <2>3, <2>4, <2>5, AvailArena, Zenon
      <3> QED BY <2>1, <2>4, <3>1
    <2>7. Listed(z) = (Listed(s) \ {i}) \cup {m}
      <3>1. /\ w \in Seq(H) /\ \A x, y \in 1..Len(w) : w[x] = w[y] => x = y
            /\ \A x \in Listed(w) : x \in H
        BY <1>8, ArenaSeq, ListedFacts
      <3>2. m \notin Listed(w)
        BY <2>3, <3>1
      <3>3. IsWith(z, w, m, H)
        BY <3>1, <3>2, WithFacts
      <3> QED BY <1>9, <3>3 DEF IsWith
    <2>8. i + 1 + (n + 7) \div 8 <= m - 1
      BY <1>2, <1>6, <2>1
    <2> HIDE DEF z
    <2>9. InOrder(G, z, blocks \cup {[at |-> i + 1, bytes |-> n]})
      BY <1>4, <1>5, <1>6, <2>1, <2>3, <2>7, <2>8, SplitOrder
    <2>10. heap' = h3
      BY <1>1, <1>10 DEF m, h2
    <2> QED BY <1>1, <2>6, <2>9, <2>10
  <1>11. CASE ~(extra >= 4)
    <2>1. Arena(MakeTaken(h1, i, e - i), H, {i} \ {i}, w)
      BY <1>4, <1>6, <1>8, TakenArena
    <2>2. {i} \ {i} = {} /\ heap' = MakeTaken(h1, i, e - i)
      BY <1>1, <1>4, <1>11
    <2>3. i + 1 + (n + 7) \div 8 <= e - 1
      BY <1>2, <1>4, <1>6, SMTT(30)
    <2>4. InOrder(H, w, blocks \cup {[at |-> i + 1, bytes |-> n]})
      BY <1>4, <1>5, <1>6, <1>9, <2>3, TakeOrder
    <2> QED BY <1>1, <2>1, <2>2, <2>4
  <1> QED BY <1>10, <1>11
-----------------------------------------------------------------------------
(* free keeps the invariant.                                               *)

\* The blocks from j to z are i and available ones, and the blocks beside them are taken.
Joins(H, s, i, j, z) ==
  /\ j \in H /\ z \in H /\ j <= i /\ i < z /\ j > 0 /\ z <= len - 2
  /\ z \notin Listed(s) /\ \A p \in H : Block(H, p, j) => p \notin Listed(s)
  /\ \A x \in H : j <= x /\ x < z => x = i \/ x \in Listed(s)

\* The headers left when they are joined, and the available blocks not among them.
Joined(H, j, z) == {x \in H : x <= j \/ z <= x}

Apart(s, j, z) == {x \in Listed(s) : x < j \/ z <= x}

\* Those blocks are joined to one, and that one is listed.
LEMMA MergeOrder ==
  ASSUME NEW h, NEW H, NEW s, NEW bs, Arena(h, H, {}, s), InOrder(H, s, bs),
         NEW b \in bs, NEW i, i = b.at - 1, NEW j, NEW z, Joins(H, s, i, j, z),
         NEW G, G = Joined(H, j, z), NEW t, Listed(t) = Apart(s, j, z) \cup {j}
  PROVE  InOrder(G, t, bs \ {b})
  <1>0. /\ j \in H /\ z \in H /\ j <= i /\ i < z /\ j > 0 /\ z <= len - 2
        /\ z \notin Listed(s) /\ \A p \in H : Block(H, p, j) => p \notin Listed(s)
        /\ \A x \in H : j <= x /\ x < z => x = i \/ x \in Listed(s)
        /\ G = {x \in H : x <= j \/ z <= x}
        /\ Listed(t) = {x \in Listed(s) : x < j \/ z <= x} \cup {j}
    BY DEF Joins, Joined, Apart
  <1>1. /\ H \subseteq Nat /\ len \in Nat /\ len >= 8 /\ 0 \in H /\ len \in H
    BY ArenaSeq
  <1>2. /\ 2 \in H /\ len - 2 \in H
        /\ \A x \in H : x <= 0 \/ 2 <= x
        /\ \A x \in H : x <= len - 2 \/ len <= x
        /\ len - 2 \notin Listed(s)
        /\ \A x \in Listed(s) : x \in H /\ x \in Nat /\ 2 <= x /\ x < len - 2
        /\ \A a, f \in H : Block(H, a, f) /\ a \in Listed(s) => f \notin Listed(s)
    BY InOrderFacts
  <1>3. \A c \in bs :
            /\ c \in [at : Index, bytes : Request]
            /\ c.at - 1 \in H /\ c.at - 1 \notin Listed(s) /\ c.at > 1 /\ c.at - 1 < len - 2
            /\ \A f \in H : Block(H, c.at - 1, f) => c.at + (c.bytes + 7) \div 8 <= f - 1
    BY DEF InOrder
  <1>4. \A c, d \in bs : c.at = d.at => c = d
    BY DEF InOrder
  <1>5. /\ j \in Nat /\ z \in Nat /\ i \in Nat /\ 2 <= j /\ i \in H /\ i \notin Listed(s)
        /\ G \subseteq H /\ j \in G /\ z \in G /\ j < z
    <2>1. i \in H /\ i \notin Listed(s)
      BY <1>0, <1>3
    <2>2. j \in Nat /\ z \in Nat /\ i \in Nat
      BY <1>0, <1>1, <2>1
    <2> QED BY <1>0, <1>1, <1>2, <2>1, <2>2
  <1>6. Block(G, 0, 2) /\ Block(G, len - 2, len)
    BY <1>0, <1>1, <1>2, <1>5 DEF Block
  <1>7. len - 2 \notin Listed(t)
    BY <1>0, <1>1, <1>2, <1>5
  <1>8. ASSUME NEW a \in G, a # j, NEW f \in G, Block(G, a, f)
        PROVE  Block(H, a, f)
    <2>1. /\ a \in Nat /\ f \in Nat /\ a < f /\ (a <= j \/ z <= a)
          /\ (j <= a \/ f <= j) /\ \A x \in G : x <= a \/ f <= x
      BY <1>0, <1>1, <1>5, <1>8 DEF Block
    <2>2. ASSUME NEW x \in H PROVE x <= a \/ f <= x
      <3>1. x \in Nat /\ (x \in G \/ (j < x /\ x < z))
        BY <1>0, <1>1, <1>5
      <3> QED BY <1>0, <1>5, <1>8, <2>1, <3>1
    <2> QED BY <1>0, <1>5, <2>1, <2>2 DEF Block
  <1>9. ASSUME NEW f \in G, Block(G, j, f)
        PROVE  f = z
    <2>1. f \in Nat /\ j < f /\ (z <= j \/ f <= z) /\ (f <= j \/ z <= f)
      BY <1>0, <1>1, <1>5, <1>9 DEF Block
    <2> QED BY <1>0, <1>5, <2>1
  <1>10. ASSUME NEW a \in G, NEW f \in G, Block(G, a, f), a \in Listed(t)
         PROVE  f \notin Listed(t)
    <2>1. CASE a = j
      <3>1. f = z /\ z # j
        BY <1>0, <1>5, <1>9, <1>10, <2>1
      <3> QED BY <1>0, <3>1
    <2>2. CASE a # j
      <3>1. a \in Listed(s) /\ Block(H, a, f) /\ a \in H /\ f \in H
        BY <1>0, <1>5, <1>8, <1>10, <2>2
      <3>2. f \notin Listed(s) /\ f # j
        BY <1>0, <1>2, <3>1
      <3> QED BY <1>0, <3>2
    <2> QED BY <2>1, <2>2
  <1>11. ASSUME NEW c \in bs \ {b}
         PROVE  /\ c \in [at : Index, bytes : Request]
                /\ c.at - 1 \in G /\ c.at - 1 \notin Listed(t) /\ c.at > 1 /\ c.at - 1 < len - 2
                /\ \A f \in G : Block(G, c.at - 1, f) => c.at + (c.bytes + 7) \div 8 <= f - 1
    <2> DEFINE a == c.at - 1
    <2>1. /\ a \in H /\ a \notin Listed(s)
          /\ \A f \in H : Block(H, a, f) => c.at + (c.bytes + 7) \div 8 <= f - 1
      BY <1>0, <1>3
    <2>2. a # i
      <3>1. c.at \in Int /\ b.at \in Int
        BY <1>0, <1>3, LenFacts DEF Index
      <3> QED BY <1>0, <1>4, <3>1
    <2> HIDE DEF a
    <2>3. a # j
      <3>1. j = i \/ j \in Listed(s)
        BY <1>0, <1>5
      <3> QED BY <2>1, <2>2, <3>1
    <2>4. a \in G
      <3>1. a <= j \/ z <= a
        BY <1>0, <1>1, <1>5, <2>1, <2>2
      <3> QED BY <1>0, <2>1, <3>1
    <2>5. a \notin Listed(t)
      BY <1>0, <2>1, <2>3
    <2>6. \A f \in G : Block(G, a, f) => c.at + (c.bytes + 7) \div 8 <= f - 1
      BY <1>0, <1>5, <1>8, <2>1, <2>3, <2>4
    <2> QED BY <1>0, <1>3, <2>4, <2>5, <2>6 DEF a
  <1> QED BY <1>0, <1>4, <1>6, <1>7, <1>10, <1>11 DEF InOrder
\* free joins the block with the available ones beside it.
LEMMA FreeKeeps ==
  ASSUME NEW H, NEW s, Arena(heap, H, {}, s), InOrder(H, s, blocks),
         NEW b \in blocks, FreeBlock(b)
  PROVE  \E G : \E t : Arena(heap', G, {}, t) /\ InOrder(G, t, blocks')
  <1> DEFINE i == b.at - 1
             l == Left(heap, i)
             r == Right(heap, i)
             h1 == IF IsAvail(heap, l) THEN Unlink(heap, l) ELSE heap
             h2 == IF IsAvail(h1, r) THEN Unlink(h1, r) ELSE h1
             j == IF IsAvail(heap, l) THEN l ELSE i
             n == Size(heap, i) + (IF IsAvail(heap, l) THEN Size(heap, l) ELSE 0)
                                + (IF IsAvail(heap, r) THEN Size(heap, r) ELSE 0)
  <1>1. heap' = MakeAvail(h2, j, n) /\ blocks' = blocks \ {b}
    BY DEF FreeBlock, Merge
  <1>2. /\ H \subseteq Nat /\ H \subseteq 0..len /\ len \in Nat /\ len >= 8 /\ Tiling(H) /\ len \in H
    BY ArenaSeq
  <1>3. /\ len - 2 \in H
        /\ \A x \in H : x <= len - 2 \/ len <= x
        /\ len - 2 \notin Listed(s)
        /\ \A x \in Listed(s) : x \in H /\ x \in Nat /\ 2 <= x /\ x < len - 2
        /\ \A a, f \in H : Block(H, a, f) /\ a \in Listed(s) => f \notin Listed(s)
    BY InOrderFacts
  <1>4. /\ b \in [at : Index, bytes : Request] /\ i \in H /\ i \notin Listed(s)
        /\ b.at > 1 /\ i < len - 2
        /\ \A e \in H : Block(H, i, e) => b.at + (b.bytes + 7) \div 8 <= e - 1
    BY DEF InOrder
  <1>5. i \in Nat /\ i > 0 /\ i # len /\ b.at = i + 1
    <2>1. b.at \in Int
      BY <1>2, <1>4 DEF Index
    <2> QED BY <1>2, <1>4, <2>1
  <1>6. (b.bytes + 7) \div 8 >= 1 /\ (b.bytes + 7) \div 8 \in Nat
    <2>1. b.bytes \in Request
      BY <1>4
    <2> QED BY <2>1, EntriesFacts
  <1> HIDE DEF i
  <1>7. PICK a \in H : Block(H, a, i)
    BY <1>2, <1>4, <1>5, BlockTo
  <1>8. PICK e \in H : Block(H, i, e)
    <2>1. i < len
      BY <1>2, <1>4, <1>5
    <2> QED BY <1>2, <1>4, <2>1, BlockFrom
  <1>9. /\ a \in Nat /\ e \in Nat /\ a < i /\ i < e /\ e <= len - 2
    <2>1. a \in Nat /\ e \in Nat /\ a < i /\ i < e /\ (len - 2 <= i \/ e <= len - 2)
      BY <1>2, <1>3, <1>7, <1>8 DEF Block
    <2> QED BY <1>2, <1>4, <1>5, <2>1
  <1>10. PICK g \in H : Block(H, e, g)
    <2>1. e < len
      BY <1>2, <1>9
    <2> QED BY <1>2, <2>1, BlockFrom
  <1>11. g \in Nat /\ e < g
    BY <1>2, <1>10 DEF Block
  <1>12. /\ l = a /\ r = e
         /\ Size(heap, i) = e - i /\ Size(heap, l) = i - a /\ Size(heap, r) = g - e
         /\ IsAvail(heap, l) <=> a \in Listed(s)
         /\ IsAvail(heap, r) <=> e \in Listed(s)
    <2>1. Right(heap, i) = e /\ Size(heap, i) = e - i
      BY <1>4, <1>8, BlockFacts
    <2>2. Left(heap, i) = a /\ Size(heap, a) = i - a /\ (IsAvail(heap, a) <=> a \in Listed(s))
      BY <1>4, <1>7, BlockFacts
    <2>3. Size(heap, e) = g - e /\ (IsAvail(heap, e) <=> e \in Listed(s))
      BY <1>10, BlockFacts
    <2> QED BY <2>1, <2>2, <2>3
  <1>13. e - i >= 4
    <2>1. (e - i) % 2 = 0
      BY <1>4, <1>8, BlockFacts
    <2>2. i + 1 + (b.bytes + 7) \div 8 <= e - 1
      BY <1>4, <1>5, <1>8
    <2>3. e - i >= 3 /\ e - i \in Int
      BY <1>5, <1>6, <1>9, <2>2
    <2> DEFINE d == e - i
    <2> HIDE DEF d
    <2>4. d \in Int /\ d >= 3 /\ d % 2 = 0 => d >= 4
      OBVIOUS
    <2> QED BY <2>1, <2>3, <2>4 DEF d
  <1> HIDE DEF l, r, h1, h2, n, j
  <1>14. Arena(heap, H, {i}, s)
    <2>1. Arena(heap, H, {} \cup {i}, s)
      BY <1>4, DetachArena
    <2>2. {} \cup {i} = {i}
      OBVIOUS
    <2> QED BY <2>1, <2>2
  \* The neighbour on the left.
  <1>15. \E K, w : /\ Arena(h1, K, {j}, w) /\ Block(K, j, e) /\ K = {x \in H : x <= j \/ e <= x}
                   /\ Listed(w) = Listed(s) \ {j}
    <2>1. CASE a \in Listed(s)
      <3> DEFINE K == H \ {i}
      <3>1. PICK k \in 1..Len(s) : a = s[k]
        BY <2>1, <1>14, ArenaSeq
      <3> DEFINE w == Without(s, k)
      <3>2. h1 = Unlink(heap, a) /\ j = a
        BY <1>12, <2>1 DEF h1, j
      <3>3. Arena(h1, H, {i} \cup {a}, w)
        BY <1>14, <3>1, <3>2, UnlinkArena
      <3>4. Arena(h1, K, {i} \cup {a}, w) /\ Block(K, a, e)
        <4>1. a \in {i} \cup {a} /\ i \in {i} \cup {a}
          OBVIOUS
        <4> QED BY <1>4, <1>7, <1>8, <3>3, <4>1, JoinArena, Zenon
      <3>5. Arena(h1, K, {a}, w)
        <4>1. ({i} \cup {a}) \cap K = {a} \cap K
          OBVIOUS
        <4> QED BY <3>4, <4>1, CleanArena, Zenon
      <3>6. K = {x \in H : x <= a \/ e <= x}
        <4>1. ASSUME NEW x \in H PROVE x # i <=> x <= a \/ e <= x
          <5>1. (x <= a \/ i <= x) /\ (x <= i \/ e <= x) /\ x \in Nat
            BY <1>2, <1>7, <1>8 DEF Block
          <5> QED BY <1>5, <1>9, <5>1
        <4> QED BY <4>1
      <3>7. Listed(w) = Listed(s) \ {a}
        <4>1. /\ s \in Seq(H) /\ \A x, y \in 1..Len(s) : s[x] = s[y] => x = y
          BY <1>14, ArenaSeq
        <4>2. IsWithout(w, s, k, H)
          BY <3>1, <4>1, WithoutFacts
        <4> QED BY <3>1, <4>2 DEF IsWithout
      <3> HIDE DEF K, w
      <3> QED BY <3>2, <3>4, <3>5, <3>6, <3>7
    <2>2. CASE a \notin Listed(s)
      <3>1. h1 = heap /\ j = i
        BY <1>12, <2>2 DEF h1, j
      <3>2. H = {x \in H : x <= i \/ e <= x}
        BY <1>8 DEF Block
      <3>3. Listed(s) = Listed(s) \ {i}
        BY <1>4
      <3> QED BY <1>8, <1>14, <3>1, <3>2, <3>3
    <2> QED BY <2>1, <2>2
  <1>16. PICK K, w : /\ Arena(h1, K, {j}, w) /\ Block(K, j, e) /\ K = {x \in H : x <= j \/ e <= x}
                     /\ Listed(w) = Listed(s) \ {j}
    BY <1>15
  <1>17. /\ j \in H /\ j \in Nat /\ j <= i /\ j > 0
         /\ n = (e - j) + (IF e \in Listed(s) THEN g - e ELSE 0)
         /\ \A x \in H : j <= x /\ x < e => x = i \/ x \in Listed(s)
         /\ \A p \in H : Block(H, p, j) => p \notin Listed(s)
    <2>1. CASE a \in Listed(s)
      <3>1. j = a /\ n = (e - i) + (i - a) + (IF e \in Listed(s) THEN g - e ELSE 0)
        BY <1>12, <2>1 DEF j, n
      <3>2. a > 0
        BY <1>3, <2>1
      <3>3. ASSUME NEW x \in H, a <= x, x < e PROVE x = i \/ x = a
        <4>1. (x <= a \/ i <= x) /\ (x <= i \/ e <= x) /\ x \in Nat
          BY <1>2, <1>7, <1>8 DEF Block
        <4> QED BY <1>5, <1>9, <3>3, <4>1
      <3>4. \A p \in H : Block(H, p, a) => p \notin Listed(s)
        BY <1>3, <2>1
      <3>5. n = (e - a) + (IF e \in Listed(s) THEN g - e ELSE 0)
        <4>1. (e - i) + (i - a) = e - a
          BY <1>5, <1>9
        <4> QED BY <3>1, <4>1
      <3>6. \A x \in H : a <= x /\ x < e => x = i \/ x \in Listed(s)
        BY <2>1, <3>3
      <3>7. a <= i
        BY <1>5, <1>9
      <3> QED BY <1>7, <1>9, <3>1, <3>2, <3>4, <3>5, <3>6, <3>7
    <2>2. CASE a \notin Listed(s)
      <3>1. j = i /\ n = (e - i) + 0 + (IF e \in Listed(s) THEN g - e ELSE 0)
        BY <1>12, <2>2 DEF j, n
      <3>2. (e - i) + 0 = e - i
        BY <1>5, <1>9
      <3>3. ASSUME NEW x \in H, i <= x, x < e PROVE x = i
        <4>1. (x <= i \/ e <= x) /\ x \in Nat
          BY <1>2, <1>8 DEF Block
        <4> QED BY <1>5, <1>9, <3>3, <4>1
      <3>4. \A p \in H : Block(H, p, i) => p = a
        <4>1. H \subseteq Int
          BY <1>2
        <4> QED BY <1>4, <1>7, <4>1, OneBlock
      <3>5. i <= i
        BY <1>5
      <3> QED BY <1>4, <1>5, <2>2, <3>1, <3>2, <3>3, <3>4, <3>5
    <2> QED BY <2>1, <2>2
  <1>18. e \in K /\ g \in K /\ j \in K /\ Block(K, e, g) /\ e # j
    <2>1. e \in K /\ g \in K /\ j \in K /\ e # j
      BY <1>5, <1>9, <1>11, <1>16, <1>17
    <2> QED BY <1>10, <1>16, <2>1 DEF Block
  <1>19. IsAvail(h1, e) <=> e \in Listed(s)
    <2>1. IsAvail(h1, e) <=> e \in Listed(w)
      <3>1. e \notin {j}
        BY <1>18
      <3> QED BY <1>16, <1>18, <3>1, BlockFacts
    <2> QED BY <1>16, <1>18, <2>1
  \* The neighbour on the right.
  <1>20. \E z \in H : \E G, v :
            /\ Arena(h2, G, {j}, v) /\ Block(G, j, z) /\ G = {x \in H : x <= j \/ z <= x}
            /\ Listed(v) = {x \in Listed(s) : x < j \/ z <= x}
            /\ n = z - j /\ e <= z /\ z <= len - 2 /\ z \notin Listed(s)
            /\ \A x \in H : j <= x /\ x < z => x = i \/ x \in Listed(s)
    <2>1. \A x \in Listed(s) : x \in H /\ x \in Nat
      BY <1>3
    <2>2. CASE e \in Listed(s)
      <3> DEFINE G == K \ {e}
      <3>1. e \in Listed(w)
        BY <1>16, <1>18, <2>2
      <3>2. PICK k \in 1..Len(w) : e = w[k]
        BY <1>16, <3>1, ArenaSeq
      <3> DEFINE v == Without(w, k)
      <3>3. h2 = Unlink(h1, e)
        BY <1>12, <1>19, <2>2 DEF h2
      <3>4. Arena(h2, K, {j} \cup {e}, v)
        BY <1>16, <3>2, <3>3, UnlinkArena
      <3>5. Arena(h2, G, {j} \cup {e}, v) /\ Block(G, j, g)
        <4>1. j \in {j} \cup {e} /\ e \in {j} \cup {e}
          OBVIOUS
        <4> QED BY <1>16, <1>18, <3>4, <4>1, JoinArena, Zenon
      <3>6. Arena(h2, G, {j}, v)
        <4>1. ({j} \cup {e}) \cap G = {j} \cap G
          OBVIOUS
        <4> QED BY <3>5, <4>1, CleanArena, Zenon
      <3>7. ASSUME NEW x \in H
            PROVE  /\ (x <= j \/ e <= x) /\ x # e <=> x <= j \/ g <= x
                   /\ e <= x /\ x < g => x = e
        <4>1. (x <= e \/ g <= x) /\ x \in Nat
          BY <1>2, <1>10 DEF Block
        <4> QED BY <1>5, <1>9, <1>11, <1>17, <4>1
      <3>8. G = {x \in H : x <= j \/ g <= x}
        BY <1>16, <3>7
      <3>9. Listed(v) = Listed(w) \ {e}
        <4>1. /\ w \in Seq(K) /\ \A x, y \in 1..Len(w) : w[x] = w[y] => x = y
          BY <1>16, ArenaSeq
        <4>2. IsWithout(v, w, k, K)
          BY <3>2, <4>1, WithoutFacts
        <4> QED BY <3>2, <4>2 DEF IsWithout
      <3>10. Listed(v) = {x \in Listed(s) : x < j \/ g <= x}
        <4>1. ASSUME NEW x \in Listed(v) PROVE x \in Listed(s) /\ (x < j \/ g <= x)
          <5>1. x \in G /\ x \in Listed(s) /\ x # j
            BY <1>16, <3>6, <3>9, <4>1, ListedFacts
          <5>2. x \in Nat /\ (x <= j \/ g <= x)
            BY <2>1, <3>8, <5>1
          <5> QED BY <1>17, <5>1, <5>2
        <4>2. ASSUME NEW x \in Listed(s), x < j \/ g <= x PROVE x \in Listed(v)
          <5>1. x # j /\ x # e
            BY <1>9, <1>11, <1>17, <2>1, <4>2, <1>5
          <5> QED BY <1>16, <3>9, <5>1
        <4> QED BY <4>1, <4>2
      <3>11. n = g - j /\ e <= g
        BY <1>9, <1>11, <1>17, <2>2
      <3>12. g <= len - 2 /\ g \notin Listed(s)
        <4>1. g \notin Listed(s) /\ e < len - 2
          BY <1>3, <1>10, <2>2
        <4>2. len - 2 <= e \/ g <= len - 2
          BY <1>3, <1>10 DEF Block
        <4> QED BY <1>2, <1>9, <4>1, <4>2
      <3>13. \A x \in H : j <= x /\ x < g => x = i \/ x \in Listed(s)
        <4> SUFFICES ASSUME NEW x \in H, j <= x, x < g PROVE x = i \/ x \in Listed(s)
          OBVIOUS
        <4>1. x \in Nat /\ (x < e \/ e <= x)
          BY <1>2, <1>9
        <4> QED BY <1>17, <2>2, <3>7, <4>1
      <3> HIDE DEF G, v
      <3> QED BY <3>5, <3>6, <3>8, <3>10, <3>11, <3>12, <3>13
    <2>3. CASE e \notin Listed(s)
      <3>1. h2 = h1 /\ n = e - j
        BY <1>9, <1>12, <1>17, <1>19, <2>3 DEF h2
      <3>2. Listed(w) = {x \in Listed(s) : x < j \/ e <= x}
        <4>1. ASSUME NEW x \in Listed(w) PROVE x \in Listed(s) /\ (x < j \/ e <= x)
          <5>1. x \in K /\ x \in Listed(s) /\ x # j
            BY <1>16, <4>1, ListedFacts
          <5>2. x \in Nat /\ (x <= j \/ e <= x)
            BY <1>16, <2>1, <5>1
          <5> QED BY <1>17, <5>1, <5>2
        <4>2. ASSUME NEW x \in Listed(s), x < j \/ e <= x PROVE x \in Listed(w)
          <5>1. x # j
            BY <1>9, <1>17, <2>1, <4>2, <1>5
          <5> QED BY <1>16, <5>1
        <4> QED BY <4>1, <4>2
      <3>3. e <= e
        BY <1>9
      <3> QED BY <1>9, <1>16, <1>17, <2>3, <3>1, <3>2, <3>3
    <2> QED BY <2>2, <2>3
  <1>21. PICK z \in H : \E G, v :
            /\ Arena(h2, G, {j}, v) /\ Block(G, j, z) /\ G = {x \in H : x <= j \/ z <= x}
            /\ Listed(v) = {x \in Listed(s) : x < j \/ z <= x}
            /\ n = z - j /\ e <= z /\ z <= len - 2 /\ z \notin Listed(s)
            /\ \A x \in H : j <= x /\ x < z => x = i \/ x \in Listed(s)
    BY <1>20
  <1>22. PICK G, v :
            /\ Arena(h2, G, {j}, v) /\ Block(G, j, z) /\ G = {x \in H : x <= j \/ z <= x}
            /\ Listed(v) = {x \in Listed(s) : x < j \/ z <= x}
            /\ n = z - j /\ e <= z /\ z <= len - 2 /\ z \notin Listed(s)
            /\ \A x \in H : j <= x /\ x < z => x = i \/ x \in Listed(s)
    BY <1>21
  <1> DEFINE t == With(j, v)
  <1>23. z \in Nat /\ i < z /\ z - j >= 4
    <2>1. z \in Nat
      BY <1>2
    <2> QED BY <1>5, <1>9, <1>13, <1>17, <1>22, <2>1
  <1>24. Arena(heap', G, {}, t)
    <2>1. j \in G /\ z \in G /\ j \in {j} /\ {j} \ {j} = {}
      BY <1>22 DEF Block
    <2>2. Arena(MakeAvail(h2, j, z - j), G, {j} \ {j}, t)
      BY <1>17, <1>22, <1>23, <2>1, AvailArena, Zenon
    <2> QED BY <1>1, <1>22, <2>1, <2>2
  <1>25. Listed(t) = {x \in Listed(s) : x < j \/ z <= x} \cup {j}
    <2>1. /\ v \in Seq(G) /\ \A x, y \in 1..Len(v) : v[x] = v[y] => x = y
      BY <1>22, ArenaSeq
    <2>2. j \notin Listed(v)
      BY <1>5, <1>17, <1>22, <1>23
    <2>3. IsWith(t, v, j, G)
      BY <2>1, <2>2, WithFacts
    <2> QED BY <1>22, <2>3 DEF IsWith
  <1> HIDE DEF t
  <1>26. InOrder(G, t, blocks \ {b})
    <2>1. i = b.at - 1
      BY DEF i
    <2>2. Joins(H, s, i, j, z)
      BY <1>17, <1>22, <1>23 DEF Joins
    <2>3. G = Joined(H, j, z)
      BY <1>22 DEF Joined
    <2>4. Listed(t) = Apart(s, j, z) \cup {j}
      BY <1>25 DEF Apart
    <2> QED BY <2>1, <2>2, <2>3, <2>4, MergeOrder
  <1> QED BY <1>1, <1>24, <1>26
-----------------------------------------------------------------------------
(* The theorems.                                                           *)

\* The heap is in order always: the headers cut the arena into blocks, the list holds
\* the available ones, no two of them side by side, and what malloc has returned lies in
\* taken blocks, each in its own (heap.cc: init, malloc, free, sanity).
THEOREM HeapInvariant == HeapSpec => []HeapInv
  <1>1. HeapInit => HeapInv
    BY DEF HeapInit, HeapInv
  <1>2. ASSUME HeapInv, [HeapNext]_heapVars
        PROVE  HeapInv'
    <2>1. CASE SetUp
      BY <1>2, <2>1, SetUpKeeps
    <2>2. ASSUME NEW n \in Request, Malloc(n)
          PROVE  HeapInv'
      <3>1. heap # NoHeap
        BY <2>2 DEF Malloc
      <3>2. PICK H, s : Arena(heap, H, {}, s) /\ InOrder(H, s, blocks)
        BY <1>2, <3>1 DEF HeapInv
      <3>3. PICK G, z : Arena(heap', G, {}, z) /\ InOrder(G, z, blocks')
        BY <2>2, <3>2, MallocKeeps
      <3>4. z \in Seq(G)
        BY <3>3, ArenaSeq
      <3> QED BY <3>3, <3>4 DEF HeapInv
    <2>3. ASSUME NEW b \in blocks, FreeBlock(b)
          PROVE  HeapInv'
      <3>1. PICK H, s : Arena(heap, H, {}, s) /\ InOrder(H, s, blocks)
        BY <1>2 DEF HeapInv
      <3>2. PICK G, t : Arena(heap', G, {}, t) /\ InOrder(G, t, blocks')
        BY <2>3, <3>1, FreeKeeps
      <3>3. t \in Seq(G)
        BY <3>2, ArenaSeq
      <3> QED BY <3>2, <3>3 DEF HeapInv
    <2>4. CASE UNCHANGED heapVars
      BY <1>2, <2>4 DEF HeapInv, heapVars
    <2> QED BY <1>2, <2>1, <2>2, <2>3, <2>4 DEF HeapNext
  <1> QED BY <1>1, <1>2, PTL DEF HeapSpec

\* Header and footer agree everywhere, no two available blocks lie side by side, and the
\* list holds every available block once and is linked in both directions, whatever
\* malloc splits and free joins (heap.cc: malloc, free, sanity).
THEOREM HeapStaysWellFormed == HeapSpec => []HeapWellFormed
  <1>1. HeapInv => HeapWellFormed
    BY InvWellFormed
  <1> QED BY <1>1, HeapInvariant, PTL

\* malloc fails only if no run of free words is long enough (heap.cc: the search of
\* malloc and the joining in free).
THEOREM HeapServesWhatFits == HeapSpec => []FailsOnlyWhenFull
  <1>1. HeapInv => FailsOnlyWhenFull
    BY InvFull
  <1> QED BY <1>1, HeapInvariant, PTL

\* The words of what malloc has returned lie in the arena and in no two blocks.
LEMMA WordsApart ==
  ASSUME NEW h, NEW H, NEW s, NEW bs, Arena(h, H, {}, s), InOrder(H, s, bs)
  PROVE  /\ \A b \in bs : Abstract!Words(b) \subseteq Index /\ b.at \in Index /\ b.bytes \in Request
                          /\ b = [at |-> b.at, bytes |-> b.bytes]
         /\ \A b, c \in bs : b # c => Abstract!Words(b) \cap Abstract!Words(c) = {}
  <1>1. H \subseteq Nat /\ H \subseteq 0..len /\ len \in Nat /\ Tiling(H)
    BY ArenaSeq
  <1>2. ASSUME NEW b \in bs
        PROVE  \E e \in H :
                 /\ Block(H, b.at - 1, e) /\ b.at \in Nat /\ b.at >= 1
                 /\ \A w \in Abstract!Words(b) : w \in Nat /\ b.at - 1 < w /\ w < e
                 /\ b \in [at : Index, bytes : Request]
    <2>1. /\ b \in [at : Index, bytes : Request]
          /\ b.at - 1 \in H /\ b.at > 1 /\ b.at - 1 < len - 2
          /\ \A e \in H : Block(H, b.at - 1, e) => b.at + (b.bytes + 7) \div 8 <= e - 1
      BY DEF InOrder
    <2>2. b.at \in Nat /\ b.at >= 1
      BY <1>1, <2>1 DEF Index
    <2>3. PICK e \in H : Block(H, b.at - 1, e)
      <3>1. b.at - 1 < len
        BY <1>1, <2>1, <2>2
      <3> QED BY <1>1, <2>1, <3>1, BlockFrom
    <2>4. (b.bytes + 7) \div 8 \in Nat
      <3>1. b.bytes \in Request
        BY <2>1
      <3> QED BY <3>1, EntriesFacts
    <2>5. ASSUME NEW w \in Abstract!Words(b)
          PROVE  w \in Nat /\ b.at - 1 < w /\ w < e
      <3>1. w \in b.at .. b.at + (b.bytes + 7) \div 8 - 1
        BY DEF Abstract!Words
      <3>2. b.at + (b.bytes + 7) \div 8 <= e - 1 /\ e \in Nat
        BY <1>1, <2>1, <2>3
      <3> QED BY <2>2, <2>4, <3>1, <3>2
    <2> QED BY <2>1, <2>2, <2>3, <2>5
  <1>3. ASSUME NEW b \in bs
        PROVE  /\ Abstract!Words(b) \subseteq Index /\ b.at \in Index /\ b.bytes \in Request
               /\ b = [at |-> b.at, bytes |-> b.bytes]
    <2>1. PICK e \in H :
             /\ \A w \in Abstract!Words(b) : w \in Nat /\ b.at - 1 < w /\ w < e
             /\ b \in [at : Index, bytes : Request]
      BY <1>2
    <2>2. e <= len /\ e \in Nat
      BY <1>1
    <2>3. Abstract!Words(b) \subseteq Index
      <3> SUFFICES ASSUME NEW w \in Abstract!Words(b) PROVE w \in Index
        OBVIOUS
      <3>1. w \in Nat /\ w < e
        BY <2>1
      <3> QED BY <1>1, <2>2, <3>1 DEF Index
    <2> QED BY <2>1, <2>3
  <1>4. ASSUME NEW b \in bs, NEW c \in bs, b # c, NEW w, w \in Abstract!Words(b),
               w \in Abstract!Words(c)
        PROVE  FALSE
    <2>1. PICK e \in H : Block(H, b.at - 1, e) /\ b.at \in Nat /\ w \in Nat /\ b.at - 1 < w /\ w < e
      BY <1>2, <1>4
    <2>2. PICK f \in H : Block(H, c.at - 1, f) /\ c.at \in Nat /\ w \in Nat /\ c.at - 1 < w /\ w < f
      BY <1>2, <1>4
    <2>3. /\ e \in Nat /\ f \in Nat
          /\ b.at - 1 <= c.at - 1 \/ f <= b.at - 1
          /\ c.at - 1 <= b.at - 1 \/ e <= c.at - 1
      BY <1>1, <2>1, <2>2 DEF Block
    <2>4. b.at = c.at
      BY <2>1, <2>2, <2>3
    <2>5. b = c
      BY <2>4 DEF InOrder
    <2> QED BY <1>4, <2>5
  <1> QED BY <1>3, <1>4

\* malloc hands out words that nobody has, and only free takes them back (heap.cc:
\* malloc, free).
THEOREM HeapImplements == HeapSpec => ImplementsAllocator
  <1>1. HeapInit => Abstract!AllocatorInit
    BY DEF HeapInit, Abstract!AllocatorInit
  <1>2. ASSUME HeapInv, HeapInv', [HeapNext]_heapVars
        PROVE  [Abstract!AllocatorNext]_blocks
    <2>1. CASE SetUp
      BY <2>1 DEF SetUp
    <2>2. ASSUME NEW n \in Request, Malloc(n)
          PROVE  Abstract!AllocatorNext
      <3> DEFINE b == [at |-> BestFit(heap, Entries(n)) + 1, bytes |-> n]
      <3>1. heap # NoHeap /\ BestFit(heap, Entries(n)) # 0 /\ blocks' = blocks \cup {b}
        BY <2>2 DEF Malloc
      <3>2. PICK H, s : Arena(heap, H, {}, s) /\ InOrder(H, s, blocks)
        BY <1>2, <3>1 DEF HeapInv
      <3>3. b \notin blocks
        <4>1. PICK k \in 1..Len(s) : BestFit(heap, Entries(n)) = s[k]
          BY <3>1, <3>2, SettlesOn
        <4>2. s[k] \in Listed(s) /\ s[k] \in Nat
          BY <3>2, ArenaSeq, ListedFacts
        <4>3. b.at - 1 \in Listed(s)
          BY <4>1, <4>2
        <4> HIDE DEF b
        <4> QED BY <3>2, <4>3 DEF InOrder
      <3> HIDE DEF b
      <3>4. PICK G, z : Arena(heap', G, {}, z) /\ InOrder(G, z, blocks')
        BY <1>2, <3>1 DEF HeapInv
      <3>5. /\ Abstract!Words(b) \subseteq Index /\ b.at \in Index /\ b.bytes \in Request
            /\ b = [at |-> b.at, bytes |-> b.bytes]
            /\ \A c \in blocks : Abstract!Words(b) \cap Abstract!Words(c) = {}
        <4>1. b \in blocks' /\ \A c \in blocks : c \in blocks' /\ b # c
          BY <3>1, <3>3
        <4>2. /\ \A c \in blocks' : Abstract!Words(c) \subseteq Index /\ c.at \in Index
                                    /\ c.bytes \in Request /\ c = [at |-> c.at, bytes |-> c.bytes]
              /\ \A c, d \in blocks' : c # d => Abstract!Words(c) \cap Abstract!Words(d) = {}
          BY <3>4, WordsApart, Zenon
        <4> QED BY <4>1, <4>2
      <3>6. Abstract!Allocate(b)
        BY <3>1, <3>5 DEF Abstract!Allocate
      <3>7. Abstract!Allocate([at |-> b.at, bytes |-> b.bytes])
        BY <3>5, <3>6
      <3> QED BY <3>5, <3>7 DEF Abstract!AllocatorNext
    <2>3. ASSUME NEW b \in blocks, FreeBlock(b)
          PROVE  Abstract!AllocatorNext
      BY <2>3 DEF FreeBlock, Abstract!AllocatorNext, Abstract!Release
    <2>4. CASE UNCHANGED heapVars
      BY <2>4 DEF heapVars
    <2> QED BY <1>2, <2>1, <2>2, <2>3, <2>4 DEF HeapNext
  <1> QED BY <1>1, <1>2, HeapInvariant, PTL
          DEF HeapSpec, ImplementsAllocator, Abstract!AllocatorSpec

-----------------------------------------------------------------------------
\* n bytes of F from an offset on.
Slice(F, at, n) == [i \in 1..n |-> F[at + i - 1]]

\* The bytes of F from lo to before hi are numbers.
IsBytes(F, lo, hi) == \A x \in Nat : lo <= x /\ x < hi => F[x] \in Int

\* The slice of c bytes and that of the n behind them make up that of n + c.
SlicesJoin(F, at, c, n) == Slice(F, at, c) \o Slice(F, at + c, n) = Slice(F, at, n + c)

\* The blocks that read_block delivers are the bytes F of a device of that size.
Delivers(size, bs, block, F) ==
  \A b \in Nat : b * bs < size =>
    /\ block[b] \in Seq(Int) /\ Len(block[b]) = bs
    /\ \A i \in 1..bs : b * bs + i - 1 < size => block[b][i] = F[b * bs + i - 1]

\* Min is the least of a set of numbers.
LEMMA MinLeast ==
  ASSUME NEW T, T \subseteq Nat, T # {}
  PROVE  Min(T) \in T /\ \A x \in T : Min(T) <= x
  BY LeastNumber DEF Min

\* Quotient and remainder.
LEMMA DivMod ==
  ASSUME NEW a \in Nat, NEW d \in Nat, d > 0
  PROVE  /\ a \div d \in Nat /\ a % d \in Nat /\ a % d < d
         /\ a = (a \div d) * d + (a % d)
  <1>1. PICK q \in Int : q = a \div d
    OBVIOUS
  <1>2. PICK r \in Int : r = a % d
    OBVIOUS
  <1>3. a = d * q + r /\ 0 <= r /\ r < d
    BY <1>1, <1>2
  <1>4. q >= 0
    BY <1>3
  <1>5. d * q = q * d
    OBVIOUS
  <1>6. q \in Nat /\ r \in Nat /\ r < d /\ a = q * d + r
    BY <1>3, <1>4, <1>5
  <1>7. a \div d \in Nat
    BY <1>1, <1>6
  <1>8. a % d \in Nat /\ a % d < d
    BY <1>2, <1>6
  <1>9. a = (a \div d) * d + (a % d)
    <2>1. \A x, y : x = q /\ y = r => a = x * d + y
      BY <1>6
    <2> QED BY <1>1, <1>2, <2>1, Zenon
  <1> QED BY <1>7, <1>8, <1>9

\* They are the only ones.
LEMMA DivModUnique ==
  ASSUME NEW q \in Nat, NEW d \in Nat, NEW r \in Nat, r < d
  PROVE  (q * d + r) \div d = q /\ (q * d + r) % d = r
  <1>1. PICK a \in Nat : a = q * d + r
    <2>1. q * d \in Nat
      OBVIOUS
    <2> QED BY <2>1
  <1>2. PICK p \in Nat : p = a \div d /\ a % d \in Nat /\ a % d < d /\ a = p * d + (a % d)
    BY DivMod
  <1>3. p * d \in Nat /\ q * d \in Nat
    BY <1>2
  <1>4. ~(p < q)
    <2> SUFFICES ASSUME p < q PROVE FALSE
      OBVIOUS
    <2>1. (q - p - 1) * d >= 0
      OBVIOUS
    <2>2. q * d >= p * d + d
      BY <2>1
    <2> QED BY <1>1, <1>2, <1>3, <2>2
  <1>5. ~(q < p)
    <2> SUFFICES ASSUME q < p PROVE FALSE
      OBVIOUS
    <2>1. (p - q - 1) * d >= 0
      OBVIOUS
    <2>2. p * d >= q * d + d
      BY <2>1
    <2> QED BY <1>1, <1>2, <1>3, <2>2
  <1>6. p = q
    BY <1>4, <1>5
  <1> QED BY <1>1, <1>2, <1>3, <1>6

\* A multiple is the quotient times the divisor.
LEMMA Exactly ==
  ASSUME NEW a \in Nat, NEW d \in Nat, d > 0, a % d = 0
  PROVE  a \div d \in Nat /\ a = (a \div d) * d
  <1>1. a = (a \div d) * d + (a % d) /\ a \div d \in Nat
    BY DivMod
  <1>2. (a \div d) * d \in Nat
    BY <1>1
  <1> QED BY <1>1, <1>2

-----------------------------------------------------------------------------
\* One read delivers at least a byte and none beyond the request.
LEMMA ReadSome ==
  ASSUME NEW size \in Nat, NEW bs \in Nat, bs > 0, NEW block, NEW F,
         Delivers(size, bs, block, F),
         NEW offset \in Nat, offset < size, NEW n \in Nat, n > 0
  PROVE  \E c \in 1..n : offset + c <= size /\ Read(size, bs, block, offset, n) = Slice(F, offset, c)
  <1> DEFINE b == offset \div bs
             o == offset % bs
             c == Count(size, bs, offset, n)
  <1>1. b \in Nat /\ o \in Nat /\ o < bs /\ offset = b * bs + o /\ b * bs \in Nat
    BY DivMod
  <1> HIDE DEF b, o
  <1>2. /\ c \in {bs - o, n, size - offset}
        /\ c <= bs - o /\ c <= n /\ c <= size - offset
    <2>1. {bs - o, n, size - offset} \subseteq Nat
      BY <1>1
    <2>2. c = Min({bs - o, n, size - offset})
      BY DEF Count, o
    <2>3. c \in {bs - o, n, size - offset} /\ \A x \in {bs - o, n, size - offset} : c <= x
      BY <2>1, <2>2, MinLeast
    <2> QED BY <2>3
  <1> HIDE DEF c
  <1>3. c \in 1..n /\ offset + c <= size
    BY <1>1, <1>2
  <1>4. /\ block[b] \in Seq(Int) /\ Len(block[b]) = bs
        /\ \A i \in 1..bs : b * bs + i - 1 < size => block[b][i] = F[b * bs + i - 1]
    <2>1. b * bs < size
      BY <1>1
    <2> QED BY <1>1, <2>1 DEF Delivers
  <1>5. Read(size, bs, block, offset, n) = SubSeq(block[b], o + 1, o + c)
    BY DEF Read, b, o, c
  <1>6. o + 1 \in 1..(Len(block[b]) + 1) /\ o + c \in ((o + 1) - 1)..Len(block[b])
    BY <1>1, <1>2, <1>3, <1>4
  <1>7. SubSeq(block[b], o + 1, o + c) = [i \in 1..c |-> block[b][o + i]]
    <2> DEFINE s == SubSeq(block[b], o + 1, o + c)
    <2>1. /\ o + 1 \in Int /\ o + c \in Int /\ o + 1 <= o + c
          /\ (o + c) - (o + 1) + 1 = c
          /\ \A i \in 1..c : o + 1 + i - 1 = o + i
      BY <1>1, <1>3
    <2>2. \A i \in (o + 1)..(o + c) : block[b][i] \in Int
      BY <1>1, <1>3, <1>4, <1>6
    <2>3. /\ s \in Seq(Int) /\ Len(s) = c
          /\ \A i \in 1..c : s[i] = block[b][o + i]
      <3>1. /\ s \in Seq(Int)
            /\ Len(s) = IF o + 1 <= o + c THEN (o + c) - (o + 1) + 1 ELSE 0
            /\ \A i \in 1..((o + c) - (o + 1) + 1) : s[i] = block[b][(o + 1) + i - 1]
        BY <2>1, <2>2, SubSeqProperties
      <3> QED BY <2>1, <3>1
    <2> HIDE DEF s
    <2>4. DOMAIN s = 1..c /\ s = [i \in DOMAIN s |-> s[i]]
      BY <2>3
    <2> QED BY <2>3, <2>4 DEF s
  <1>8. ASSUME NEW i \in 1..c PROVE block[b][o + i] = F[offset + i - 1]
    <2>1. o + i \in 1..bs /\ b * bs + (o + i) - 1 < size /\ b * bs + (o + i) - 1 = offset + i - 1
      BY <1>1, <1>2, <1>3
    <2> QED BY <1>4, <2>1
  <1>9. Read(size, bs, block, offset, n) = Slice(F, offset, c)
    BY <1>5, <1>7, <1>8 DEF Slice
  <1> QED BY <1>3, <1>9

\* A slice is the slice of its first bytes and that of the others.
LEMMA SliceJoins ==
  ASSUME NEW F, NEW at \in Nat, NEW c \in Nat, NEW n \in Nat,
         IsBytes(F, at, at + (n + c))
  PROVE  SlicesJoin(F, at, c, n)
  <1> DEFINE s == Slice(F, at, c)
             r == Slice(F, at + c, n)
             u == Slice(F, at, n + c)
  <1>0. \A x \in Nat : at <= x /\ x < at + (n + c) => F[x] \in Int
    BY DEF IsBytes
  <1>1. s \in Seq(Int) /\ Len(s) = c /\ \A i \in 1..c : s[i] = F[at + i - 1]
    BY <1>0 DEF Slice
  <1>2. r \in Seq(Int) /\ Len(r) = n /\ \A i \in 1..n : r[i] = F[at + c + i - 1]
    BY <1>0 DEF Slice
  <1>3. u \in Seq(Int) /\ Len(u) = n + c /\ \A i \in 1..(n + c) : u[i] = F[at + i - 1]
    BY <1>0 DEF Slice
  <1> HIDE DEF s, r, u
  <1>4. /\ s \o r \in Seq(Int) /\ Len(s \o r) = c + n
        /\ \A i \in 1..(c + n) : (s \o r)[i] = IF i <= c THEN s[i] ELSE r[i - c]
    BY <1>1, <1>2, ConcatProperties, ZenonT(40)
  <1>5. ASSUME NEW i \in 1..(c + n) PROVE (s \o r)[i] = u[i]
    <2>1. u[i] = F[at + i - 1]
      BY <1>3
    <2>2. CASE i <= c
      BY <1>1, <1>4, <2>1, <2>2
    <2>3. CASE ~(i <= c)
      <3>1. i - c \in 1..n /\ at + c + (i - c) - 1 = at + i - 1
        BY <2>3
      <3> QED BY <1>2, <1>4, <2>1, <2>3, <3>1
    <2> QED BY <2>2, <2>3
  <1>6. s \o r = u
    <2>1. Len(s \o r) = Len(u)
      BY <1>3, <1>4
    <2> QED BY <1>3, <1>4, <1>5, <2>1, SeqEqual
  <1> QED BY <1>6 DEF s, r, u, SlicesJoin

\* The equation that defines all in ReadAll.
AllStep(g, size, bs, block, offset, n) ==
  [m \in 0..n |->
     LET some == Read(size, bs, block, offset + n - m, m)
     IN  IF m = 0 \/ offset + n - m >= size THEN <<>> ELSE some \o g[m - Len(some)]]

\* ReadAll solves it if anything does.
LEMMA ReadAllSolves ==
  ASSUME NEW size, NEW bs, NEW block, NEW offset, NEW n, NEW g,
         g = AllStep(g, size, bs, block, offset, n)
  PROVE  \E w : /\ w = AllStep(w, size, bs, block, offset, n)
                /\ ReadAll(size, bs, block, offset, n) = w[n]
  BY DEF ReadAll, AllStep

\* What one step of the recursion makes of a function that is right for fewer bytes.
LEMMA AllStepRight ==
  ASSUME NEW size \in Nat, NEW bs \in Nat, bs > 0, NEW block, NEW F,
         Delivers(size, bs, block, F), IsBytes(F, 0, size),
         NEW offset \in Nat, NEW n \in Nat, offset + n <= size, NEW g, NEW m \in 0..n,
         \A i \in 0..(m - 1) : g[i] = Slice(F, offset + n - i, i)
  PROVE  AllStep(g, size, bs, block, offset, n)[m] = Slice(F, offset + n - m, m)
  <1> DEFINE at == offset + n - m
             some == Read(size, bs, block, at, m)
  <1>1. at \in Nat /\ at + m <= size
    OBVIOUS
  <1>2. AllStep(g, size, bs, block, offset, n)[m] =
          IF m = 0 \/ at >= size THEN <<>> ELSE some \o g[m - Len(some)]
    BY DEF AllStep
  <1>3. CASE m = 0
    <2>1. Slice(F, at, m) = <<>>
      BY <1>3 DEF Slice
    <2> QED BY <1>2, <1>3, <2>1
  <1>4. CASE m # 0
    <2>1. m \in Nat /\ m > 0 /\ at < size
      BY <1>1, <1>4
    <2> HIDE DEF at
    <2>2. PICK c \in 1..m : at + c <= size /\ some = Slice(F, at, c)
      BY <1>1, <2>1, ReadSome
    <2>3. Len(some) = c
      BY <2>2 DEF Slice
    <2>4. m - c \in 0..(m - 1) /\ at + c = offset + n - (m - c)
      BY <2>1, <2>2 DEF at
    <2>5. g[m - c] = Slice(F, at + c, m - c)
      BY <2>4
    <2>6. Slice(F, at, c) \o Slice(F, at + c, m - c) = Slice(F, at, m)
      <3>1. c \in Nat /\ m - c \in Nat /\ (m - c) + c = m
        BY <2>1, <2>2
      <3>2. IsBytes(F, at, at + ((m - c) + c))
        BY <1>1, <2>1, <2>2 DEF IsBytes
      <3>3. SlicesJoin(F, at, c, m - c)
        BY <1>1, <3>1, <3>2, SliceJoins
      <3> QED BY <3>1, <3>3 DEF SlicesJoin
    <2>7. AllStep(g, size, bs, block, offset, n)[m] = some \o g[m - c]
      <3>1. ~(m = 0 \/ at >= size)
        BY <1>1, <1>4, <2>1
      <3> HIDE DEF some
      <3> QED BY <1>2, <2>3, <3>1, Zenon
    <2> QED BY <2>2, <2>5, <2>6, <2>7 DEF at
  <1> QED BY <1>3, <1>4

\* read_all delivers the bytes from the offset on, however they lie to the blocks.
LEMMA ReadAllRight ==
  ASSUME NEW size \in Nat, NEW bs \in Nat, bs > 0, NEW block, NEW F,
         Delivers(size, bs, block, F), IsBytes(F, 0, size),
         NEW offset \in Nat, NEW n \in Nat, offset + n <= size
  PROVE  ReadAll(size, bs, block, offset, n) = Slice(F, offset, n)
  <1> DEFINE g == [m \in 0..n |-> Slice(F, offset + n - m, m)]
  <1>1. ASSUME NEW m \in 0..n
        PROVE  AllStep(g, size, bs, block, offset, n)[m] = g[m]
    <2>1. \A i \in 0..(m - 1) : g[i] = Slice(F, offset + n - i, i)
      OBVIOUS
    <2> HIDE DEF g
    <2>2. AllStep(g, size, bs, block, offset, n)[m] = Slice(F, offset + n - m, m)
      BY <2>1, AllStepRight
    <2> QED BY <2>2 DEF g
  <1>2. g = AllStep(g, size, bs, block, offset, n)
    <2>1. /\ DOMAIN AllStep(g, size, bs, block, offset, n) = 0..n
          /\ AllStep(g, size, bs, block, offset, n)
               = [m \in 0..n |-> AllStep(g, size, bs, block, offset, n)[m]]
      BY DEF AllStep
    <2> QED BY <1>1, <2>1
  <1> HIDE DEF g
  <1>3. PICK w : /\ w = AllStep(w, size, bs, block, offset, n)
                 /\ ReadAll(size, bs, block, offset, n) = w[n]
    BY <1>2, ReadAllSolves
  <1> DEFINE Wrong == {m \in 0..n : w[m] # Slice(F, offset + n - m, m)}
  <1>4. Wrong = {}
    <2> SUFFICES ASSUME Wrong # {} PROVE FALSE
      OBVIOUS
    <2>1. PICK m \in Wrong : \A i \in Wrong : m <= i
      <3>1. Wrong \subseteq Nat
        OBVIOUS
      <3> QED BY <3>1, LeastNumber
    <2>2. \A i \in 0..(m - 1) : w[i] = Slice(F, offset + n - i, i)
      BY <2>1
    <2>3. m \in 0..n
      OBVIOUS
    <2>4. AllStep(w, size, bs, block, offset, n)[m] = Slice(F, offset + n - m, m)
      BY <2>2, <2>3, AllStepRight
    <2> QED BY <1>3, <2>4
  <1>5. w[n] = Slice(F, offset + n - n, n) /\ offset + n - n = offset
    BY <1>4
  <1> QED BY <1>3, <1>5

-----------------------------------------------------------------------------
\* The sizes of the blocks, of the disk and of a block number.
LEMMA Sizes ==
  /\ FsBlock \in Nat /\ FsBlock > 0 /\ DevBlock \in Nat /\ DevBlock > 0
  /\ RefSize \in Nat /\ RefSize > 0 /\ DiskBlocks \in Nat /\ NDirect \in Nat
  /\ DiskSize \in Nat
  /\ \E c \in Nat : DiskSize = c * DevBlock
  /\ FsBlock \div RefSize \in Nat /\ FsBlock = (FsBlock \div RefSize) * RefSize
  <1>1. /\ FsBlock \in Nat /\ FsBlock > 0 /\ DevBlock \in Nat /\ DevBlock > 0
        /\ RefSize \in Nat /\ RefSize > 0 /\ DiskBlocks \in Nat /\ NDirect \in Nat
        /\ FsBlock % DevBlock = 0 /\ FsBlock % RefSize = 0
    BY FilesAssumption
  <1>2. DiskSize \in Nat
    BY <1>1 DEF DiskSize
  <1>3. FsBlock \div RefSize \in Nat /\ FsBlock = (FsBlock \div RefSize) * RefSize
    BY <1>1, Exactly
  <1>4. PICK c \in Nat : FsBlock = c * DevBlock
    BY <1>1, Exactly
  <1>5. DiskBlocks * (c * DevBlock) = (DiskBlocks * c) * DevBlock /\ DiskBlocks * c \in Nat
    BY <1>1
  <1>6. DiskSize = (DiskBlocks * c) * DevBlock
    BY <1>4, <1>5 DEF DiskSize
  <1> QED BY <1>1, <1>2, <1>3, <1>5, <1>6

\* A number without its low bytes, one byte more at each step.
IsUpper(g, number, N) ==
  g = [n \in 0..N |-> IF n = 0 THEN number ELSE g[n - 1] \div 256]

\* There is such a function.
LEMMA UpperExists ==
  ASSUME NEW number, NEW N \in Nat
  PROVE  \E g : IsUpper(g, number, N)
  <1> DEFINE S == {n \in Nat : \E g : IsUpper(g, number, n)}
  <1>1. 0 \in S
    <2> DEFINE g == [n \in 0..0 |-> number]
    <2>1. IsUpper(g, number, 0)
      BY DEF IsUpper
    <2> QED BY <2>1
  <1>2. ASSUME NEW n \in 0..(N - 1), n \in S PROVE n + 1 \in S
    <2>1. PICK g : IsUpper(g, number, n)
      BY <1>2
    <2> DEFINE h == [i \in 0..(n + 1) |-> IF i <= n THEN g[i] ELSE g[n] \div 256]
    <2>2. ASSUME NEW i \in 0..(n + 1)
          PROVE  h[i] = IF i = 0 THEN number ELSE h[i - 1] \div 256
      <3>1. g[0] = number
        BY <2>1 DEF IsUpper
      <3>2. CASE i = 0
        BY <3>1, <3>2
      <3>3. CASE i # 0 /\ i <= n
        <4>1. i \in 0..n /\ i - 1 \in 0..(n + 1) /\ i - 1 <= n
          BY <3>3
        <4>2. g[i] = g[i - 1] \div 256
          BY <2>1, <3>3, <4>1 DEF IsUpper
        <4>3. h[i] = g[i] /\ h[i - 1] = g[i - 1]
          BY <4>1, <3>3
        <4> QED BY <3>3, <4>2, <4>3, Zenon
      <3>4. CASE i = n + 1
        <4>1. i # 0 /\ ~(i <= n) /\ i - 1 = n /\ i - 1 \in 0..(n + 1)
          BY <3>4
        <4>2. h[i] = g[n] \div 256 /\ h[i - 1] = g[n]
          BY <4>1
        <4> QED BY <4>1, <4>2, Zenon
      <3> QED BY <3>2, <3>3, <3>4
    <2> HIDE DEF h
    <2>3. h = [i \in 0..(n + 1) |-> h[i]]
      BY DEF h
    <2>4. IsUpper(h, number, n + 1)
      BY <2>2, <2>3 DEF IsUpper
    <2> QED BY <2>4
  <1> HIDE DEF S
  <1>3. \A n \in 0..N : n \in S
    BY <1>1, <1>2, UpTo
  <1>4. N \in S
    BY <1>3
  <1> QED BY <1>4 DEF S

\* UpperBytes is one.
LEMMA UpperSolves ==
  ASSUME NEW number, NEW g, IsUpper(g, number, RefSize)
  PROVE  IsUpper(UpperBytes(number), number, RefSize)
  BY ZenonT(40) DEF IsUpper, UpperBytes

\* The equations of UpperBytes, and that it has numbers.
LEMMA UpperRight ==
  ASSUME NEW number \in Nat
  PROVE  /\ UpperBytes(number)[0] = number
         /\ \A n \in 0..RefSize : UpperBytes(number)[n] \in Nat
         /\ \A n \in 0..(RefSize - 1) : UpperBytes(number)[n + 1] = UpperBytes(number)[n] \div 256
  <1> DEFINE u == UpperBytes(number)
  <1>0. RefSize \in Nat
    BY Sizes
  <1>1. IsUpper(u, number, RefSize)
    BY <1>0, UpperExists, UpperSolves
  <1> HIDE DEF u
  <1>2. \A n \in 0..RefSize : u[n] = IF n = 0 THEN number ELSE u[n - 1] \div 256
    BY <1>1 DEF IsUpper
  <1>3. u[0] = number
    BY <1>0, <1>2
  <1>4. ASSUME NEW n \in 0..(RefSize - 1) PROVE u[n + 1] = u[n] \div 256
    BY <1>0, <1>2
  <1> DEFINE S == {n \in 0..RefSize : u[n] \in Nat}
  <1>5. \A n \in 0..RefSize : n \in S
    <2>1. 0 \in S
      BY <1>0, <1>3
    <2>2. ASSUME NEW n \in 0..(RefSize - 1), n \in S PROVE n + 1 \in S
      <3>1. u[n] \in Nat /\ n + 1 \in 0..RefSize
        BY <1>0, <2>2
      <3>2. u[n] \div 256 \in Nat
        BY <3>1
      <3> QED BY <1>4, <3>1, <3>2
    <2> HIDE DEF S
    <2> QED BY <1>0, <2>1, <2>2, UpTo
  <1> QED BY <1>3, <1>4, <1>5 DEF u

\* The equation that defines val in BlockNumber.
ValStep(s, n, before) == IF n = 0 THEN 0 ELSE s[RefSize - n + 1] + 256 * before

IsVal(g, s) == g = [n \in 0..RefSize |-> ValStep(s, n, g[n - 1])]

\* BlockNumber solves that equation if anything does.
LEMMA ValSolves ==
  ASSUME NEW s, NEW g, IsVal(g, s)
  PROVE  \E w : IsVal(w, s) /\ BlockNumber(s) = w[RefSize]
  BY ZenonT(40) DEF IsVal, ValStep, BlockNumber

\* The bytes of a number, low byte first, are read as that number.
LEMMA BlockNumberRight ==
  ASSUME NEW number \in Nat, UpperBytes(number)[RefSize] = 0, NEW s,
         \A n \in 1..RefSize : s[n] = UpperBytes(number)[n - 1] % 256
  PROVE  BlockNumber(s) = number
  <1> DEFINE u == UpperBytes(number)
             g == [n \in 0..RefSize |-> u[RefSize - n]]
  <1>0. RefSize \in Nat
    BY Sizes
  <1>1. /\ u[0] = number /\ u[RefSize] = 0
        /\ \A n \in 0..RefSize : u[n] \in Nat
        /\ \A n \in 0..(RefSize - 1) : u[n + 1] = u[n] \div 256
        /\ \A n \in 1..RefSize : s[n] = u[n - 1] % 256
    BY UpperRight
  <1> HIDE DEF u
  <1>2. ASSUME NEW n \in 1..RefSize
        PROVE  u[RefSize - n] = s[RefSize - n + 1] + 256 * u[RefSize - (n - 1)]
    <2>1. /\ RefSize - n \in 0..(RefSize - 1) /\ RefSize - n \in 0..RefSize
          /\ RefSize - n + 1 \in 1..RefSize /\ (RefSize - n + 1) - 1 = RefSize - n
          /\ RefSize - (n - 1) = RefSize - n + 1
      BY <1>0
    <2>2. PICK a \in Nat : a = u[RefSize - n]
      BY <1>1, <2>1
    <2>3. s[RefSize - n + 1] = a % 256
      BY <1>1, <2>1, <2>2
    <2>4. u[RefSize - (n - 1)] = a \div 256
      BY <1>1, <2>1, <2>2
    <2>5. a = (a % 256) + 256 * (a \div 256)
      OBVIOUS
    <2> QED BY <2>2, <2>3, <2>4, <2>5
  <1>3. ASSUME NEW n \in 0..RefSize
        PROVE  g[n] = IF n = 0 THEN 0 ELSE s[RefSize - n + 1] + 256 * g[n - 1]
    <2>1. CASE n = 0
      BY <1>0, <1>1, <2>1
    <2>2. CASE n # 0
      <3>1. n \in 1..RefSize /\ n - 1 \in 0..RefSize
        BY <1>0, <2>2
      <3>2. g[n] = u[RefSize - n] /\ g[n - 1] = u[RefSize - (n - 1)]
        BY <3>1
      <3> QED BY <1>2, <2>2, <3>1, <3>2, ZenonT(40)
    <2> QED BY <2>1, <2>2
  <1> HIDE DEF g
  <1>4. g = [n \in 0..RefSize |-> g[n]]
    BY DEF g
  <1>5. IsVal(g, s)
    <2>1. \A n \in 0..RefSize : g[n] = ValStep(s, n, g[n - 1])
      BY <1>3 DEF ValStep
    <2> QED BY <1>4, <2>1 DEF IsVal
  <1>6. PICK w : IsVal(w, s) /\ BlockNumber(s) = w[RefSize]
    BY <1>5, ValSolves
  <1> DEFINE S == {n \in 0..RefSize : w[n] = g[n]}
  <1>7. /\ \A n \in 0..RefSize : w[n] = IF n = 0 THEN 0 ELSE s[RefSize - n + 1] + 256 * w[n - 1]
    <2>1. \A n \in 0..RefSize : w[n] = ValStep(s, n, w[n - 1])
      BY <1>6, ZenonT(40) DEF IsVal
    <2> QED BY <2>1 DEF ValStep
  <1>8. \A n \in 0..RefSize : n \in S
    <2>1. 0 \in S
      BY <1>0, <1>3, <1>7
    <2>2. ASSUME NEW n \in 0..(RefSize - 1), n \in S PROVE n + 1 \in S
      <3>1. n + 1 \in 0..RefSize /\ n + 1 # 0 /\ (n + 1) - 1 = n /\ w[n] = g[n]
        BY <1>0, <2>2
      <3>2. w[n + 1] = s[RefSize - (n + 1) + 1] + 256 * w[n]
        BY <1>7, <3>1
      <3>3. g[n + 1] = s[RefSize - (n + 1) + 1] + 256 * g[n]
        BY <1>3, <3>1
      <3> QED BY <3>1, <3>2, <3>3
    <2> HIDE DEF S
    <2> QED BY <1>0, <2>1, <2>2, UpTo
  <1>9. w[RefSize] = u[RefSize - RefSize] /\ RefSize - RefSize = 0
    BY <1>0, <1>8 DEF g
  <1> QED BY <1>1, <1>6, <1>9

-----------------------------------------------------------------------------
\* A place is a file and one of its block numbers, each of them a block of the disk.
LEMMA PlaceFacts ==
  ASSUME NEW x \in BlockPlace
  PROVE  /\ x[1] \in Inode /\ x[1] \in Nat /\ x[2] \in Nat /\ x[2] > 0
         /\ x[2] <= Len(Layout[x[1]].blocks)
         /\ BlockAt(x) \in 0..(DiskBlocks - 1)
         /\ x = <<x[1], x[2]>>
  <1>1. PICK f \in Inode : x \in {f} \X (1..Len(Layout[f].blocks))
    BY DEF BlockPlace
  <1>2. Layout[f].blocks \in Seq(0..(DiskBlocks - 1)) /\ f \in Nat
    BY FilesAssumption DEF ImageWellFormed
  <1>3. x[1] = f /\ x[2] \in 1..Len(Layout[f].blocks) /\ x = <<x[1], x[2]>>
    BY <1>1
  <1>4. Layout[f].blocks[x[2]] \in 0..(DiskBlocks - 1)
    BY <1>2, <1>3, ElementOfSeq
  <1>5. x[2] \in Nat /\ x[2] > 0 /\ x[2] <= Len(Layout[f].blocks)
    <2>1. Len(Layout[f].blocks) \in Nat
      BY <1>2
    <2> QED BY <1>3, <2>1
  <1> QED BY <1>2, <1>3, <1>4, <1>5 DEF BlockAt

\* Each block number of a file has its place.
LEMMA APlace ==
  ASSUME NEW f \in Inode, NEW i \in 1..Len(Layout[f].blocks)
  PROVE  <<f, i>> \in BlockPlace /\ <<f, i>>[1] = f /\ <<f, i>>[2] = i
         /\ BlockAt(<<f, i>>) = Layout[f].blocks[i]
  <1>1. <<f, i>> \in {f} \X (1..Len(Layout[f].blocks))
    OBVIOUS
  <1>2. <<f, i>> \in BlockPlace
    BY <1>1 DEF BlockPlace
  <1> QED BY <1>2 DEF BlockAt

\* The sizes of a file.
LEMMA FileFacts ==
  ASSUME NEW f \in Inode
  PROVE  /\ f \in Nat /\ Layout[f].size \in Nat /\ Len(Layout[f].blocks) \in Nat
         /\ Layout[f].size <= Len(Layout[f].blocks) * FsBlock
         /\ Len(Layout[f].blocks) <= NDirect + (FsBlock \div RefSize)
  <1>1. f \in Nat
    BY FilesAssumption
  <1>2. /\ Layout[f].size \in Nat /\ Layout[f].blocks \in Seq(0..(DiskBlocks - 1))
        /\ Layout[f].size <= Len(Layout[f].blocks) * FsBlock
        /\ Len(Layout[f].blocks) <= NDirect + (FsBlock \div RefSize)
    BY FilesAssumption DEF ImageWellFormed
  <1>3. Len(Layout[f].blocks) \in Nat
    BY <1>2
  <1> QED BY <1>1, <1>2, <1>3

\* The bytes of a file are numbers, and those of two files or of two places, different ones.
LEMMA FileByteFacts ==
  /\ \A f \in Nat, i \in Int : FileByte(f, i) \in Int
  /\ \A f, g \in Nat, i, j \in 0..(DiskSize - 1) :
       FileByte(f, i) = FileByte(g, j) => f = g /\ i = j
  <1>1. DiskSize \in Nat
    BY Sizes
  <1>2. ASSUME NEW f \in Nat, NEW i \in Int PROVE FileByte(f, i) \in Int
    <2>1. DiskSize * f \in Int
      BY <1>1
    <2> QED BY <2>1 DEF FileByte
  <1>3. ASSUME NEW f \in Nat, NEW g \in Nat, NEW i \in 0..(DiskSize - 1), NEW j \in 0..(DiskSize - 1),
               FileByte(f, i) = FileByte(g, j)
        PROVE  f = g /\ i = j
    <2>1. i \in Nat /\ j \in Nat /\ i < DiskSize /\ j < DiskSize
      BY <1>1
    <2>2. f * DiskSize + i = g * DiskSize + j
      BY <1>1, <1>3, <2>1 DEF FileByte
    <2>3. /\ (f * DiskSize + i) \div DiskSize = f /\ (f * DiskSize + i) % DiskSize = i
          /\ (g * DiskSize + j) \div DiskSize = g /\ (g * DiskSize + j) % DiskSize = j
      BY <1>1, <2>1, DivModUnique
    <2> QED BY <2>2, <2>3, Zenon
  <1> QED BY <1>2, <1>3

DataOf(b) == {x \in BlockPlace : BlockAt(x) = b}

RefsOf(b, o) == {x \in BlockPlace : x[2] - NDirect - 1 = o \div RefSize /\ Layout[x[1]].indirect = b}

\* A byte o of block b of the disk.
ByteOf(b, o) ==
  IF DataOf(b) # {} THEN LET x == CHOOSE x \in DataOf(b) : TRUE
                         IN  FileByte(x[1], (x[2] - 1) * FsBlock + o)
  ELSE IF RefsOf(b, o) # {} THEN LET x == CHOOSE x \in RefsOf(b, o) : TRUE
                                 IN  UpperBytes(BlockAt(x))[o % RefSize] % 256
  ELSE 0

\* Where it lies.
LEMMA BlockAddress ==
  ASSUME NEW b \in 0..(DiskBlocks - 1), NEW o \in 0..(FsBlock - 1)
  PROVE  /\ b * FsBlock + o \in 0..(DiskSize - 1)
         /\ b * FsBlock + FsBlock <= DiskSize
         /\ (b * FsBlock + o) \div FsBlock = b /\ (b * FsBlock + o) % FsBlock = o
  <1>1. /\ b \in Nat /\ o \in Nat /\ o < FsBlock /\ FsBlock \in Nat
        /\ DiskBlocks \in Nat /\ b < DiskBlocks /\ b * FsBlock \in Nat /\ DiskSize \in Nat
    BY Sizes
  <1>2. (DiskBlocks - b - 1) * FsBlock >= 0
    BY <1>1
  <1>3. b * FsBlock + FsBlock <= DiskSize
    BY <1>1, <1>2 DEF DiskSize
  <1>4. (b * FsBlock + o) \div FsBlock = b /\ (b * FsBlock + o) % FsBlock = o
    BY <1>1, DivModUnique
  <1>5. b * FsBlock + o \in 0..(DiskSize - 1)
    <2>1. PICK a \in Nat : a = b * FsBlock
      BY <1>1
    <2> QED BY <1>1, <1>3, <2>1
  <1> QED BY <1>3, <1>4, <1>5

\* A byte of the disk by its block and its offset there.
LEMMA DiskByte ==
  ASSUME NEW a \in 0..(DiskSize - 1)
  PROVE  Disk[a] = ByteOf(a \div FsBlock, a % FsBlock)
  BY DEF Disk, ByteOf, DataOf, RefsOf

\* The bytes of the disk are numbers.
LEMMA DiskInt ==
  ASSUME NEW a \in Nat, a < DiskSize
  PROVE  Disk[a] \in Int
  <1>1. a \in 0..(DiskSize - 1) /\ FsBlock \in Nat /\ FsBlock > 0 /\ RefSize \in Nat /\ RefSize > 0
    BY Sizes
  <1>2. PICK b \in Nat, o \in Nat : b = a \div FsBlock /\ o = a % FsBlock
    BY <1>1, DivMod
  <1>3. Disk[a] = ByteOf(b, o)
    BY <1>1, <1>2, DiskByte
  <1>4. CASE DataOf(b) # {}
    <2> DEFINE x == CHOOSE x \in DataOf(b) : TRUE
    <2>1. x \in BlockPlace
      BY <1>4 DEF DataOf
    <2>2. x[1] \in Nat /\ x[2] \in Nat
      BY <2>1, PlaceFacts
    <2>3. Disk[a] = FileByte(x[1], (x[2] - 1) * FsBlock + o)
      BY <1>3, <1>4 DEF ByteOf
    <2> HIDE DEF x
    <2>4. PICK f \in Nat, i \in Int : f = x[1] /\ i = (x[2] - 1) * FsBlock + o
      BY <1>1, <1>2, <2>2
    <2>5. FileByte(f, i) \in Int
      BY <2>4, FileByteFacts
    <2> QED BY <2>3, <2>4, <2>5
  <1>5. CASE DataOf(b) = {} /\ RefsOf(b, o) # {}
    <2> DEFINE x == CHOOSE x \in RefsOf(b, o) : TRUE
    <2>1. x \in BlockPlace
      BY <1>5 DEF RefsOf
    <2>2. Disk[a] = UpperBytes(BlockAt(x))[o % RefSize] % 256
      BY <1>3, <1>5 DEF ByteOf
    <2> HIDE DEF x
    <2>3. BlockAt(x) \in Nat
      <3>1. BlockAt(x) \in 0..(DiskBlocks - 1)
        BY <2>1, PlaceFacts
      <3> QED BY <3>1, Sizes
    <2>4. o % RefSize \in 0..RefSize
      <3>1. o % RefSize \in Nat /\ o % RefSize < RefSize
        BY <1>1, DivMod
      <3> QED BY <1>1, <3>1
    <2>5. UpperBytes(BlockAt(x))[o % RefSize] \in Nat
      BY <2>3, <2>4, UpperRight
    <2> QED BY <2>2, <2>5
  <1>6. CASE DataOf(b) = {} /\ RefsOf(b, o) = {}
    BY <1>3, <1>6 DEF ByteOf
  <1> QED BY <1>4, <1>5, <1>6

\* A block of a file holds the bytes of the file.
LEMMA DiskData ==
  ASSUME NEW x \in BlockPlace, NEW o \in 0..(FsBlock - 1)
  PROVE  Disk[BlockAt(x) * FsBlock + o] = FileByte(x[1], (x[2] - 1) * FsBlock + o)
  <1> DEFINE b == BlockAt(x)
  <1>1. b \in 0..(DiskBlocks - 1)
    BY PlaceFacts
  <1>2. Disk[b * FsBlock + o] = ByteOf(b, o)
    <2> HIDE DEF b
    <2> QED BY <1>1, BlockAddress, DiskByte
  <1>3. x \in DataOf(b) /\ \A y \in DataOf(b) : y = x
    BY FilesAssumption DEF DataOf, ImageWellFormed
  <1>4. (CHOOSE y \in DataOf(b) : TRUE) = x
    BY <1>3
  <1> HIDE DEF b
  <1>5. ByteOf(b, o) = FileByte(x[1], (x[2] - 1) * FsBlock + o)
    BY <1>3, <1>4 DEF ByteOf
  <1> QED BY <1>2, <1>5 DEF b

\* The indirect block of a file holds the numbers of its later blocks.
LEMMA DiskRef ==
  ASSUME NEW x \in BlockPlace, x[2] > NDirect, NEW r \in 0..(RefSize - 1)
  PROVE  /\ (x[2] - 1 - NDirect) * RefSize \in Nat
         /\ (x[2] - 1 - NDirect) * RefSize + r \in 0..(FsBlock - 1)
         /\ Disk[Layout[x[1]].indirect * FsBlock + ((x[2] - 1 - NDirect) * RefSize + r)]
              = UpperBytes(BlockAt(x))[r] % 256
  <1> DEFINE b == Layout[x[1]].indirect
             q == x[2] - 1 - NDirect
             o == q * RefSize + r
  <1>1. /\ FsBlock \in Nat /\ RefSize \in Nat /\ RefSize > 0 /\ NDirect \in Nat
        /\ FsBlock \div RefSize \in Nat /\ FsBlock = (FsBlock \div RefSize) * RefSize
        /\ r \in Nat /\ r < RefSize
    BY Sizes
  <1>2. x[1] \in Inode /\ x[2] \in Nat /\ x[2] <= Len(Layout[x[1]].blocks)
    BY PlaceFacts
  <1>3. /\ Len(Layout[x[1]].blocks) \in Nat
        /\ Len(Layout[x[1]].blocks) <= NDirect + (FsBlock \div RefSize)
    BY <1>2, FileFacts
  <1>4. q \in Nat /\ q < FsBlock \div RefSize
    BY <1>1, <1>2, <1>3
  <1> HIDE DEF q
  <1>5. q * RefSize \in Nat /\ o \in 0..(FsBlock - 1)
    <2>1. PICK n \in Nat : n = FsBlock \div RefSize
      BY <1>1
    <2>2. (n - q - 1) * RefSize >= 0
      BY <1>1, <1>4, <2>1
    <2>3. FsBlock = n * RefSize
      BY <1>1, <2>1
    <2>4. PICK a \in Nat : a = q * RefSize
      BY <1>1, <1>4
    <2>5. a + RefSize <= FsBlock
      BY <1>1, <1>4, <2>1, <2>2, <2>3, <2>4
    <2> QED BY <1>1, <2>4, <2>5
  <1>6. o \div RefSize = q /\ o % RefSize = r
    BY <1>1, <1>4, DivModUnique
  <1> HIDE DEF o
  <1>7. /\ b \in 0..(DiskBlocks - 1) /\ DataOf(b) = {}
        /\ \A y \in BlockPlace : y[2] > NDirect /\ Layout[y[1]].indirect = b => y[1] = x[1]
    BY FilesAssumption DEF ImageWellFormed, DataOf
  <1>8. x \in RefsOf(b, o)
    BY <1>1, <1>2, <1>6 DEF RefsOf, q
  <1>9. ASSUME NEW y \in RefsOf(b, o) PROVE y = x
    <2>1. y \in BlockPlace /\ y[2] - NDirect - 1 = q /\ Layout[y[1]].indirect = b
      BY <1>6, <1>9 DEF RefsOf
    <2>2. y[2] \in Nat /\ y = <<y[1], y[2]>> /\ x = <<x[1], x[2]>>
      BY <2>1, PlaceFacts
    <2>3. y[2] = x[2] /\ y[2] > NDirect
      <3>1. PICK i \in Nat, j \in Nat, d \in Nat : i = x[2] /\ j = y[2] /\ d = NDirect
        BY <1>1, <1>2, <2>2
      <3>2. j - d - 1 = q /\ q = i - 1 - d
        BY <2>1, <3>1 DEF q
      <3>3. j = i /\ j > d
        BY <1>4, <3>1, <3>2
      <3> QED BY <3>1, <3>3
    <2>4. y[1] = x[1]
      BY <1>7, <2>1, <2>3
    <2> QED BY <2>2, <2>3, <2>4
  <1>10. (CHOOSE y \in RefsOf(b, o) : TRUE) = x
    BY <1>8, <1>9
  <1>11. Disk[b * FsBlock + o] = ByteOf(b, o)
    <2> HIDE DEF b
    <2> QED BY <1>5, <1>7, BlockAddress, DiskByte
  <1>12. ByteOf(b, o) = UpperBytes(BlockAt(x))[r] % 256
    <2> HIDE DEF b
    <2> QED BY <1>6, <1>7, <1>8, <1>10 DEF ByteOf
  <1> QED BY <1>5, <1>11, <1>12 DEF o, q

-----------------------------------------------------------------------------
\* RamDisk::read_block delivers the blocks of the disk.
LEMMA DeviceDelivers == Delivers(DiskSize, DevBlock, DeviceBlock, Disk)
  <1> SUFFICES ASSUME NEW b \in Nat, b * DevBlock < DiskSize
      PROVE  /\ DeviceBlock[b] \in Seq(Int) /\ Len(DeviceBlock[b]) = DevBlock
             /\ \A i \in 1..DevBlock : b * DevBlock + i - 1 < DiskSize =>
                  DeviceBlock[b][i] = Disk[b * DevBlock + i - 1]
    BY DEF Delivers
  <1>1. DevBlock \in Nat /\ DevBlock > 0 /\ DiskSize \in Nat
    BY Sizes
  <1>2. PICK c \in Nat : DiskSize = c * DevBlock
    BY Sizes
  <1>3. b < c
    <2> SUFFICES ASSUME ~(b < c) PROVE FALSE
      OBVIOUS
    <2>1. (b - c) * DevBlock >= 0
      BY <1>1
    <2>2. b * DevBlock >= c * DevBlock
      BY <1>1, <2>1
    <2> QED BY <1>1, <1>2, <2>2
  <1>4. DiskSize \div DevBlock = c
    <2>1. (c * DevBlock + 0) \div DevBlock = c
      BY <1>1, DivModUnique
    <2>2. c * DevBlock + 0 = c * DevBlock
      BY <1>1
    <2> QED BY <1>2, <2>1, <2>2
  <1>5. b \in 0..(DiskSize \div DevBlock - 1)
    BY <1>3, <1>4
  <1>6. DeviceBlock[b] = [j \in 1..DevBlock |-> Disk[DevBlock * b + j - 1]]
    BY <1>5 DEF DeviceBlock
  <1>7. PICK a \in Nat : a = b * DevBlock /\ a = DevBlock * b
    BY <1>1
  <1>8. a + DevBlock <= DiskSize
    <2>1. (c - b - 1) * DevBlock >= 0
      BY <1>1, <1>3
    <2> QED BY <1>1, <1>2, <1>7, <2>1
  <1>9. ASSUME NEW j \in 1..DevBlock PROVE Disk[a + j - 1] \in Int
    <2>1. a + j - 1 \in Nat /\ a + j - 1 < DiskSize
      BY <1>1, <1>8
    <2> QED BY <2>1, DiskInt
  <1>10. DeviceBlock[b] = [j \in 1..DevBlock |-> Disk[a + j - 1]]
    BY <1>6, <1>7
  <1>11. DeviceBlock[b] \in Seq(Int) /\ Len(DeviceBlock[b]) = DevBlock
    BY <1>1, <1>9, <1>10
  <1>12. \A i \in 1..DevBlock : DeviceBlock[b][i] = Disk[b * DevBlock + i - 1]
    BY <1>7, <1>10
  <1> QED BY <1>11, <1>12

\* A read from the disk.
LEMMA DeviceRight ==
  ASSUME NEW a \in Nat, NEW n \in Nat, a + n <= DiskSize
  PROVE  Device(a, n) = Slice(Disk, a, n)
  <1>1. DevBlock \in Nat /\ DevBlock > 0 /\ DiskSize \in Nat
    BY Sizes
  <1>2. IsBytes(Disk, 0, DiskSize)
    BY DiskInt DEF IsBytes
  <1> QED BY <1>1, <1>2, DeviceDelivers, ReadAllRight DEF Device

\* The bytes of a file.
FileOf(f) == [p \in Nat |-> FileByte(f, p)]

\* Slices of a file make up a longer one.
LEMMA FileJoins ==
  ASSUME NEW f \in Nat, NEW at \in Nat, NEW c \in Nat, NEW n \in Nat
  PROVE  SlicesJoin(FileOf(f), at, c, n)
  <1>1. IsBytes(FileOf(f), at, at + (n + c))
    BY FileByteFacts DEF IsBytes, FileOf
  <1> QED BY <1>1, SliceJoins

\* The number that Node::read_block takes for a block of a file.
NumberOf(f, index) ==
  IF index < NDirect
  THEN Layout[f].blocks[index + 1]
  ELSE BlockNumber(Device(Layout[f].indirect * FsBlock + RefOffset(index), RefSize))

\* It is that of the block, for direct blocks and for those behind the indirect one.
LEMMA NumberRight ==
  ASSUME NEW f \in Inode, NEW index \in 0..(Len(Layout[f].blocks) - 1)
  PROVE  NumberOf(f, index) = Layout[f].blocks[index + 1]
  <1>0. /\ NDirect \in Nat /\ RefSize \in Nat /\ RefSize > 0 /\ FsBlock \in Nat /\ FsBlock > 0
        /\ Len(Layout[f].blocks) \in Nat
    BY Sizes, FileFacts
  <1>1. CASE index < NDirect
    BY <1>1 DEF NumberOf
  <1>2. CASE ~(index < NDirect)
    <2> DEFINE x == <<f, index + 1>>
               b == Layout[f].indirect
               number == BlockAt(x)
               at == b * FsBlock + RefOffset(index)
               s == Device(at, RefSize)
    <2>1. x \in BlockPlace /\ x[1] = f /\ x[2] = index + 1 /\ number = Layout[f].blocks[index + 1]
      BY <1>0, APlace
    <2> HIDE DEF x
    <2>2. x[2] > NDirect /\ x[2] - 1 - NDirect = index - NDirect
      BY <1>0, <1>2, <2>1
    <2>3. b \in 0..(DiskBlocks - 1)
      BY <2>1, <2>2, FilesAssumption DEF ImageWellFormed
    <2>4. number \in Nat /\ UpperBytes(number)[RefSize] = 0
      <3>1. number \in 0..(DiskBlocks - 1)
        BY <2>1, PlaceFacts
      <3>2. \A y \in BlockPlace : UpperBytes(BlockAt(y))[RefSize] = 0
        BY FilesAssumption DEF ImageWellFormed
      <3>3. UpperBytes(number)[RefSize] = 0
        BY <2>1, <3>2
      <3> HIDE DEF number
      <3> QED BY <3>1, <3>3, Sizes
    <2> HIDE DEF number, b
    <2>5. RefOffset(index) \in Nat
      <3>1. RefOffset(index) = (x[2] - 1 - NDirect) * RefSize
        BY <2>2 DEF RefOffset
      <3>2. 0 \in 0..(RefSize - 1)
        BY <1>0
      <3> QED BY <2>1, <2>2, <3>1, <3>2, DiskRef
    <2>6. ASSUME NEW r \in 0..(RefSize - 1)
          PROVE  /\ RefOffset(index) + r \in 0..(FsBlock - 1)
                 /\ Disk[b * FsBlock + (RefOffset(index) + r)] = UpperBytes(number)[r] % 256
      <3>1. RefOffset(index) = (x[2] - 1 - NDirect) * RefSize
        BY <2>2 DEF RefOffset
      <3>2. Layout[x[1]].indirect = b /\ BlockAt(x) = number
        BY <2>1 DEF b, number
      <3>3. /\ (x[2] - 1 - NDirect) * RefSize + r \in 0..(FsBlock - 1)
            /\ Disk[Layout[x[1]].indirect * FsBlock + ((x[2] - 1 - NDirect) * RefSize + r)]
                 = UpperBytes(BlockAt(x))[r] % 256
        BY <2>1, <2>2, DiskRef, SMTT(30)
      <3> QED BY <3>1, <3>2, <3>3, Zenon
    <2>7. PICK m \in Nat, c \in Nat : m = b * FsBlock /\ c = RefOffset(index)
      BY <1>0, <2>3, <2>5
    <2>8. at \in Nat /\ at + RefSize <= DiskSize /\ at = m + c
      <3>1. RefSize - 1 \in 0..(RefSize - 1)
        BY <1>0
      <3>2. c + (RefSize - 1) \in 0..(FsBlock - 1)
        BY <2>6, <2>7, <3>1
      <3>3. m + FsBlock <= DiskSize
        <4>1. 0 \in 0..(FsBlock - 1)
          BY <1>0
        <4> QED BY <2>3, <2>7, <4>1, BlockAddress
      <3>4. DiskSize \in Nat
        BY Sizes
      <3>5. at = m + c
        BY <2>7, Zenon
      <3> HIDE DEF at
      <3> QED BY <1>0, <3>2, <3>3, <3>4, <3>5
    <2> HIDE DEF at
    <2>9. s = Slice(Disk, at, RefSize)
      BY <1>0, <2>8, DeviceRight
    <2>10. ASSUME NEW n \in 1..RefSize PROVE s[n] = UpperBytes(number)[n - 1] % 256
      <3>1. s[n] = Disk[at + n - 1]
        BY <2>9 DEF Slice
      <3>2. at + n - 1 = m + (c + (n - 1)) /\ n - 1 \in 0..(RefSize - 1)
        BY <1>0, <2>7, <2>8
      <3>3. Disk[m + (c + (n - 1))] = UpperBytes(number)[n - 1] % 256
        BY <2>6, <2>7, <3>2
      <3> QED BY <3>1, <3>2, <3>3
    <2> HIDE DEF s
    <2>11. BlockNumber(s) = number
      BY <2>4, <2>10, BlockNumberRight
    <2>12. NumberOf(f, index) = BlockNumber(s)
      BY <1>2 DEF NumberOf, s, at, b
    <2> QED BY <2>1, <2>11, <2>12
  <1> QED BY <1>1, <1>2

\* Node::read_block finds the bytes of the file, behind the indirect block too.
LEMMA NodeBlockRight ==
  ASSUME NEW f \in Inode, NEW index \in 0..(Len(Layout[f].blocks) - 1)
  PROVE  NodeBlock(f)[index] = Slice(FileOf(f), index * FsBlock, FsBlock)
  <1>0. /\ FsBlock \in Nat /\ FsBlock > 0 /\ Len(Layout[f].blocks) \in Nat /\ f \in Nat
    BY Sizes, FileFacts
  <1> DEFINE x == <<f, index + 1>>
             b == BlockAt(x)
  <1>1. x \in BlockPlace /\ x[1] = f /\ x[2] = index + 1 /\ b = Layout[f].blocks[index + 1]
    BY <1>0, APlace
  <1> HIDE DEF x
  <1>2. b \in 0..(DiskBlocks - 1)
    BY <1>1, PlaceFacts
  <1>3. NodeBlock(f)[index] = Device(NumberOf(f, index) * FsBlock, FsBlock)
    BY DEF NodeBlock, NumberOf
  <1>4. NodeBlock(f)[index] = Device(b * FsBlock, FsBlock)
    BY <1>1, <1>3, NumberRight
  <1>5. PICK m \in Nat, k \in Nat : m = b * FsBlock /\ k = index * FsBlock
    <2> HIDE DEF b
    <2> QED BY <1>0, <1>2
  <1>6. m + FsBlock <= DiskSize
    <2> HIDE DEF b
    <2>1. 0 \in 0..(FsBlock - 1)
      BY <1>0
    <2> QED BY <1>2, <1>5, <2>1, BlockAddress
  <1>7. NodeBlock(f)[index] = Slice(Disk, m, FsBlock)
    BY <1>0, <1>4, <1>5, <1>6, DeviceRight
  <1>8. ASSUME NEW i \in 1..FsBlock PROVE Disk[m + i - 1] = FileOf(f)[k + i - 1]
    <2>1. i - 1 \in 0..(FsBlock - 1) /\ m + i - 1 = m + (i - 1) /\ k + i - 1 = k + (i - 1)
          /\ k + (i - 1) \in Nat
      BY <1>0
    <2>2. Disk[m + (i - 1)] = FileByte(x[1], (x[2] - 1) * FsBlock + (i - 1))
      BY <1>1, <1>5, <2>1, DiskData
    <2>3. (x[2] - 1) * FsBlock = k
      <3>1. x[2] - 1 = index
        BY <1>1
      <3> QED BY <1>5, <3>1
    <2>4. Disk[m + (i - 1)] = FileByte(f, k + (i - 1))
      BY <1>1, <2>2, <2>3
    <2> QED BY <2>1, <2>4 DEF FileOf
  <1> QED BY <1>5, <1>7, <1>8 DEF Slice

\* Node::read_block delivers the blocks of the file.
LEMMA NodeDelivers ==
  ASSUME NEW f \in Inode
  PROVE  Delivers(Layout[f].size, FsBlock, NodeBlock(f), FileOf(f))
  <1>0. /\ FsBlock \in Nat /\ FsBlock > 0 /\ Len(Layout[f].blocks) \in Nat /\ f \in Nat
        /\ Layout[f].size \in Nat /\ Layout[f].size <= Len(Layout[f].blocks) * FsBlock
    BY Sizes, FileFacts
  <1> SUFFICES ASSUME NEW b \in Nat, b * FsBlock < Layout[f].size
      PROVE  /\ NodeBlock(f)[b] \in Seq(Int) /\ Len(NodeBlock(f)[b]) = FsBlock
             /\ \A i \in 1..FsBlock : NodeBlock(f)[b][i] = FileOf(f)[b * FsBlock + i - 1]
    BY DEF Delivers
  <1>1. b \in 0..(Len(Layout[f].blocks) - 1)
    <2>1. PICK n \in Nat : n = Len(Layout[f].blocks)
      BY <1>0
    <2>2. b * FsBlock < n * FsBlock
      BY <1>0, <2>1
    <2>3. b < n
      <3> SUFFICES ASSUME ~(b < n) PROVE FALSE
        OBVIOUS
      <3>1. (b - n) * FsBlock >= 0
        BY <1>0, <2>1
      <3> QED BY <1>0, <2>1, <2>2, <3>1
    <2> QED BY <2>1, <2>3
  <1>2. NodeBlock(f)[b] = Slice(FileOf(f), b * FsBlock, FsBlock)
    BY <1>1, NodeBlockRight
  <1>3. PICK k \in Nat : k = b * FsBlock
    BY <1>0
  <1>4. \A i \in 1..FsBlock : FileOf(f)[k + i - 1] \in Int
    <2>1. \A p \in Nat : FileOf(f)[p] \in Int
      BY <1>0, FileByteFacts DEF FileOf
    <2>2. \A i \in 1..FsBlock : k + i - 1 \in Nat
      BY <1>0
    <2> QED BY <2>1, <2>2
  <1>5. NodeBlock(f)[b] = [i \in 1..FsBlock |-> FileOf(f)[k + i - 1]]
    BY <1>2, <1>3 DEF Slice
  <1>6. NodeBlock(f)[b] \in Seq(Int) /\ Len(NodeBlock(f)[b]) = FsBlock
    BY <1>0, <1>4, <1>5
  <1> QED BY <1>3, <1>5, <1>6

\* A read of a file.
LEMMA NodeReadRight ==
  ASSUME NEW f \in Inode, NEW offset \in Nat, NEW n \in Nat, offset + n <= Layout[f].size
  PROVE  NodeRead(f, offset, n) = Slice(FileOf(f), offset, n)
  <1>1. /\ FsBlock \in Nat /\ FsBlock > 0 /\ Layout[f].size \in Nat /\ f \in Nat
    BY Sizes, FileFacts
  <1>2. IsBytes(FileOf(f), 0, Layout[f].size)
    BY <1>1, FileByteFacts DEF FileOf, IsBytes
  <1> QED BY <1>1, <1>2, NodeDelivers, ReadAllRight DEF NodeRead

-----------------------------------------------------------------------------
\* An open descriptor stands in its file and not before the place where its reads began.
Positions ==
  \A fd \in Fd : fdTable[fd].used =>
    /\ fdTable[fd].inode \in Inode
    /\ began[fd] <= fdTable[fd].offset
    /\ fdTable[fd].offset <= Layout[fdTable[fd].inode].size

FilesTypes ==
  /\ fdTable \in [Fd -> [used : BOOLEAN, inode : Nat, offset : Nat]]
  /\ began \in [Fd -> Nat]
  /\ bytes = [fd \in Fd |-> bytes[fd]]

FilesInv == FilesTypes /\ Positions /\ ReadsContiguous

\* The bytes of a file from an offset up to another.
Between(f, from, to) == [k \in 1..(to - from) |-> FileByte(f, from + k - 1)]

\* What FilesInv says of one descriptor.
FdRight(d, from, got) ==
  d.used =>
    /\ d.inode \in Inode /\ from <= d.offset /\ d.offset <= Layout[d.inode].size
    /\ got = Between(d.inode, from, d.offset)

\* FilesInv, descriptor by descriptor.
LEMMA FilesInvFd == FilesInv <=> FilesTypes /\ \A fd \in Fd : FdRight(fdTable[fd], began[fd], bytes[fd])
  BY DEF FilesInv, Positions, ReadsContiguous, FdRight, Between

\* A descriptor changes alone.
LEMMA OneFd ==
  ASSUME FilesInv, NEW fd \in Fd,
         NEW d \in [used : BOOLEAN, inode : Nat, offset : Nat], NEW from \in Nat, NEW got,
         FdRight(d, from, got),
         fdTable' = [fdTable EXCEPT ![fd] = d],
         began' = [began EXCEPT ![fd] = from],
         bytes' = [bytes EXCEPT ![fd] = got]
  PROVE  FilesInv'
  <1>1. FilesTypes /\ \A e \in Fd : FdRight(fdTable[e], began[e], bytes[e])
    BY FilesInvFd
  <1>2. FilesTypes'
    BY <1>1 DEF FilesTypes, Fd
  <1>3. ASSUME NEW e \in Fd PROVE FdRight(fdTable'[e], began'[e], bytes'[e])
    <2>1. CASE e = fd
      <3>1. fdTable'[e] = d /\ began'[e] = from /\ bytes'[e] = got
        BY <1>1, <2>1 DEF FilesTypes
      <3> QED BY <3>1
    <2>2. CASE e # fd
      <3>1. fdTable'[e] = fdTable[e] /\ began'[e] = began[e] /\ bytes'[e] = bytes[e]
        BY <1>1, <2>2 DEF FilesTypes
      <3> QED BY <1>1, <3>1
    <2> QED BY <2>1, <2>2
  <1>4. Fd' = Fd
    BY DEF Fd
  <1>5. Positions' /\ ReadsContiguous'
    BY <1>3, <1>4 DEF Positions, ReadsContiguous, FdRight, Between
  <1> QED BY <1>2, <1>5 DEF FilesInv

\* All descriptors are closed at first.
LEMMA FilesInitInv == FilesInit => FilesInv
  BY DEF FilesInit, FilesInv, FilesTypes, Positions, ReadsContiguous, Closed

\* open gives a closed descriptor the start of the file.
LEMMA OpenInv == ASSUME FilesInv, NEW f \in Inode, Open(f) PROVE FilesInv'
  <1> DEFINE fd == Min(FreeFds)
             d == [used |-> TRUE, inode |-> f, offset |-> 0]
  <1>1. fd \in Fd
    <2>1. FreeFds \subseteq Nat /\ FreeFds \subseteq Fd /\ FreeFds # {}
      BY FilesAssumption DEF Open, FreeFds, Fd
    <2> QED BY <2>1, MinLeast
  <1>2. /\ fdTable' = [fdTable EXCEPT ![fd] = d]
        /\ began' = [began EXCEPT ![fd] = 0]
        /\ bytes' = [bytes EXCEPT ![fd] = <<>>]
    BY DEF Open, Restart
  <1>3. d \in [used : BOOLEAN, inode : Nat, offset : Nat]
    BY FilesAssumption
  <1>4. FdRight(d, 0, <<>>)
    BY FilesAssumption DEF FdRight, Between, ImageWellFormed
  <1> HIDE DEF fd, d
  <1> QED BY <1>1, <1>2, <1>3, <1>4, OneFd

\* close keeps the invariant.
LEMMA CloseInv == ASSUME FilesInv, NEW fd \in Fd, Close(fd) PROVE FilesInv'
  <1>1. /\ fdTable' = [fdTable EXCEPT ![fd] = Closed]
        /\ began' = [began EXCEPT ![fd] = 0]
        /\ bytes' = [bytes EXCEPT ![fd] = <<>>]
    BY DEF Close, Restart
  <1>2. Closed \in [used : BOOLEAN, inode : Nat, offset : Nat] /\ FdRight(Closed, 0, <<>>)
    BY DEF Closed, FdRight
  <1> QED BY <1>1, <1>2, OneFd

\* lseek keeps the invariant.
LEMMA LseekInv ==
  ASSUME FilesInv, NEW fd \in Fd, NEW o \in SeekTo, Lseek(fd, o)
  PROVE  FilesInv'
  <1> DEFINE d == [fdTable[fd] EXCEPT !.offset = o]
  <1>1. /\ fdTable[fd] \in [used : BOOLEAN, inode : Nat, offset : Nat] /\ o \in Nat
        /\ FdRight(fdTable[fd], began[fd], bytes[fd])
    BY FilesAssumption, FilesInvFd DEF FilesTypes
  <1>2. /\ fdTable' = [fdTable EXCEPT ![fd] = d]
        /\ began' = [began EXCEPT ![fd] = o]
        /\ bytes' = [bytes EXCEPT ![fd] = <<>>]
    BY DEF Lseek, Restart
  <1>3. d \in [used : BOOLEAN, inode : Nat, offset : Nat] /\ d.offset = o
        /\ d.inode = fdTable[fd].inode
    BY <1>1
  <1>4. fdTable[fd].inode \in Inode /\ o <= Layout[fdTable[fd].inode].size
    BY <1>1 DEF Lseek, FdRight
  <1> HIDE DEF d
  <1>5. FdRight(d, o, <<>>)
    BY <1>1, <1>3, <1>4 DEF FdRight, Between
  <1> QED BY <1>1, <1>2, <1>3, <1>5, OneFd

\* read adds to what was read the bytes from the offset on, as many as it moves the offset.
LEMMA ReadFdInv ==
  ASSUME FilesInv, NEW fd \in Fd, NEW n \in ReadLen, ReadFd(fd, n)
  PROVE  FilesInv'
  <1> DEFINE f == fdTable[fd].inode
             at == fdTable[fd].offset
             from == began[fd]
             m == ToRead(fd, n)
             got == NodeRead(f, at, m)
             d == [fdTable[fd] EXCEPT !.offset = at + Len(got)]
  <1>1. /\ fdTable[fd] \in [used : BOOLEAN, inode : Nat, offset : Nat] /\ n \in Nat
        /\ FdRight(fdTable[fd], from, bytes[fd]) /\ from \in Nat
    BY FilesAssumption, FilesInvFd DEF FilesTypes
  <1>2. /\ fdTable' = [fdTable EXCEPT ![fd] = d]
        /\ bytes' = [bytes EXCEPT ![fd] = bytes[fd] \o got]
        /\ began' = began
    BY DEF ReadFd
  <1>3. /\ f \in Inode /\ f \in Nat /\ at \in Nat /\ from <= at /\ at < Layout[f].size
        /\ Layout[f].size \in Nat
        /\ bytes[fd] = [k \in 1..(at - from) |-> FileByte(f, from + k - 1)]
    BY <1>1, FilesAssumption DEF ReadFd, FdRight, Between, ImageWellFormed
  <1>4. m \in Nat /\ at + m <= Layout[f].size
    <2>1. {n, Layout[f].size - at} \subseteq Nat /\ {n, Layout[f].size - at} # {}
      BY <1>1, <1>3
    <2>2. m = Min({n, Layout[f].size - at})
      BY DEF ToRead
    <2>3. m \in {n, Layout[f].size - at} /\ m <= Layout[f].size - at
      <3> HIDE DEF m, f, at
      <3> QED BY <2>1, <2>2, MinLeast
    <2> HIDE DEF m
    <2> QED BY <1>3, <2>1, <2>3
  <1>5. began' = [began EXCEPT ![fd] = from]
    BY <1>2, FilesInvFd DEF FilesTypes
  <1> HIDE DEF f, at, from, m, d
  <1>6. got = Slice(FileOf(f), at, m)
    BY <1>3, <1>4, NodeReadRight
  <1> HIDE DEF got
  <1>7. PICK c \in Nat : c = at - from
    BY <1>1, <1>3
  <1>8. bytes[fd] = Slice(FileOf(f), from, c)
    BY <1>1, <1>3, <1>7 DEF Slice, FileOf
  <1>9. bytes[fd] \o got = Slice(FileOf(f), from, m + c)
    <2>1. from + c = at
      BY <1>1, <1>3, <1>7
    <2>2. SlicesJoin(FileOf(f), from, c, m)
      BY <1>1, <1>3, <1>4, <1>7, FileJoins
    <2> QED BY <1>6, <1>8, <2>1, <2>2, Zenon DEF SlicesJoin
  <1>10. Len(got) = m
    BY <1>4, <1>6 DEF Slice
  <1>11. d.inode = f /\ d.offset = at + m /\ d \in [used : BOOLEAN, inode : Nat, offset : Nat]
    <2>1. PICK e \in Nat : e = at + m
      BY <1>3, <1>4
    <2>2. d = [fdTable[fd] EXCEPT !.offset = e]
      BY <1>10, <2>1, Zenon DEF d
    <2> QED BY <1>1, <2>1, <2>2 DEF f
  <1>12. (at + m) - from = m + c /\ from <= at + m
    BY <1>1, <1>3, <1>4, <1>7
  <1>13. bytes[fd] \o got = Between(f, from, at + m)
    <2>1. \A k \in 1..(m + c) : from + k - 1 \in Nat
      BY <1>1
    <2>2. Slice(FileOf(f), from, m + c) = [k \in 1..(m + c) |-> FileByte(f, from + k - 1)]
      BY <2>1 DEF Slice, FileOf
    <2>3. Between(f, from, at + m) = [k \in 1..(m + c) |-> FileByte(f, from + k - 1)]
      BY <1>12, Zenon DEF Between
    <2> QED BY <1>9, <2>2, <2>3, Zenon
  <1>14. FdRight(d, from, bytes[fd] \o got)
    <2>1. bytes[fd] \o got = Between(d.inode, from, d.offset)
      BY <1>11, <1>13, Zenon
    <2>2. d.inode \in Inode /\ from <= d.offset /\ d.offset <= Layout[d.inode].size
      BY <1>3, <1>4, <1>11, <1>12
    <2> QED BY <2>1, <2>2, Zenon DEF FdRight
  <1> QED BY <1>1, <1>2, <1>5, <1>11, <1>14, OneFd

\* The descriptors stand in their files and what was read through them is right.
THEOREM FilesInvariant == FilesSpec => []FilesInv
  <1>1. FilesInv /\ [FilesNext]_fileVars => FilesInv'
    <2> SUFFICES ASSUME FilesInv, [FilesNext]_fileVars PROVE FilesInv'
      OBVIOUS
    <2>1. ASSUME NEW f \in Inode, Open(f) PROVE FilesInv'
      BY <2>1, OpenInv
    <2>2. ASSUME NEW fd \in Fd, Close(fd) PROVE FilesInv'
      BY <2>2, CloseInv
    <2>3. ASSUME NEW fd \in Fd, NEW n \in ReadLen, ReadFd(fd, n) PROVE FilesInv'
      BY <2>3, ReadFdInv
    <2>4. ASSUME NEW fd \in Fd, NEW o \in SeekTo, Lseek(fd, o) PROVE FilesInv'
      BY <2>4, LseekInv
    <2>5. CASE UNCHANGED fileVars
      BY <2>5 DEF fileVars, FilesInv, FilesTypes, Positions, ReadsContiguous, Fd
    <2> QED BY <2>1, <2>2, <2>3, <2>4, <2>5 DEF FilesNext
  <1> QED BY FilesInitInv, <1>1, PTL DEF FilesSpec

\* Reads deliver the bytes of the file in order, without gap or repetition.
THEOREM FilesReadsContiguous == FilesSpec => []ReadsContiguous
  <1>1. FilesInv => ReadsContiguous
    BY DEF FilesInv
  <1> QED BY FilesInvariant, <1>1, PTL
=============================================================================
