----------------------------- MODULE VmmProofs -----------------------------
(***************************************************************************)
(* Frames are never shared, lost or freed twice, and page tables over      *)
(* recycled frames implement separate address spaces, for every number of  *)
(* processes, pages and frames and whatever is in the memory map.          *)
(***************************************************************************)
EXTENDS Vmm, WellFoundedInduction, TLAPS

\* The places of the address spaces that can hold a frame, and what they hold.
Place ==
    ({"root", "held"} \X Proc) \cup ({"table"} \X (Proc \X Region))
      \cup ({"page"} \X (Proc \X Page))

HoldAt(rt, tb, pt, hd, s) ==
    CASE s[1] = "root"  -> rt[s[2]]
      [] s[1] = "held"  -> hd[s[2]]
      [] s[1] = "table" -> tb[s[2][1]][s[2][2]]
      [] s[1] = "page"  -> pt[s[2][1]][s[2][2]]

HoldsOf(rt, tb, pt, hd) == [s \in Place |-> HoldAt(rt, tb, pt, hd, s)]

Holds == HoldsOf(root, table, pte, held)

\* H gives frames to places, A are freed frames, F new ones and L forgotten ones:
\* every frame is in exactly one of these.
Partition(H, A, F, L) ==
    /\ \A s, t \in DOMAIN H : H[s] # Nil /\ H[s] = H[t] => s = t
    /\ \A s \in DOMAIN H : H[s] # Nil => H[s] \notin A /\ H[s] \notin F /\ H[s] \notin L
    /\ A \cap F = {} /\ A \cap L = {} /\ F \cap L = {}
    /\ \A f \in Frame : f \in A \/ f \in F \/ f \in L \/ \E s \in DOMAIN H : H[s] = f
    /\ A \cup F \cup L \subseteq Frame
    /\ \A s \in DOMAIN H : H[s] \in Frame \cup {Nil}

Disjoint(ranges) ==
    \A i, j \in DOMAIN ranges : i # j => FramesOf(ranges[i]) \cap FramesOf(ranges[j]) = {}

OwnerInv ==
    /\ IsInjective(avail)
    /\ Disjoint(free_ranges)
    /\ Partition(Holds, Range(avail), FramesIn(free_ranges), lost)

\* The place in the program of the kernel says which frames there are.
SpaceInv(p) ==
    /\ pc[p] \in {"none", "entry"} =>
         /\ root[p] = Nil
         /\ \A r \in Region : table[p][r] = Nil
    /\ pc[p] \notin {"none", "entry"} => root[p] # Nil
    /\ \A v \in Page : pte[p][v] # Nil => table[p][RegionOf(v)] # Nil
    /\ held[p] # Nil => pc[p] = "map" /\ ~HasTable(p)

\* There is a page to map or unmap.
TodoInv(p) ==
    /\ pc[p] \in {"map", "unmap"} => todo[p] # <<>>
    /\ \A i \in DOMAIN todo[p] : todo[p][i][1] < todo[p][i][2]

\* A fork has a copy of its own, and what it has copied is the same as in the parent.
ForkInv(p) ==
    pc[p] = "fork" =>
      /\ child[p] \in Proc /\ pc[child[p]] = "copy"
      /\ \A q \in Proc : pc[q] = "fork" /\ child[q] = child[p] => q = p
      /\ \A v \in Page : pte[child[p]][v] # Nil =>
           pte[p][v] # Nil /\ content[pte[child[p]][v]] = content[pte[p][v]]

\* The pages of the heap, and the pages still to be mapped or unmapped.
HeapPage == {v \in Page : v * PageSize \in HeapStart .. MaxBreak - 1}

In(range, v) == range[1] <= v /\ v < range[2]

Queued(p, v) == \E i \in DOMAIN todo[p] : In(todo[p][i], v)

\* brk has one range to do; how far it has got is in that range.
BreakInv(p) ==
    /\ pc[p] \in {"user", "fork"} =>
         /\ heapBreak[p] \in HeapStart .. MaxBreak
         /\ \A v \in HeapPage : pte[p][v] # Nil <=> v * PageSize < heapBreak[p]
    /\ pc[p] \in {"map", "unmap"} =>
         /\ goal[p] \in HeapStart .. MaxBreak
         /\ \A i \in DOMAIN todo[p], v \in HeapPage : In(todo[p][i], v) => i = 1
    /\ pc[p] = "map" => \A v \in HeapPage :
         /\ Queued(p, v) => v * PageSize < goal[p]
         /\ pte[p][v] # Nil <=> v * PageSize < goal[p] /\ ~Queued(p, v)
    /\ pc[p] = "unmap" => \A v \in HeapPage :
         /\ Queued(p, v) => ~(v * PageSize < goal[p])
         /\ pte[p][v] # Nil <=> v * PageSize < goal[p] \/ Queued(p, v)

VmmInv ==
    /\ VmmTypeOK
    /\ OwnerInv
    /\ \A p \in Proc : SpaceInv(p) /\ TodoInv(p) /\ ForkInv(p) /\ BreakInv(p)
-----------------------------------------------------------------------------
(***************************************************************************)
(* Numbers.                                                                *)
(***************************************************************************)

\* A set of natural numbers has a least one.
LEMMA Least ==
    ASSUME NEW T, T \subseteq Nat, T # {}
    PROVE  \E x \in T : \A y \in T : x <= y
  <1>1. IsWellFoundedOn(OpToRel(<, Nat), Nat)
    BY NatLessThanWellFounded, Zenon
  <1>2. PICK x \in T : \A y \in T : ~(<<y, x>> \in OpToRel(<, Nat))
    <2>1. \E x \in T : \A y \in T : ~(<<y, x>> \in OpToRel(<, Nat))
      BY <1>1, WFMin, Zenon
    <2> QED BY <2>1
  <1>3. ASSUME NEW y \in T PROVE x <= y
    <2>1. x \in Nat /\ y \in Nat
      OBVIOUS
    <2>2. ~(y < x)
      BY <1>2, <2>1, Zenon DEF OpToRel
    <2> QED BY <2>1, <2>2
  <1> QED BY <1>3

\* The minimum of a set of numbers is one of them.
LEMMA MinIn == ASSUME NEW T, T \subseteq Nat, T # {} PROVE Min(T) \in T
  BY Least DEF Min

\* A page starts below b exactly if it is one of the first RoundUpPage(b).
LEMMA RoundUp ==
    ASSUME NEW b \in Nat
    PROVE  /\ RoundUpPage(b) \in Nat
           /\ \A v \in Nat : v * PageSize < b <=> v < RoundUpPage(b)
  <1>1. PageSize \in Nat /\ PageSize >= 1
    BY VmmAssumption
  <1>2. PICK q \in Int : q = (b + PageSize - 1) \div PageSize
    BY <1>1
  <1>3. q * PageSize <= b + PageSize - 1 /\ b + PageSize - 1 < q * PageSize + PageSize
    BY <1>1, <1>2
  <1>4. q >= 0
    BY <1>1, <1>3
  <1>5. ASSUME NEW v \in Nat, v < q PROVE v * PageSize < b
    <2>1. (q - v - 1) * PageSize >= 0
      BY <1>1, <1>5
    <2>2. v * PageSize + PageSize <= q * PageSize
      BY <1>1, <2>1
    <2>3. v * PageSize \in Int /\ q * PageSize \in Int
      BY <1>1
    <2> QED BY <1>1, <1>3, <2>2, <2>3
  <1>6. ASSUME NEW v \in Nat, ~(v < q) PROVE ~(v * PageSize < b)
    <2>1. (v - q) * PageSize >= 0
      BY <1>1, <1>6
    <2>2. v * PageSize >= q * PageSize
      BY <1>1, <2>1
    <2>3. v * PageSize \in Int /\ q * PageSize \in Int
      BY <1>1
    <2> QED BY <1>1, <1>3, <2>2, <2>3
  <1> QED BY <1>2, <1>4, <1>5, <1>6 DEF RoundUpPage

\* Breaks end among the pages.
LEMMA BreakPages ==
    ASSUME NEW b \in 0 .. MaxBreak
    PROVE  RoundUpPage(b) \in 0 .. NPages
  <1>1. b \in Nat /\ b <= NPages * PageSize /\ NPages \in Nat
    BY VmmAssumption
  <1>2. ~(NPages * PageSize < b)
    BY <1>1, VmmAssumption
  <1>3. RoundUpPage(b) \in Nat /\ ~(NPages < RoundUpPage(b))
    BY <1>1, <1>2, RoundUp
  <1> QED BY <1>1, <1>3

\* A page lies under a table of the root.
LEMMA Regions == \A v \in Page : RegionOf(v) \in Region
  BY DEF Region

\* Tables are numbered from 0.
LEMMA RegionsNat == Region \subseteq Nat
  <1>1. ASSUME NEW v \in Nat, NEW n \in Nat \ {0} PROVE v \div n \in Nat
    <2>1. PICK q \in Int : q = v \div n
      OBVIOUS
    <2>2. v < q * n + n
      BY <2>1
    <2>3. q >= 0
      BY <2>2
    <2> QED BY <2>1, <2>3
  <1>2. ASSUME NEW v \in Page PROVE RegionOf(v) \in Nat
    <2>1. v \in Nat /\ TableSize \in Nat \ {0}
      BY VmmAssumption DEF Page
    <2> QED BY <1>1, <2>1 DEF RegionOf
  <1> QED BY <1>2 DEF Region
-----------------------------------------------------------------------------
(***************************************************************************)
(* Frames change hands.                                                    *)
(***************************************************************************)

\* A place that held none takes a free frame.
LEMMA TakeFrame ==
    ASSUME NEW S, NEW H \in [S -> Frame \cup {Nil}], NEW A, NEW F, NEW L, Partition(H, A, F, L),
           NEW s \in S, H[s] = Nil, NEW f \in A \cup F
    PROVE  Partition([H EXCEPT ![s] = f], A \ {f}, F \ {f}, L)
  BY VmmAssumption DEF Partition

\* A place gives its frame back.
LEMMA GiveFrame ==
    ASSUME NEW S, NEW H \in [S -> Frame \cup {Nil}], NEW A, NEW F, NEW L, Partition(H, A, F, L),
           NEW s \in S, H[s] # Nil
    PROVE  Partition([H EXCEPT ![s] = Nil], A \cup {H[s]}, F, L)
  BY VmmAssumption DEF Partition

\* The four kinds of places.
LEMMA PlaceCases ==
    ASSUME NEW s \in Place
    PROVE  \/ \E p \in Proc : s = <<"root", p>>
           \/ \E p \in Proc : s = <<"held", p>>
           \/ \E p \in Proc, r \in Region : s = <<"table", <<p, r>> >>
           \/ \E p \in Proc, v \in Page : s = <<"page", <<p, v>> >>
  BY DEF Place

\* Roots, held frames, tables and pages are places.
LEMMA Places ==
    /\ \A p \in Proc : <<"root", p>> \in Place /\ <<"held", p>> \in Place
    /\ \A p \in Proc, r \in Region : <<"table", <<p, r>> >> \in Place
    /\ \A p \in Proc, v \in Page : <<"page", <<p, v>> >> \in Place
  BY DEF Place

\* Equality of pairs, as a fact to cite.
LEMMA Pairs == \A a, b, c, d : <<a, b>> = <<c, d>> <=> a = c /\ b = d
  OBVIOUS

\* H holds what the four kinds of entries say.
Agree(H, rt, tb, pt, hd) ==
    /\ H \in [Place -> Frame \cup {Nil}]
    /\ \A s \in Place, p \in Proc : /\ s = <<"root", p>> => H[s] = rt[p]
                                    /\ s = <<"held", p>> => H[s] = hd[p]
    /\ \A s \in Place, p \in Proc, r \in Region : s = <<"table", <<p, r>> >> => H[s] = tb[p][r]
    /\ \A s \in Place, p \in Proc, v \in Page : s = <<"page", <<p, v>> >> => H[s] = pt[p][v]

\* What the places hold agrees with the entries they stand for.
LEMMA HoldsType ==
    ASSUME NEW rt \in [Proc -> Frame \cup {Nil}], NEW hd \in [Proc -> Frame \cup {Nil}],
           NEW tb \in [Proc -> [Region -> Frame \cup {Nil}]],
           NEW pt \in [Proc -> [Page -> Frame \cup {Nil}]]
    PROVE  Agree(HoldsOf(rt, tb, pt, hd), rt, tb, pt, hd)
  <1> DEFINE h(s) == HoldAt(rt, tb, pt, hd, s)
  <1>1. \A s \in Place, p \in Proc : /\ s = <<"root", p>> => h(s) = rt[p]
                                     /\ s = <<"held", p>> => h(s) = hd[p]
    BY DEF HoldAt
  <1>2. \A s \in Place, p \in Proc, r \in Region : s = <<"table", <<p, r>> >> => h(s) = tb[p][r]
    BY DEF HoldAt
  <1>3. \A s \in Place, p \in Proc, v \in Page : s = <<"page", <<p, v>> >> => h(s) = pt[p][v]
    BY DEF HoldAt
  <1> HIDE DEF h
  <1>4. ASSUME NEW s \in Place PROVE h(s) \in Frame \cup {Nil}
    <2>1. CASE \E p \in Proc : s = <<"root", p>> \/ s = <<"held", p>>
      BY <1>1, <2>1
    <2>2. CASE \E p \in Proc, r \in Region : s = <<"table", <<p, r>> >>
      BY <1>2, <2>2
    <2>3. CASE \E p \in Proc, v \in Page : s = <<"page", <<p, v>> >>
      BY <1>3, <2>3
    <2> QED BY <2>1, <2>2, <2>3, PlaceCases
  <1>5. HoldsOf(rt, tb, pt, hd) = [s \in Place |-> h(s)]
    BY DEF HoldsOf, h
  <1> QED BY <1>1, <1>2, <1>3, <1>4, <1>5 DEF Agree

\* One entry, one place changes.
Entry(new, old, q, f) == new = [old EXCEPT ![q] = f]

Entry2(new, old, q, z, f) == new = [old EXCEPT ![q][z] = f]

OnePlace(G, H, old, f) == \E s \in Place : H[s] = old /\ G = [H EXCEPT ![s] = f]

\* An entry of a leaf table is one place.
LEMMA HoldsPage ==
    ASSUME NEW rt \in [Proc -> Frame \cup {Nil}], NEW hd \in [Proc -> Frame \cup {Nil}],
           NEW tb \in [Proc -> [Region -> Frame \cup {Nil}]],
           NEW pt \in [Proc -> [Page -> Frame \cup {Nil}]],
           NEW q \in Proc, NEW z \in Page, NEW f \in Frame \cup {Nil},
           NEW new, Entry2(new, pt, q, z, f)
    PROVE  OnePlace(HoldsOf(rt, tb, new, hd), HoldsOf(rt, tb, pt, hd), pt[q][z], f)
  <1>1. PICK s0 : s0 = <<"page", <<q, z>> >>
    OBVIOUS
  <1>2. PICK G, H : /\ G = HoldsOf(rt, tb, new, hd) /\ H = HoldsOf(rt, tb, pt, hd)
    OBVIOUS
  <1>3. new \in [Proc -> [Page -> Frame \cup {Nil}]]
    BY DEF Entry, Entry2
  <1>4. Agree(G, rt, tb, new, hd) /\ Agree(H, rt, tb, pt, hd) /\ s0 \in Place
    BY <1>1, <1>2, <1>3, HoldsType, Places
  <1>5. ASSUME NEW s \in Place PROVE G[s] = IF s = s0 THEN f ELSE H[s]
    <2>1. CASE \E p \in Proc : s = <<"root", p>> \/ s = <<"held", p>>
      BY <1>1, <1>4, <2>1, Pairs DEF Agree, Entry, Entry2
    <2>2. CASE \E p \in Proc, r \in Region : s = <<"table", <<p, r>> >>
      BY <1>1, <1>4, <2>2, Pairs DEF Agree, Entry, Entry2
    <2>3. CASE \E p \in Proc, v \in Page : s = <<"page", <<p, v>> >>
      BY <1>1, <1>4, <2>3, Pairs DEF Agree, Entry, Entry2
    <2> QED BY <2>1, <2>2, <2>3, PlaceCases
  <1>6. G = [H EXCEPT ![s0] = f] /\ H[s0] = pt[q][z]
    BY <1>1, <1>4, <1>5 DEF Agree
  <1> QED BY <1>2, <1>4, <1>6 DEF OnePlace

\* An entry of a root is one place.
LEMMA HoldsTable ==
    ASSUME NEW rt \in [Proc -> Frame \cup {Nil}], NEW hd \in [Proc -> Frame \cup {Nil}],
           NEW tb \in [Proc -> [Region -> Frame \cup {Nil}]],
           NEW pt \in [Proc -> [Page -> Frame \cup {Nil}]],
           NEW q \in Proc, NEW z \in Region, NEW f \in Frame \cup {Nil},
           NEW new, Entry2(new, tb, q, z, f)
    PROVE  OnePlace(HoldsOf(rt, new, pt, hd), HoldsOf(rt, tb, pt, hd), tb[q][z], f)
  <1>1. PICK s0 : s0 = <<"table", <<q, z>> >>
    OBVIOUS
  <1>2. PICK G, H : /\ G = HoldsOf(rt, new, pt, hd) /\ H = HoldsOf(rt, tb, pt, hd)
    OBVIOUS
  <1>3. new \in [Proc -> [Region -> Frame \cup {Nil}]]
    BY DEF Entry, Entry2
  <1>4. Agree(G, rt, new, pt, hd) /\ Agree(H, rt, tb, pt, hd) /\ s0 \in Place
    BY <1>1, <1>2, <1>3, HoldsType, Places
  <1>5. ASSUME NEW s \in Place PROVE G[s] = IF s = s0 THEN f ELSE H[s]
    <2>1. CASE \E p \in Proc : s = <<"root", p>> \/ s = <<"held", p>>
      BY <1>1, <1>4, <2>1, Pairs DEF Agree, Entry, Entry2
    <2>2. CASE \E p \in Proc, r \in Region : s = <<"table", <<p, r>> >>
      BY <1>1, <1>4, <2>2, Pairs DEF Agree, Entry, Entry2
    <2>3. CASE \E p \in Proc, v \in Page : s = <<"page", <<p, v>> >>
      BY <1>1, <1>4, <2>3, Pairs DEF Agree, Entry, Entry2
    <2> QED BY <2>1, <2>2, <2>3, PlaceCases
  <1>6. G = [H EXCEPT ![s0] = f] /\ H[s0] = tb[q][z]
    BY <1>1, <1>4, <1>5 DEF Agree
  <1> QED BY <1>2, <1>4, <1>6 DEF OnePlace

\* A cr3 is one place.
LEMMA HoldsRoot ==
    ASSUME NEW rt \in [Proc -> Frame \cup {Nil}], NEW hd \in [Proc -> Frame \cup {Nil}],
           NEW tb \in [Proc -> [Region -> Frame \cup {Nil}]],
           NEW pt \in [Proc -> [Page -> Frame \cup {Nil}]],
           NEW q \in Proc, NEW f \in Frame \cup {Nil},
           NEW new, Entry(new, rt, q, f)
    PROVE  OnePlace(HoldsOf(new, tb, pt, hd), HoldsOf(rt, tb, pt, hd), rt[q], f)
  <1>1. PICK s0 : s0 = <<"root", q>>
    OBVIOUS
  <1>2. PICK G, H : /\ G = HoldsOf(new, tb, pt, hd) /\ H = HoldsOf(rt, tb, pt, hd)
    OBVIOUS
  <1>3. new \in [Proc -> Frame \cup {Nil}]
    BY DEF Entry, Entry2
  <1>4. Agree(G, new, tb, pt, hd) /\ Agree(H, rt, tb, pt, hd) /\ s0 \in Place
    BY <1>1, <1>2, <1>3, HoldsType, Places
  <1>5. ASSUME NEW s \in Place PROVE G[s] = IF s = s0 THEN f ELSE H[s]
    <2>1. CASE \E p \in Proc : s = <<"root", p>> \/ s = <<"held", p>>
      BY <1>1, <1>4, <2>1, Pairs DEF Agree, Entry, Entry2
    <2>2. CASE \E p \in Proc, r \in Region : s = <<"table", <<p, r>> >>
      BY <1>1, <1>4, <2>2, Pairs DEF Agree, Entry, Entry2
    <2>3. CASE \E p \in Proc, v \in Page : s = <<"page", <<p, v>> >>
      BY <1>1, <1>4, <2>3, Pairs DEF Agree, Entry, Entry2
    <2> QED BY <2>1, <2>2, <2>3, PlaceCases
  <1>6. G = [H EXCEPT ![s0] = f] /\ H[s0] = rt[q]
    BY <1>1, <1>4, <1>5 DEF Agree
  <1> QED BY <1>2, <1>4, <1>6 DEF OnePlace

\* A frame held by map_range is one place.
LEMMA HoldsHeld ==
    ASSUME NEW rt \in [Proc -> Frame \cup {Nil}], NEW hd \in [Proc -> Frame \cup {Nil}],
           NEW tb \in [Proc -> [Region -> Frame \cup {Nil}]],
           NEW pt \in [Proc -> [Page -> Frame \cup {Nil}]],
           NEW q \in Proc, NEW f \in Frame \cup {Nil},
           NEW new, Entry(new, hd, q, f)
    PROVE  OnePlace(HoldsOf(rt, tb, pt, new), HoldsOf(rt, tb, pt, hd), hd[q], f)
  <1>1. PICK s0 : s0 = <<"held", q>>
    OBVIOUS
  <1>2. PICK G, H : /\ G = HoldsOf(rt, tb, pt, new) /\ H = HoldsOf(rt, tb, pt, hd)
    OBVIOUS
  <1>3. new \in [Proc -> Frame \cup {Nil}]
    BY DEF Entry, Entry2
  <1>4. Agree(G, rt, tb, pt, new) /\ Agree(H, rt, tb, pt, hd) /\ s0 \in Place
    BY <1>1, <1>2, <1>3, HoldsType, Places
  <1>5. ASSUME NEW s \in Place PROVE G[s] = IF s = s0 THEN f ELSE H[s]
    <2>1. CASE \E p \in Proc : s = <<"root", p>> \/ s = <<"held", p>>
      BY <1>1, <1>4, <2>1, Pairs DEF Agree, Entry, Entry2
    <2>2. CASE \E p \in Proc, r \in Region : s = <<"table", <<p, r>> >>
      BY <1>1, <1>4, <2>2, Pairs DEF Agree, Entry, Entry2
    <2>3. CASE \E p \in Proc, v \in Page : s = <<"page", <<p, v>> >>
      BY <1>1, <1>4, <2>3, Pairs DEF Agree, Entry, Entry2
    <2> QED BY <2>1, <2>2, <2>3, PlaceCases
  <1>6. G = [H EXCEPT ![s0] = f] /\ H[s0] = hd[q]
    BY <1>1, <1>4, <1>5 DEF Agree
  <1> QED BY <1>2, <1>4, <1>6 DEF OnePlace
-----------------------------------------------------------------------------
(***************************************************************************)
(* alloc and free.                                                         *)
(***************************************************************************)
LEMMA HeadTail ==
    ASSUME NEW S, NEW R \in Seq(S), R # <<>>
    PROVE  /\ Len(R) \in Nat /\ Len(R) >= 1 /\ DOMAIN R = 1 .. Len(R)
           /\ Head(R) = R[1] /\ R[1] \in S
           /\ Tail(R) \in Seq(S) /\ DOMAIN Tail(R) = 1 .. Len(R) - 1
           /\ Len(Tail(R)) = Len(R) - 1
           /\ \A i \in 1 .. Len(R) - 1 : Tail(R)[i] = R[i + 1]
  OBVIOUS

\* A freed frame in front of the list.
LEMMA Push ==
    ASSUME NEW S, NEW R \in Seq(S), NEW e \in S
    PROVE  /\ <<e>> \o R \in Seq(S) /\ DOMAIN (<<e>> \o R) = 1 .. Len(R) + 1
           /\ (<<e>> \o R)[1] = e
           /\ \A i \in 1 .. Len(R) : (<<e>> \o R)[i + 1] = R[i]
           /\ Len(R) \in Nat /\ DOMAIN R = 1 .. Len(R)
  OBVIOUS

\* An index is the first one or one after it.
LEMMA FirstOrLater ==
    ASSUME NEW n \in Nat, n >= 1, NEW i \in 1 .. n
    PROVE  i = 1 \/ \E j \in 1 .. n - 1 : i = j + 1
  <1>1. i # 1 => i - 1 \in 1 .. n - 1 /\ i = (i - 1) + 1
    OBVIOUS
  <1> QED BY <1>1

\* A freed frame is taken off the list.
LEMMA TailFacts ==
    ASSUME NEW S, NEW R \in Seq(S), R # <<>>, IsInjective(R)
    PROVE  /\ R[1] \in Range(R) /\ Range(Tail(R)) = Range(R) \ {R[1]} /\ IsInjective(Tail(R))
  <1>1. /\ Len(R) \in Nat /\ Len(R) >= 1 /\ DOMAIN R = 1 .. Len(R)
        /\ DOMAIN Tail(R) = 1 .. Len(R) - 1
        /\ \A i \in 1 .. Len(R) - 1 : Tail(R)[i] = R[i + 1]
    BY HeadTail
  <1>2. PICK T : T = Tail(R)
    OBVIOUS
  <1>3. \A i, j \in 1 .. Len(R) : R[i] = R[j] => i = j
    BY <1>1 DEF IsInjective
  <1>4. IsInjective(T)
    BY <1>1, <1>2, <1>3 DEF IsInjective
  <1>5. \A x : x \in Range(R) <=> \E i \in 1 .. Len(R) : x = R[i]
    BY <1>1 DEF Range
  <1>6. \A x : x \in Range(T) <=> \E i \in 1 .. Len(R) - 1 : x = R[i + 1]
    BY <1>1, <1>2 DEF Range
  <1>7. \A i \in 1 .. Len(R) - 1 : i + 1 \in 1 .. Len(R) /\ i + 1 # 1 /\ 1 \in 1 .. Len(R)
    BY <1>1
  <1>8. Range(T) \subseteq Range(R) \ {R[1]}
    BY <1>3, <1>5, <1>6, <1>7
  <1>9. ASSUME NEW x \in Range(R), x # R[1] PROVE x \in Range(T)
    <2>1. PICK i \in 1 .. Len(R) : x = R[i]
      BY <1>5
    <2> QED BY <1>1, <1>6, <1>9, <2>1, FirstOrLater
  <1> QED BY <1>1, <1>2, <1>4, <1>5, <1>8, <1>9

\* A frame is put on the list.
LEMMA PushFacts ==
    ASSUME NEW S, NEW R \in Seq(S), NEW e \in S, e \notin Range(R), IsInjective(R)
    PROVE  /\ Range(<<e>> \o R) = Range(R) \cup {e} /\ IsInjective(<<e>> \o R)
  <1>1. PICK T : T = <<e>> \o R
    OBVIOUS
  <1>2. /\ DOMAIN T = 1 .. Len(R) + 1 /\ T[1] = e /\ Len(R) \in Nat /\ DOMAIN R = 1 .. Len(R)
        /\ \A i \in 1 .. Len(R) : T[i + 1] = R[i]
    BY <1>1, Push
  <1>3. \A i \in 1 .. Len(R) + 1 : i = 1 \/ \E j \in 1 .. Len(R) : i = j + 1
    <2>1. Len(R) + 1 \in Nat /\ Len(R) + 1 >= 1 /\ (Len(R) + 1) - 1 = Len(R)
      BY <1>2
    <2> QED BY <2>1, FirstOrLater
  <1>4. \A i \in 1 .. Len(R) : i + 1 \in 1 .. Len(R) + 1 /\ 1 \in 1 .. Len(R) + 1
    BY <1>2
  <1>5. 1 \in 1 .. Len(R) + 1
    BY <1>2
  <1>6. \A x : x \in Range(R) <=> \E i \in 1 .. Len(R) : x = R[i]
    BY <1>2 DEF Range
  <1>7. \A x : x \in Range(T) <=> \E i \in 1 .. Len(R) + 1 : x = T[i]
    BY <1>2 DEF Range
  <1>8. Range(T) = Range(R) \cup {e}
    <2>1. ASSUME NEW x \in Range(T) PROVE x \in Range(R) \cup {e}
      BY <1>2, <1>3, <1>6, <1>7
    <2>2. ASSUME NEW x \in Range(R) PROVE x \in Range(T)
      BY <1>2, <1>4, <1>6, <1>7
    <2>3. e \in Range(T)
      BY <1>2, <1>5, <1>7
    <2> QED BY <2>1, <2>2, <2>3
  <1>9. ASSUME NEW i \in 1 .. Len(R) + 1, NEW j \in 1 .. Len(R) + 1, T[i] = T[j] PROVE i = j
    <2>1. CASE i = 1 /\ j = 1
      BY <2>1
    <2>2. CASE i # 1 /\ j # 1
      <3>1. PICK i1 \in 1 .. Len(R), j1 \in 1 .. Len(R) : i = i1 + 1 /\ j = j1 + 1
        BY <1>3, <2>2
      <3>2. R[i1] = R[j1]
        BY <1>2, <1>9, <3>1
      <3> QED BY <1>2, <3>1, <3>2 DEF IsInjective
    <2>3. CASE i = 1 /\ j # 1
      BY <1>2, <1>3, <1>6, <1>9, <2>3
    <2>4. CASE i # 1 /\ j = 1
      BY <1>2, <1>3, <1>6, <1>9, <2>4
    <2> QED BY <2>1, <2>2, <2>3, <2>4
  <1>10. IsInjective(T)
    BY <1>2, <1>9 DEF IsInjective
  <1> QED BY <1>1, <1>8, <1>10

FrameRange == [base: Nat, length: Nat \ {0}]

\* The new frames are those of the ranges.
LEMMA InFrames ==
    ASSUME NEW R \in Seq(FrameRange)
    PROVE  \A g : g \in FramesIn(R) <=> \E i \in DOMAIN R : g \in FramesOf(R[i])
  BY DEF FramesIn

\* Arithmetic of lengths, as a fact to cite.
LEMMA PlusOne == ASSUME NEW n \in Nat, NEW m, m = n - 1 PROVE m + 1 = n
  OBVIOUS

\* A new frame is cut off the first range: the rest of the range has one frame less.
LEMMA CutFacts ==
    ASSUME NEW R \in Seq(FrameRange), R # <<>>, Disjoint(R), NEW f, f = R[1].base,
           NEW C, \/ R[1].length = 1 /\ C = Tail(R)
                  \/ /\ R[1].length # 1
                     /\ C = <<[base |-> R[1].base + 1, length |-> R[1].length - 1]>> \o Tail(R)
    PROVE  /\ C \in Seq(FrameRange) /\ Disjoint(C)
           /\ f \in FramesIn(R) /\ FramesIn(C) = FramesIn(R) \ {f}
  <1>1. /\ Len(R) \in Nat /\ Len(R) >= 1 /\ DOMAIN R = 1 .. Len(R) /\ R[1] \in FrameRange
        /\ Tail(R) \in Seq(FrameRange) /\ DOMAIN Tail(R) = 1 .. Len(R) - 1
        /\ \A i \in 1 .. Len(R) - 1 : Tail(R)[i] = R[i + 1]
    BY HeadTail
  <1>2. PICK T : T = Tail(R)
    OBVIOUS
  <1>3. 1 \in DOMAIN R /\ \A i \in 1 .. Len(R) - 1 : i + 1 \in DOMAIN R /\ i + 1 # 1
    BY <1>1
  <1>4. \A i \in DOMAIN R : i = 1 \/ \E j \in 1 .. Len(R) - 1 : i = j + 1
    BY <1>1, FirstOrLater
  <1>5. f \in FramesOf(R[1])
    BY <1>1 DEF FramesOf, FrameRange
  <1>6. \A i \in 1 .. Len(R) - 1 : FramesOf(R[1]) \cap FramesOf(R[i + 1]) = {}
    BY <1>3 DEF Disjoint
  <1>7. \A g : g \in FramesIn(R) <=> \/ g \in FramesOf(R[1])
                                     \/ \E i \in 1 .. Len(R) - 1 : g \in FramesOf(R[i + 1])
    BY <1>3, <1>4, InFrames
  <1>8. \A g : g \in FramesIn(T) <=> \E i \in 1 .. Len(R) - 1 : g \in FramesOf(R[i + 1])
    BY <1>1, <1>2, InFrames
  <1>9. Disjoint(T)
    <2>1. ASSUME NEW i \in 1 .. Len(R) - 1, NEW j \in 1 .. Len(R) - 1, i # j
          PROVE  FramesOf(R[i + 1]) \cap FramesOf(R[j + 1]) = {}
      <3>1. i + 1 # j + 1
        BY <1>1, <2>1
      <3> QED BY <1>3, <3>1 DEF Disjoint
    <2> QED BY <1>1, <1>2, <2>1 DEF Disjoint
  <1>10. CASE R[1].length = 1 /\ C = T
    <2>1. \A g : g \in FramesOf(R[1]) <=> g = f
      BY <1>1, <1>10 DEF FramesOf, FrameRange
    <2>2. FramesIn(C) = FramesIn(R) \ {f}
      BY <1>5, <1>6, <1>7, <1>8, <1>10, <2>1
    <2> QED BY <1>1, <1>2, <1>5, <1>7, <1>9, <1>10, <2>2
  <1>11. CASE R[1].length # 1 /\ C = <<[base |-> R[1].base + 1, length |-> R[1].length - 1]>> \o T
    <2>1. PICK e : e = [base |-> R[1].base + 1, length |-> R[1].length - 1]
      BY Zenon
    <2>0. R[1].length # 1 /\ R[1] \in FrameRange
      BY <1>1, <1>11
    <2>2. /\ R[1].base \in Nat /\ R[1].length \in Nat /\ R[1].length > 1
      BY <2>0 DEF FrameRange
    <2>3. e \in FrameRange /\ e.base = R[1].base + 1 /\ e.length = R[1].length - 1
      BY <2>1, <2>2 DEF FrameRange
    <2>4. \A g : g \in FramesOf(e) <=> g \in FramesOf(R[1]) /\ g # f
      <3>1. PICK b, n : b = R[1].base /\ n = R[1].length
        BY Zenon
      <3>2. b \in Nat /\ n \in Nat /\ n > 1 /\ f = b
        BY <2>2, <3>1
      <3>3. FramesOf(e) = (b + 1) .. ((b + 1) + (n - 1) - 1) /\ FramesOf(R[1]) = b .. (b + n - 1)
        BY <2>3, <3>1 DEF FramesOf
      <3>4. \A g : g \in (b + 1) .. ((b + 1) + (n - 1) - 1) <=> g \in b .. (b + n - 1) /\ g # b
        BY <3>2
      <3> QED BY <3>2, <3>3, <3>4
    <2>12. C = <<e>> \o T
      BY <1>11, <2>1
    <2>5. T \in Seq(FrameRange) /\ Len(T) = Len(R) - 1 /\ C = <<e>> \o T
      BY <1>2, <2>12, HeadTail
    <2>6. /\ C \in Seq(FrameRange) /\ DOMAIN C = 1 .. Len(T) + 1 /\ C[1] = e
          /\ \A i \in 1 .. Len(T) : C[i + 1] = T[i]
      BY <2>3, <2>5, Push
    <2>13. Len(T) + 1 = Len(R) /\ \A i \in 1 .. Len(R) - 1 : T[i] = R[i + 1]
      <3>1. \A i \in 1 .. Len(R) - 1 : T[i] = R[i + 1]
        BY <1>1, <1>2, Zenon
      <3>2. Len(R) \in Nat /\ Len(T) = Len(R) - 1
        BY <1>1, <2>5, Zenon
      <3>3. Len(T) + 1 = Len(R)
        BY <3>2, PlusOne, Zenon
      <3> QED BY <3>1, <3>3
    <2>7. /\ DOMAIN C = DOMAIN R /\ C[1] = e /\ \A i \in 1 .. Len(R) - 1 : C[i + 1] = R[i + 1]
      BY <1>1, <2>5, <2>6, <2>13
    <2>8. \A g : g \in FramesIn(C) <=> \/ g \in FramesOf(e)
                                       \/ \E i \in 1 .. Len(R) - 1 : g \in FramesOf(R[i + 1])
      <3>1. \A g : g \in FramesIn(C) <=> \E i \in DOMAIN R : g \in FramesOf(C[i])
        BY <2>6, <2>7, InFrames
      <3>2. ASSUME NEW g, g \in FramesIn(C)
            PROVE  g \in FramesOf(e) \/ \E i \in 1 .. Len(R) - 1 : g \in FramesOf(R[i + 1])
        <4>1. PICK i \in DOMAIN R : g \in FramesOf(C[i])
          BY <3>1, <3>2
        <4>2. CASE i = 1
          BY <2>7, <4>1, <4>2
        <4>3. ASSUME NEW j \in 1 .. Len(R) - 1, i = j + 1 PROVE g \in FramesOf(R[j + 1])
          <5>1. C[i] = R[j + 1]
            BY <2>7, <4>3
          <5> QED BY <4>1, <5>1
        <4> QED BY <1>4, <4>2, <4>3
      <3>3. ASSUME NEW g, g \in FramesOf(e) PROVE g \in FramesIn(C)
        BY <1>3, <2>7, <3>1, <3>3
      <3>4. ASSUME NEW g, NEW i \in 1 .. Len(R) - 1, g \in FramesOf(R[i + 1]) PROVE g \in FramesIn(C)
        <4>1. PICK j \in DOMAIN R : j = i + 1 /\ C[j] = R[i + 1]
          BY <1>3, <2>7
        <4> QED BY <3>1, <3>4, <4>1
      <3> QED BY <3>2, <3>3, <3>4
    <2>9. FramesIn(C) = FramesIn(R) \ {f}
      BY <1>5, <1>6, <1>7, <2>4, <2>8
    <2>10. \A i \in DOMAIN C : FramesOf(C[i]) \subseteq FramesOf(R[i])
      BY <1>4, <2>4, <2>7
    <2>11. Disjoint(C)
      BY <2>7, <2>10 DEF Disjoint
    <2> QED BY <1>5, <1>7, <2>6, <2>9, <2>11
  <1> QED BY <1>2, <1>10, <1>11

\* alloc takes a frame that is free, and no other leaves the free ones.
LEMMA AllocFacts ==
    ASSUME VmmTypeOK, OwnerInv, NEW f \in Frame, NEW x \in Value, Alloc(f, x)
    PROVE  /\ f \in Range(avail) \cup FramesIn(free_ranges)
           /\ Range(avail') = Range(avail) \ {f}
           /\ FramesIn(free_ranges') = FramesIn(free_ranges) \ {f}
           /\ IsInjective(avail') /\ Disjoint(free_ranges')
           /\ avail' \in Seq(Frame) /\ free_ranges' \in Seq([base: Nat, length: Nat \ {0}])
  <1>1. /\ avail \in Seq(Frame) /\ free_ranges \in Seq(FrameRange)
        /\ IsInjective(avail) /\ Disjoint(free_ranges)
        /\ Range(avail) \cap FramesIn(free_ranges) = {}
    BY DEF VmmTypeOK, FrameRange, OwnerInv, Partition
  <1>2. CASE /\ avail # <<>> /\ f = Head(avail) /\ avail' = Tail(avail)
             /\ UNCHANGED free_ranges
    <2>1. f = avail[1] /\ avail' \in Seq(Frame)
      BY <1>1, <1>2, HeadTail
    <2>2. /\ f \in Range(avail) /\ Range(avail') = Range(avail) \ {f} /\ IsInjective(avail')
      BY <1>1, <1>2, <2>1, TailFacts
    <2>3. FramesIn(free_ranges') = FramesIn(free_ranges) \ {f}
      BY <1>1, <1>2, <2>2
    <2> QED BY <1>1, <1>2, <2>1, <2>2, <2>3 DEF FrameRange
  <1>3. CASE /\ avail = <<>> /\ free_ranges # <<>> /\ f = Head(free_ranges).base
             /\ free_ranges' = CutFrame /\ UNCHANGED avail
    <2>1. /\ free_ranges[1] = Head(free_ranges) /\ free_ranges[1] \in FrameRange
          /\ f = free_ranges[1].base
      BY <1>1, <1>3, HeadTail
    <2>2. free_ranges[1].length \in Nat
          /\ (free_ranges[1].length - 1 = 0 <=> free_ranges[1].length = 1)
      BY <2>1 DEF FrameRange
    <2>3. \/ free_ranges[1].length = 1 /\ free_ranges' = Tail(free_ranges)
          \/ /\ free_ranges[1].length # 1
             /\ free_ranges' = <<[base   |-> free_ranges[1].base + 1,
                                  length |-> free_ranges[1].length - 1]>> \o Tail(free_ranges)
      BY <1>3, <2>1, <2>2 DEF CutFrame
    <2>4. /\ free_ranges' \in Seq(FrameRange) /\ Disjoint(free_ranges')
          /\ f \in FramesIn(free_ranges)
          /\ FramesIn(free_ranges') = FramesIn(free_ranges) \ {f}
      BY <1>1, <1>3, <2>1, <2>3, CutFacts
    <2>5. Range(avail') = Range(avail) \ {f}
      BY <1>1, <1>3, <2>4
    <2> QED BY <1>1, <1>3, <2>4, <2>5 DEF FrameRange
  <1> QED BY <1>2, <1>3 DEF Alloc

\* free adds a frame to the free ones.
LEMMA FreeFacts ==
    ASSUME VmmTypeOK, OwnerInv, NEW f \in Frame, f \notin Range(avail), Free(f)
    PROVE  /\ Range(avail') = Range(avail) \cup {f} /\ IsInjective(avail')
           /\ avail' \in Seq(Frame) /\ free_ranges' = free_ranges
  <1>1. avail \in Seq(Frame) /\ IsInjective(avail) /\ avail' = <<f>> \o avail
    BY DEF VmmTypeOK, OwnerInv, Free
  <1> QED BY <1>1, Push, PushFacts DEF Free
-----------------------------------------------------------------------------
(***************************************************************************)
(* Who holds which frame.                                                  *)
(***************************************************************************)
LEMMA HoldsAgree == ASSUME VmmTypeOK PROVE Agree(Holds, root, table, pte, held)
  BY HoldsType DEF VmmTypeOK, Holds

\* HoldsType of the next state.
LEMMA HoldsAgreeNext ==
    ASSUME VmmTypeOK' PROVE Agree(Holds', root', table', pte', held')
  BY HoldsType DEF VmmTypeOK, Holds

\* One entry of the address spaces changes.
LEMMA PageEntry ==
    ASSUME VmmTypeOK, UNCHANGED <<root, table, held>>, NEW q \in Proc, NEW z \in Page,
           NEW f \in Frame \cup {Nil}, pte' = [pte EXCEPT ![q][z] = f]
    PROVE  \E s \in Place : Holds[s] = pte[q][z] /\ Holds' = [Holds EXCEPT ![s] = f]
  <1>1. /\ root \in [Proc -> Frame \cup {Nil}] /\ held \in [Proc -> Frame \cup {Nil}]
        /\ table \in [Proc -> [Region -> Frame \cup {Nil}]]
        /\ pte \in [Proc -> [Page -> Frame \cup {Nil}]]
    BY DEF VmmTypeOK
  <1>2. Entry2(pte', pte, q, z, f)
    BY DEF Entry, Entry2
  <1>3. OnePlace(HoldsOf(root, table, pte', held), HoldsOf(root, table, pte, held), pte[q][z], f)
    BY <1>1, <1>2, HoldsPage
  <1> QED BY <1>3 DEF OnePlace, Holds

\* The same for an entry of a root, ...
LEMMA TableEntry ==
    ASSUME VmmTypeOK, UNCHANGED <<root, pte, held>>, NEW q \in Proc, NEW z \in Region,
           NEW f \in Frame \cup {Nil}, table' = [table EXCEPT ![q][z] = f]
    PROVE  \E s \in Place : Holds[s] = table[q][z] /\ Holds' = [Holds EXCEPT ![s] = f]
  <1>1. /\ root \in [Proc -> Frame \cup {Nil}] /\ held \in [Proc -> Frame \cup {Nil}]
        /\ table \in [Proc -> [Region -> Frame \cup {Nil}]]
        /\ pte \in [Proc -> [Page -> Frame \cup {Nil}]]
    BY DEF VmmTypeOK
  <1>2. Entry2(table', table, q, z, f)
    BY DEF Entry, Entry2
  <1>3. OnePlace(HoldsOf(root, table', pte, held), HoldsOf(root, table, pte, held), table[q][z], f)
    BY <1>1, <1>2, HoldsTable
  <1> QED BY <1>3 DEF OnePlace, Holds

\* ... for cr3 ...
LEMMA RootEntry ==
    ASSUME VmmTypeOK, UNCHANGED <<table, pte, held>>, NEW q \in Proc,
           NEW f \in Frame \cup {Nil}, root' = [root EXCEPT ![q] = f]
    PROVE  \E s \in Place : Holds[s] = root[q] /\ Holds' = [Holds EXCEPT ![s] = f]
  <1>1. /\ root \in [Proc -> Frame \cup {Nil}] /\ held \in [Proc -> Frame \cup {Nil}]
        /\ table \in [Proc -> [Region -> Frame \cup {Nil}]]
        /\ pte \in [Proc -> [Page -> Frame \cup {Nil}]]
    BY DEF VmmTypeOK
  <1>2. Entry(root', root, q, f)
    BY DEF Entry, Entry2
  <1>3. OnePlace(HoldsOf(root', table, pte, held), HoldsOf(root, table, pte, held), root[q], f)
    BY <1>1, <1>2, HoldsRoot
  <1> QED BY <1>3 DEF OnePlace, Holds

\* ... and for the frame map_range holds.
LEMMA HeldEntry ==
    ASSUME VmmTypeOK, UNCHANGED <<root, table, pte>>, NEW q \in Proc,
           NEW f \in Frame \cup {Nil}, held' = [held EXCEPT ![q] = f]
    PROVE  \E s \in Place : Holds[s] = held[q] /\ Holds' = [Holds EXCEPT ![s] = f]
  <1>1. /\ root \in [Proc -> Frame \cup {Nil}] /\ held \in [Proc -> Frame \cup {Nil}]
        /\ table \in [Proc -> [Region -> Frame \cup {Nil}]]
        /\ pte \in [Proc -> [Page -> Frame \cup {Nil}]]
    BY DEF VmmTypeOK
  <1>2. Entry(held', held, q, f)
    BY DEF Entry, Entry2
  <1>3. OnePlace(HoldsOf(root, table, pte, held'), HoldsOf(root, table, pte, held), held[q], f)
    BY <1>1, <1>2, HoldsHeld
  <1> QED BY <1>3 DEF OnePlace, Holds

\* What a place holds is not free, and no frame is two pages.
LEMMA FrameFacts ==
    ASSUME VmmTypeOK, OwnerInv
    PROVE  /\ \A p, q \in Proc : \A v, w \in Page :
                pte[p][v] # Nil /\ pte[p][v] = pte[q][w] => p = q /\ v = w
           /\ \A p \in Proc, v \in Page : pte[p][v] # Nil =>
                pte[p][v] \notin Range(avail) \cup FramesIn(free_ranges)
           /\ \A p \in Proc, r \in Region : table[p][r] # Nil =>
                table[p][r] \notin Range(avail) \cup FramesIn(free_ranges)
           /\ \A p \in Proc : root[p] # Nil =>
                root[p] \notin Range(avail) \cup FramesIn(free_ranges)
           /\ \A p \in Proc, v \in Page, q \in Proc : pte[p][v] # Nil => pte[p][v] # held[q]
  <1>1. Agree(Holds, root, table, pte, held)
    BY HoldsAgree
  <1>2. Partition(Holds, Range(avail), FramesIn(free_ranges), lost) /\ DOMAIN Holds = Place
    BY <1>1 DEF OwnerInv, Agree
  <1>3. ASSUME NEW p \in Proc, NEW q \in Proc, NEW v \in Page, NEW w \in Page,
               pte[p][v] # Nil, pte[p][v] = pte[q][w]
        PROVE  p = q /\ v = w
    <2>1. PICK s, t : s = <<"page", <<p, v>> >> /\ t = <<"page", <<q, w>> >>
      OBVIOUS
    <2>2. s \in Place /\ t \in Place
      BY <2>1, Places
    <2>3. Holds[s] = pte[p][v] /\ Holds[t] = pte[q][w]
      BY <1>1, <2>1, <2>2 DEF Agree
    <2>4. s = t
      BY <1>2, <1>3, <2>2, <2>3 DEF Partition
    <2> QED BY <2>1, <2>4, Pairs
  <1>4. ASSUME NEW p \in Proc, NEW v \in Page, pte[p][v] # Nil
        PROVE  pte[p][v] \notin Range(avail) \cup FramesIn(free_ranges)
    <2>1. PICK s : s = <<"page", <<p, v>> >>
      OBVIOUS
    <2>2. s \in Place
      BY <2>1, Places
    <2>3. Holds[s] = pte[p][v]
      BY <1>1, <2>1, <2>2 DEF Agree
    <2> QED BY <1>2, <1>4, <2>2, <2>3 DEF Partition
  <1>5. ASSUME NEW p \in Proc, NEW r \in Region, table[p][r] # Nil
        PROVE  table[p][r] \notin Range(avail) \cup FramesIn(free_ranges)
    <2>1. PICK s : s = <<"table", <<p, r>> >>
      OBVIOUS
    <2>2. s \in Place
      BY <2>1, Places
    <2>3. Holds[s] = table[p][r]
      BY <1>1, <2>1, <2>2 DEF Agree
    <2> QED BY <1>2, <1>5, <2>2, <2>3 DEF Partition
  <1>6. ASSUME NEW p \in Proc, root[p] # Nil
        PROVE  root[p] \notin Range(avail) \cup FramesIn(free_ranges)
    <2>1. PICK s : s = <<"root", p>>
      OBVIOUS
    <2>2. s \in Place
      BY <2>1, Places
    <2>3. Holds[s] = root[p]
      BY <1>1, <2>1, <2>2 DEF Agree
    <2> QED BY <1>2, <1>6, <2>2, <2>3 DEF Partition
  <1>7. ASSUME NEW p \in Proc, NEW q \in Proc, NEW v \in Page, pte[p][v] # Nil
        PROVE  pte[p][v] # held[q]
    <2>1. PICK s, t : s = <<"page", <<p, v>> >> /\ t = <<"held", q>>
      OBVIOUS
    <2>2. s \in Place /\ t \in Place
      BY <2>1, Places
    <2>3. Holds[s] = pte[p][v] /\ Holds[t] = held[q]
      BY <1>1, <2>1, <2>2 DEF Agree
    <2>4. s # t
      BY <2>1, Pairs
    <2> QED BY <1>2, <1>7, <2>2, <2>3, <2>4 DEF Partition
  <1> QED BY <1>3, <1>4, <1>5, <1>6, <1>7

\* A step that puts a frame from alloc into an empty place keeps the ownership.
LEMMA OwnerTake ==
    ASSUME VmmTypeOK, OwnerInv, NEW f \in Frame, NEW x \in Value, Alloc(f, x),
           NEW s \in Place, Holds[s] = Nil, Holds' = [Holds EXCEPT ![s] = f], lost' = lost
    PROVE  OwnerInv'
  <1>1. Holds \in [Place -> Frame \cup {Nil}]
    BY HoldsAgree DEF Agree
  <1>2. /\ f \in Range(avail) \cup FramesIn(free_ranges)
        /\ Range(avail') = Range(avail) \ {f}
        /\ FramesIn(free_ranges') = FramesIn(free_ranges) \ {f}
        /\ IsInjective(avail') /\ Disjoint(free_ranges')
    BY AllocFacts
  <1>3. Partition([Holds EXCEPT ![s] = f], Range(avail) \ {f}, FramesIn(free_ranges) \ {f}, lost)
    BY <1>1, <1>2, TakeFrame DEF OwnerInv
  <1> QED BY <1>2, <1>3 DEF OwnerInv

\* So does one that frees the frame of a place and clears the place.
LEMMA OwnerGive ==
    ASSUME VmmTypeOK, OwnerInv, NEW s \in Place, Holds[s] # Nil, Free(Holds[s]),
           Holds' = [Holds EXCEPT ![s] = Nil], lost' = lost
    PROVE  OwnerInv' /\ avail' \in Seq(Frame)
  <1>1. Holds \in [Place -> Frame \cup {Nil}]
    BY HoldsAgree DEF Agree
  <1>2. Holds[s] \in Frame /\ Holds[s] \notin Range(avail)
    BY <1>1 DEF OwnerInv, Partition
  <1>3. /\ Range(avail') = Range(avail) \cup {Holds[s]} /\ IsInjective(avail')
        /\ avail' \in Seq(Frame) /\ free_ranges' = free_ranges
    BY <1>2, FreeFacts
  <1>4. Partition([Holds EXCEPT ![s] = Nil], Range(avail) \cup {Holds[s]},
                  FramesIn(free_ranges), lost)
    BY <1>1, GiveFrame DEF OwnerInv
  <1> QED BY <1>3, <1>4 DEF OwnerInv

\* And one that leaves the frames where they are.
LEMMA OwnerSame ==
    ASSUME OwnerInv, UNCHANGED <<avail, free_ranges, root, table, pte, held, lost>>
    PROVE  OwnerInv'
  <1>1. Holds' = Holds
    BY DEF Holds
  <1> QED BY <1>1 DEF OwnerInv
-----------------------------------------------------------------------------
(***************************************************************************)
(* The ranges to be mapped or unmapped.                                    *)
(***************************************************************************)
RestOf(T) ==
    IF T[1][1] + 1 < T[1][2] THEN << <<T[1][1] + 1, T[1][2]>> >> \o Tail(T) ELSE Tail(T)

PageRanges == (0 .. NPages) \X (0 .. NPages)

\* Doing one page removes that page from the ranges and no other.
LEMMA RestFacts ==
    ASSUME NEW T \in Seq(PageRanges), T # <<>>, \A i \in DOMAIN T : T[i][1] < T[i][2]
    PROVE  /\ T[1][1] \in Page
           /\ RestOf(T) \in Seq(PageRanges)
           /\ \A i \in DOMAIN RestOf(T) : RestOf(T)[i][1] < RestOf(T)[i][2]
           /\ \A v \in Page : (\A i \in DOMAIN T : In(T[i], v) => i = 1) =>
                /\ \A i \in DOMAIN RestOf(T) : In(RestOf(T)[i], v) => i = 1
                /\ (\E i \in DOMAIN RestOf(T) : In(RestOf(T)[i], v)) <=>
                     (\E i \in DOMAIN T : In(T[i], v)) /\ v # T[1][1]
  <1>1. /\ Len(T) \in Nat /\ Len(T) >= 1 /\ DOMAIN T = 1 .. Len(T) /\ T[1] \in PageRanges
        /\ Tail(T) \in Seq(PageRanges) /\ DOMAIN Tail(T) = 1 .. Len(T) - 1
        /\ Len(Tail(T)) = Len(T) - 1
        /\ \A i \in 1 .. Len(T) - 1 : Tail(T)[i] = T[i + 1]
    BY HeadTail
  <1>2. 1 \in DOMAIN T /\ \A i \in 1 .. Len(T) - 1 : i + 1 \in DOMAIN T /\ i + 1 # 1
    BY <1>1
  <1>3. NPages \in Nat
    BY VmmAssumption
  <1>4. PICK a \in 0 .. NPages, b \in 0 .. NPages : a = T[1][1] /\ b = T[1][2] /\ a < b
    BY <1>1, <1>2 DEF PageRanges
  <1>5. T[1][1] \in Page
    BY <1>3, <1>4 DEF Page
  <1>6. PICK U : U = Tail(T)
    OBVIOUS
  <1>7. U \in Seq(PageRanges) /\ DOMAIN U = 1 .. Len(T) - 1
        /\ \A i \in 1 .. Len(T) - 1 : U[i] = T[i + 1]
    BY <1>1, <1>6
  <1>8. CASE ~(a + 1 < b)
    <2>1. RestOf(T) = U
      BY <1>4, <1>6, <1>8 DEF RestOf
    <2>2. \A v \in Page : In(T[1], v) <=> v = a
      BY <1>3, <1>4, <1>8 DEF In, Page
    <2>3. \A i \in DOMAIN U : U[i][1] < U[i][2]
      BY <1>2, <1>7
    <2>4. ASSUME NEW v \in Page, \A i \in DOMAIN T : In(T[i], v) => i = 1
          PROVE  \A i \in DOMAIN U : ~In(U[i], v)
      BY <1>2, <1>7, <2>4
    <2>5. ASSUME NEW v \in Page, \A i \in DOMAIN T : In(T[i], v) => i = 1
          PROVE  ~((\E i \in DOMAIN T : In(T[i], v)) /\ v # T[1][1])
      BY <1>4, <2>2, <2>5
    <2> QED BY <1>5, <1>7, <2>1, <2>3, <2>4, <2>5
  <1>9. CASE a + 1 < b
    <2>1. PICK e : e = <<a + 1, b>>
      OBVIOUS
    <2>2. e \in PageRanges /\ e[1] = a + 1 /\ e[2] = b /\ e[1] < e[2]
      BY <1>3, <1>9, <2>1 DEF PageRanges
    <2>3. RestOf(T) = <<e>> \o U
      BY <1>4, <1>6, <1>9, <2>1 DEF RestOf
    <2>4. PICK C : C = RestOf(T)
      OBVIOUS
    <2>5. /\ C \in Seq(PageRanges) /\ DOMAIN C = 1 .. Len(U) + 1 /\ C[1] = e
          /\ \A i \in 1 .. Len(U) : C[i + 1] = U[i]
      BY <1>7, <2>2, <2>3, <2>4, Push
    <2>6. Len(U) + 1 = Len(T) /\ Len(U) = Len(T) - 1
      <3>1. Len(T) \in Nat /\ Len(U) = Len(T) - 1
        BY <1>1, <1>6, Zenon
      <3> QED BY <3>1
    <2>7. DOMAIN C = DOMAIN T /\ \A i \in 1 .. Len(T) - 1 : C[i + 1] = T[i + 1]
      BY <1>1, <1>7, <2>5, <2>6
    <2>8. \A i \in DOMAIN T : i = 1 \/ \E j \in 1 .. Len(T) - 1 : i = j + 1
      BY <1>1, FirstOrLater
    <2>9. \A i \in DOMAIN T : i # 1 => C[i] = T[i]
      BY <2>7, <2>8
    <2>10. \A v \in Page : In(C[1], v) <=> In(T[1], v) /\ v # a
      BY <1>3, <1>4, <1>9, <2>2, <2>5 DEF In, Page
    <2>11. \A i \in DOMAIN C : C[i][1] < C[i][2]
      BY <2>2, <2>5, <2>7, <2>9
    <2>12. ASSUME NEW v \in Page, \A i \in DOMAIN T : In(T[i], v) => i = 1
           PROVE  /\ \A i \in DOMAIN C : In(C[i], v) => i = 1
                  /\ (\E i \in DOMAIN C : In(C[i], v)) <=>
                       (\E i \in DOMAIN T : In(T[i], v)) /\ v # a
      BY <1>2, <2>7, <2>9, <2>10, <2>12
    <2> QED BY <1>4, <1>5, <2>4, <2>5, <2>11, <2>12
  <1> QED BY <1>8, <1>9

\* Rest(p) in terms of RestOf.
LEMMA RestIs ==
    ASSUME VmmTypeOK, NEW p \in Proc, todo[p] # <<>>
    PROVE  todo[p] \in Seq(PageRanges) /\ Rest(p) = RestOf(todo[p]) /\ NextPage(p) = todo[p][1][1]
  <1>1. todo[p] \in Seq(PageRanges)
    BY DEF VmmTypeOK, PageRanges
  <1>2. Head(todo[p]) = todo[p][1]
    BY <1>1, HeadTail
  <1> QED BY <1>1, <1>2 DEF Rest, RestOf, NextPage

\* The next page to map or unmap is a page.
LEMMA NextIsPage ==
    ASSUME VmmTypeOK, NEW p \in Proc, TodoInv(p), pc[p] \in {"map", "unmap"}
    PROVE  NextPage(p) \in Page /\ RegionOf(NextPage(p)) \in Region
  <1>1. todo[p] # <<>> /\ \A i \in DOMAIN todo[p] : todo[p][i][1] < todo[p][i][2]
    BY DEF TodoInv
  <1>2. NextPage(p) \in Page
    BY <1>1, RestIs, RestFacts
  <1> QED BY <1>2, Regions

\* The variables of a page that is done.
LEMMA DoneType ==
    ASSUME VmmTypeOK, NEW p \in Proc, TodoInv(p), pc[p] \in {"map", "unmap"}, PageDone(p)
    PROVE  /\ heapBreak' \in [Proc -> 0 .. NPages * PageSize]
           /\ goal' \in [Proc -> 0 .. NPages * PageSize]
           /\ pc' \in [Proc -> {"none", "entry", "map", "unmap", "user", "fork", "copy", "exit"}]
           /\ todo' \in [Proc -> Seq((0 .. NPages) \X (0 .. NPages))]
           /\ todo'[p] = RestOf(todo[p])
           /\ \A q \in Proc : q # p => /\ pc'[q] = pc[q] /\ todo'[q] = todo[q]
                                       /\ heapBreak'[q] = heapBreak[q] /\ goal'[q] = goal[q]
           /\ \/ todo'[p] = <<>> /\ pc'[p] = "user" /\ heapBreak'[p] = goal[p]
              \/ todo'[p] # <<>> /\ pc'[p] = pc[p] /\ goal'[p] = goal[p]
           /\ TodoInv(p)'
  <1>1. todo[p] # <<>> /\ \A i \in DOMAIN todo[p] : todo[p][i][1] < todo[p][i][2]
    BY DEF TodoInv
  <1>2. PICK R : R = RestOf(todo[p])
    OBVIOUS
  <1>3. R \in Seq(PageRanges) /\ \A i \in DOMAIN R : R[i][1] < R[i][2]
    BY <1>1, <1>2, RestIs, RestFacts
  <1>4. Rest(p) = R
    BY <1>1, <1>2, RestIs
  <1>5. todo' = [todo EXCEPT ![p] = R]
    BY <1>4 DEF PageDone
  <1>6. todo' \in [Proc -> Seq((0 .. NPages) \X (0 .. NPages))] /\ todo'[p] = R
        /\ \A q \in Proc : q # p => todo'[q] = todo[q]
    BY <1>3, <1>5 DEF VmmTypeOK, PageRanges
  <1>7. 0 \in 0 .. NPages * PageSize
    BY VmmAssumption
  <1>8. PICK B : B = 0 .. NPages * PageSize
    OBVIOUS
  <1>9. /\ heapBreak' \in [Proc -> B] /\ goal' \in [Proc -> B]
        /\ pc' \in [Proc -> {"none", "entry", "map", "unmap", "user", "fork", "copy", "exit"}]
        /\ \A q \in Proc : q # p => /\ pc'[q] = pc[q]
                                    /\ heapBreak'[q] = heapBreak[q] /\ goal'[q] = goal[q]
        /\ \/ R = <<>> /\ pc'[p] = "user" /\ heapBreak'[p] = goal[p]
           \/ R # <<>> /\ pc'[p] = pc[p] /\ goal'[p] = goal[p]
    <2>1. heapBreak \in [Proc -> B] /\ goal \in [Proc -> B] /\ 0 \in B
      BY <1>7, <1>8 DEF VmmTypeOK
    <2>2. pc \in [Proc -> {"none", "entry", "map", "unmap", "user", "fork", "copy", "exit"}]
      BY DEF VmmTypeOK
    <2>3. CASE R = <<>>
      BY <1>4, <2>1, <2>2, <2>3 DEF PageDone
    <2>4. CASE R # <<>>
      BY <1>4, <2>1, <2>2, <2>4 DEF PageDone, breakVars
    <2> QED BY <2>3, <2>4
  <1>10. TodoInv(p)'
    <2>1. pc'[p] \in {"map", "unmap"} => todo'[p] # <<>>
      BY <1>6, <1>9
    <2>2. \A i \in DOMAIN todo'[p] : todo'[p][i][1] < todo'[p][i][2]
      BY <1>3, <1>6
    <2> QED BY <2>1, <2>2 DEF TodoInv
  <1> QED BY <1>2, <1>6, <1>8, <1>9, <1>10

\* One page more or one page less: how far brk has got stays in step with its ranges.
LEMMA DoneBreak ==
    ASSUME VmmTypeOK, NEW p \in Proc, TodoInv(p), BreakInv(p), PageDone(p),
           \/ /\ pc[p] = "map"
              /\ \A v \in Page : pte'[p][v] # Nil <=> pte[p][v] # Nil \/ v = NextPage(p)
           \/ /\ pc[p] = "unmap"
              /\ \A v \in Page : pte'[p][v] # Nil <=> pte[p][v] # Nil /\ v # NextPage(p)
    PROVE  BreakInv(p)'
  <1>1. todo[p] # <<>> /\ \A i \in DOMAIN todo[p] : todo[p][i][1] < todo[p][i][2]
    BY DEF TodoInv
  <1>2. /\ todo[p] \in Seq(PageRanges) /\ NextPage(p) = todo[p][1][1]
        /\ 1 \in DOMAIN todo[p]
    <2>1. todo[p] \in Seq(PageRanges) /\ NextPage(p) = todo[p][1][1]
      BY <1>1, RestIs
    <2>2. Len(todo[p]) \in Nat /\ Len(todo[p]) >= 1 /\ DOMAIN todo[p] = 1 .. Len(todo[p])
      BY <1>1, <2>1, HeadTail
    <2> QED BY <2>1, <2>2
  <1>3. /\ todo'[p] = RestOf(todo[p])
        /\ \/ todo'[p] = <<>> /\ pc'[p] = "user" /\ heapBreak'[p] = goal[p]
           \/ todo'[p] # <<>> /\ pc'[p] = pc[p] /\ goal'[p] = goal[p]
    BY DoneType
  <1>4. goal[p] \in HeapStart .. MaxBreak
    BY DEF BreakInv
  <1>5. \A v \in HeapPage : v \in Page /\ \A i \in DOMAIN todo[p] : In(todo[p][i], v) => i = 1
    BY DEF BreakInv, HeapPage
  <1>6. \A v \in HeapPage : /\ \A i \in DOMAIN todo'[p] : In(todo'[p][i], v) => i = 1
                            /\ Queued(p, v)' <=> Queued(p, v) /\ v # NextPage(p)
    <2>1. \A v \in HeapPage :
             /\ \A i \in DOMAIN RestOf(todo[p]) : In(RestOf(todo[p])[i], v) => i = 1
             /\ (\E i \in DOMAIN RestOf(todo[p]) : In(RestOf(todo[p])[i], v)) <=>
                  (\E i \in DOMAIN todo[p] : In(todo[p][i], v)) /\ v # todo[p][1][1]
      BY <1>1, <1>2, <1>5, RestFacts
    <2> QED BY <1>2, <1>3, <2>1 DEF Queued
  <1>7. NextPage(p) \in HeapPage => Queued(p, NextPage(p))
    <2>1. todo[p][1] \in PageRanges
      BY <1>1, <1>2, HeadTail
    <2>2. todo[p][1][1] \in Nat /\ todo[p][1][1] < todo[p][1][2]
      BY <1>1, <1>2, <2>1 DEF PageRanges
    <2>3. In(todo[p][1], NextPage(p))
      BY <1>2, <2>2 DEF In
    <2> QED BY <1>2, <2>3 DEF Queued
  <1>8. todo'[p] = <<>> => \A v \in HeapPage : ~Queued(p, v)'
    BY DEF Queued
  <1>9. CASE pc[p] = "map" /\ \A v \in Page : pte'[p][v] # Nil <=> pte[p][v] # Nil \/ v = NextPage(p)
    <2>1. \A v \in HeapPage : /\ Queued(p, v) => v * PageSize < goal[p]
                              /\ pte[p][v] # Nil <=> v * PageSize < goal[p] /\ ~Queued(p, v)
      BY <1>9 DEF BreakInv
    <2>2. \A v \in HeapPage :
             /\ Queued(p, v)' => v * PageSize < goal[p]
             /\ pte'[p][v] # Nil <=> v * PageSize < goal[p] /\ ~Queued(p, v)'
      BY <1>5, <1>6, <1>7, <1>9, <2>1
    <2>3. CASE todo'[p] = <<>> /\ pc'[p] = "user" /\ heapBreak'[p] = goal[p]
      BY <1>4, <1>8, <2>2, <2>3 DEF BreakInv
    <2>4. CASE todo'[p] # <<>> /\ pc'[p] = pc[p] /\ goal'[p] = goal[p]
      BY <1>4, <1>6, <1>9, <2>2, <2>4 DEF BreakInv
    <2> QED BY <1>3, <2>3, <2>4
  <1>10. CASE pc[p] = "unmap" /\ \A v \in Page : pte'[p][v] # Nil <=> pte[p][v] # Nil /\ v # NextPage(p)
    <2>1. \A v \in HeapPage : /\ Queued(p, v) => ~(v * PageSize < goal[p])
                              /\ pte[p][v] # Nil <=> v * PageSize < goal[p] \/ Queued(p, v)
      BY <1>10 DEF BreakInv
    <2>2. \A v \in HeapPage :
             /\ Queued(p, v)' => ~(v * PageSize < goal[p])
             /\ pte'[p][v] # Nil <=> v * PageSize < goal[p] \/ Queued(p, v)'
      BY <1>5, <1>6, <1>7, <1>10, <2>1
    <2>3. CASE todo'[p] = <<>> /\ pc'[p] = "user" /\ heapBreak'[p] = goal[p]
      BY <1>4, <1>8, <2>2, <2>3 DEF BreakInv
    <2>4. CASE todo'[p] # <<>> /\ pc'[p] = pc[p] /\ goal'[p] = goal[p]
      BY <1>4, <1>6, <1>10, <2>2, <2>4 DEF BreakInv
    <2> QED BY <1>3, <2>3, <2>4
  <1> QED BY <1>9, <1>10
-----------------------------------------------------------------------------
(***************************************************************************)
(* What a step leaves alone.                                               *)
(***************************************************************************)

\* A process whose own variables do not change.
LEMMA Others ==
    ASSUME NEW q \in Proc, SpaceInv(q), TodoInv(q), BreakInv(q),
           pc'[q] = pc[q], root'[q] = root[q], table'[q] = table[q], pte'[q] = pte[q],
           held'[q] = held[q], todo'[q] = todo[q], heapBreak'[q] = heapBreak[q],
           goal'[q] = goal[q]
    PROVE  SpaceInv(q)' /\ TodoInv(q)' /\ BreakInv(q)'
  <1>1. NextPage(q)' = NextPage(q) /\ (HasTable(q)' <=> HasTable(q))
    BY DEF NextPage, HasTable
  <1>2. \A v : Queued(q, v)' <=> Queued(q, v)
    BY DEF Queued
  <1>3. SpaceInv(q)'
    BY <1>1 DEF SpaceInv
  <1>4. TodoInv(q)'
    BY DEF TodoInv
  <1>5. BreakInv(q)'
    BY <1>2 DEF BreakInv
  <1> QED BY <1>3, <1>4, <1>5

\* Forks that go on while another process makes a step.
LEMMA ForksKept ==
    ASSUME VmmTypeOK, \A q \in Proc : ForkInv(q),
           \A q \in Proc : pc'[q] = "fork" =>
             /\ pc[q] = "fork" /\ child'[q] = child[q] /\ pte'[q] = pte[q]
             /\ pc'[child[q]] = "copy" /\ pte'[child[q]] = pte[child[q]],
           \A q \in Proc, v \in Page : pc[q] \in {"fork", "copy"} /\ pte[q][v] # Nil =>
             content'[pte[q][v]] = content[pte[q][v]]
    PROVE  \A q \in Proc : ForkInv(q)'
  <1> SUFFICES ASSUME NEW q \in Proc, pc'[q] = "fork"
               PROVE  ForkInv(q)'
    BY DEF ForkInv
  <1>1. /\ pc[q] = "fork" /\ child'[q] = child[q] /\ pte'[q] = pte[q]
        /\ pc'[child[q]] = "copy" /\ pte'[child[q]] = pte[child[q]]
    OBVIOUS
  <1>2. /\ child[q] \in Proc /\ pc[child[q]] = "copy"
        /\ \A r \in Proc : pc[r] = "fork" /\ child[r] = child[q] => r = q
        /\ \A v \in Page : pte[child[q]][v] # Nil =>
             pte[q][v] # Nil /\ content[pte[child[q]][v]] = content[pte[q][v]]
    BY <1>1 DEF ForkInv
  <1>3. \A r \in Proc : pc'[r] = "fork" /\ child'[r] = child'[q] => r = q
    BY <1>1, <1>2
  <1>4. \A v \in Page : pte'[child[q]][v] # Nil =>
             pte'[q][v] # Nil /\ content'[pte'[child[q]][v]] = content'[pte'[q][v]]
    BY <1>1, <1>2
  <1> QED BY <1>1, <1>2, <1>3, <1>4 DEF ForkInv

Untouched(q) ==
    /\ pc'[q] = pc[q] /\ root'[q] = root[q] /\ table'[q] = table[q] /\ pte'[q] = pte[q]
    /\ held'[q] = held[q] /\ todo'[q] = todo[q] /\ heapBreak'[q] = heapBreak[q]
    /\ goal'[q] = goal[q] /\ child'[q] = child[q]

\* A step of p that touches no other process, and p is not in a fork.
LEMMA StepOfOne ==
    ASSUME VmmInv, NEW p \in Proc, VmmTypeOK', OwnerInv', SpaceInv(p)', TodoInv(p)', BreakInv(p)',
           pc[p] \notin {"fork", "copy"}, pc'[p] # "fork",
           \A q \in Proc : q # p => Untouched(q),
           \A q \in Proc, v \in Page : q # p /\ pte[q][v] # Nil =>
             content'[pte[q][v]] = content[pte[q][v]]
    PROVE  VmmInv'
  <1>1. \A q \in Proc : ForkInv(q)'
    <2>1. \A q \in Proc : pc'[q] = "fork" =>
             /\ pc[q] = "fork" /\ child'[q] = child[q] /\ pte'[q] = pte[q]
             /\ pc'[child[q]] = "copy" /\ pte'[child[q]] = pte[child[q]]
      <3> SUFFICES ASSUME NEW q \in Proc, pc'[q] = "fork"
                   PROVE  /\ pc[q] = "fork" /\ child'[q] = child[q] /\ pte'[q] = pte[q]
                          /\ pc'[child[q]] = "copy" /\ pte'[child[q]] = pte[child[q]]
        OBVIOUS
      <3>1. q # p /\ pc[q] = "fork" /\ child'[q] = child[q] /\ pte'[q] = pte[q]
        BY DEF Untouched
      <3>2. child[q] \in Proc /\ pc[child[q]] = "copy"
        BY <3>1 DEF VmmInv, ForkInv
      <3>3. child[q] # p
        BY <3>2
      <3> QED BY <3>1, <3>2, <3>3 DEF Untouched
    <2>2. \A q \in Proc, v \in Page : pc[q] \in {"fork", "copy"} /\ pte[q][v] # Nil =>
             content'[pte[q][v]] = content[pte[q][v]]
      OBVIOUS
    <2> QED BY <2>1, <2>2, ForksKept DEF VmmInv
  <1>2. \A q \in Proc : q # p => SpaceInv(q)' /\ TodoInv(q)' /\ BreakInv(q)'
    BY Others DEF VmmInv, Untouched
  <1> QED BY <1>1, <1>2 DEF VmmInv

\* A frame from alloc is nobody's page.
LEMMA AllocFresh ==
    ASSUME VmmTypeOK, OwnerInv, NEW f \in Frame, NEW x \in Value, Alloc(f, x)
    PROVE  \A q \in Proc, v \in Page : pte[q][v] # f
  <1>1. f \in Range(avail) \cup FramesIn(free_ranges)
    BY AllocFacts
  <1> QED BY <1>1, FrameFacts, VmmAssumption

\* A frame from alloc is filled: no page of a process changes.
LEMMA FreshContent ==
    ASSUME VmmInv, NEW f \in Frame, NEW x \in Value, Alloc(f, x), NEW y,
           content' = [content EXCEPT ![f] = y]
    PROVE  \A q \in Proc, v \in Page : pte[q][v] # Nil => content'[pte[q][v]] = content[pte[q][v]]
  <1>1. \A q \in Proc, v \in Page : pte[q][v] # f
    BY AllocFresh DEF VmmInv
  <1>2. content \in [Frame -> Value] /\ \A q \in Proc, v \in Page : pte[q][v] \in Frame \cup {Nil}
    BY DEF VmmInv, VmmTypeOK
  <1> QED BY <1>1, <1>2

-----------------------------------------------------------------------------
(***************************************************************************)
(* map_range and unmapRange.                                               *)
(***************************************************************************)
LEMMA MapSkipInv == ASSUME VmmInv, NEW p \in Proc, MapSkip(p) PROVE VmmInv'
  <1>1. /\ pc[p] = "map" /\ pte[p][NextPage(p)] # Nil /\ PageDone(p) /\ VmmTypeOK /\ OwnerInv
        /\ SpaceInv(p) /\ TodoInv(p) /\ BreakInv(p)
        /\ UNCHANGED <<avail, free_ranges, content, root, table, pte, held, child, lost, calls, panicked>>
    BY DEF VmmInv, MapSkip, Running, physVars, spaceVars
  <1>2. NextPage(p) \in Page
    BY <1>1, NextIsPage
  <1>3. /\ heapBreak' \in [Proc -> 0 .. NPages * PageSize]
        /\ goal' \in [Proc -> 0 .. NPages * PageSize]
        /\ pc' \in [Proc -> {"none", "entry", "map", "unmap", "user", "fork", "copy", "exit"}]
        /\ todo' \in [Proc -> Seq((0 .. NPages) \X (0 .. NPages))]
        /\ \A q \in Proc : q # p => /\ pc'[q] = pc[q] /\ todo'[q] = todo[q]
                                    /\ heapBreak'[q] = heapBreak[q] /\ goal'[q] = goal[q]
        /\ pc'[p] \in {"map", "user"} /\ TodoInv(p)'
    BY <1>1, DoneType
  <1>4. VmmTypeOK'
    BY <1>1, <1>3 DEF VmmTypeOK
  <1>5. OwnerInv'
    BY <1>1, OwnerSame
  <1>6. held[p] = Nil
    <2>1. HasTable(p)
      BY <1>1, <1>2 DEF SpaceInv, HasTable
    <2> QED BY <1>1, <2>1 DEF SpaceInv
  <1>7. SpaceInv(p)'
    BY <1>1, <1>3, <1>6 DEF SpaceInv
  <1>8. BreakInv(p)'
    BY <1>1, <1>2, DoneBreak
  <1>9. \A q \in Proc : q # p => Untouched(q)
    BY <1>1, <1>3 DEF Untouched
  <1> QED BY <1>1, <1>3, <1>4, <1>5, <1>7, <1>8, <1>9, StepOfOne

\* map_range maps a page whose table is there.
LEMMA MapPageInv == ASSUME VmmInv, NEW p \in Proc, MapPage(p) PROVE VmmInv'
  <1>1. /\ pc[p] = "map" /\ pte[p][NextPage(p)] = Nil /\ HasTable(p) /\ PageDone(p)
        /\ VmmTypeOK /\ OwnerInv /\ SpaceInv(p) /\ TodoInv(p) /\ BreakInv(p)
        /\ UNCHANGED <<root, table, held, child, lost, calls, panicked>>
    BY DEF VmmInv, MapPage, Running
  <1>2. PICK f \in Frame, x \in Value :
          /\ Alloc(f, x)
          /\ pte' = [pte EXCEPT ![p][NextPage(p)] = f]
          /\ content' = [content EXCEPT ![f] = x]
    BY DEF MapPage
  <1>3. NextPage(p) \in Page /\ RegionOf(NextPage(p)) \in Region /\ f # Nil
    BY <1>1, NextIsPage, VmmAssumption
  <1>4. /\ heapBreak' \in [Proc -> 0 .. NPages * PageSize]
        /\ goal' \in [Proc -> 0 .. NPages * PageSize]
        /\ pc' \in [Proc -> {"none", "entry", "map", "unmap", "user", "fork", "copy", "exit"}]
        /\ todo' \in [Proc -> Seq((0 .. NPages) \X (0 .. NPages))]
        /\ \A q \in Proc : q # p => /\ pc'[q] = pc[q] /\ todo'[q] = todo[q]
                                    /\ heapBreak'[q] = heapBreak[q] /\ goal'[q] = goal[q]
        /\ pc'[p] \in {"map", "user"} /\ TodoInv(p)'
    BY <1>1, DoneType
  <1>5. /\ pte' \in [Proc -> [Page -> Frame \cup {Nil}]]
        /\ \A q \in Proc : q # p => pte'[q] = pte[q]
        /\ \A v \in Page : pte'[p][v] = IF v = NextPage(p) THEN f ELSE pte[p][v]
    BY <1>1, <1>2, <1>3 DEF VmmTypeOK
  <1>6. content' \in [Frame -> Value] /\ avail' \in Seq(Frame)
        /\ free_ranges' \in Seq([base: Nat, length: Nat \ {0}])
    BY <1>1, <1>2, AllocFacts DEF VmmTypeOK
  <1>7. VmmTypeOK'
    BY <1>1, <1>4, <1>5, <1>6 DEF VmmTypeOK
  <1>8. OwnerInv'
    <2>1. PICK s \in Place : /\ Holds[s] = pte[p][NextPage(p)]
                            /\ Holds' = [Holds EXCEPT ![s] = f]
      BY <1>1, <1>2, <1>3, PageEntry, ZenonT(40)
    <2> QED BY <1>1, <1>2, <2>1, OwnerTake
  <1>9. SpaceInv(p)'
    <2>1. held[p] = Nil
      BY <1>1 DEF SpaceInv
    <2>2. table[p][RegionOf(NextPage(p))] # Nil
      BY <1>1 DEF HasTable
    <2> QED BY <1>1, <1>4, <1>5, <2>1, <2>2 DEF SpaceInv
  <1>10. BreakInv(p)'
    BY <1>1, <1>3, <1>5, DoneBreak
  <1>11. \A q \in Proc : q # p => Untouched(q)
    BY <1>1, <1>4, <1>5 DEF Untouched
  <1>12. \A q \in Proc, v \in Page : q # p /\ pte[q][v] # Nil =>
           content'[pte[q][v]] = content[pte[q][v]]
    BY <1>1, <1>2, FreshContent
  <1> QED BY <1>1, <1>4, <1>7, <1>8, <1>9, <1>10, <1>11, <1>12, StepOfOne

\* map_range allocates a frame whose table is not there yet.
LEMMA MapHoldInv == ASSUME VmmInv, NEW p \in Proc, MapHold(p) PROVE VmmInv'
  <1>1. /\ pc[p] = "map" /\ ~HasTable(p) /\ held[p] = Nil
        /\ VmmTypeOK /\ OwnerInv /\ SpaceInv(p) /\ TodoInv(p) /\ BreakInv(p)
        /\ UNCHANGED <<root, table, pte, heapBreak, goal, pc, todo, child, lost, calls, panicked>>
    BY DEF VmmInv, MapHold, Running, spaceVars, breakVars
  <1>2. PICK f \in Frame, x \in Value :
          /\ Alloc(f, x)
          /\ held' = [held EXCEPT ![p] = f]
          /\ content' = [content EXCEPT ![f] = x]
    BY DEF MapHold
  <1>3. content' \in [Frame -> Value] /\ avail' \in Seq(Frame)
        /\ free_ranges' \in Seq([base: Nat, length: Nat \ {0}])
    BY <1>1, <1>2, AllocFacts DEF VmmTypeOK
  <1>4. held' \in [Proc -> Frame \cup {Nil}] /\ \A q \in Proc : q # p => held'[q] = held[q]
    BY <1>1, <1>2 DEF VmmTypeOK
  <1>5. VmmTypeOK'
    BY <1>1, <1>3, <1>4 DEF VmmTypeOK
  <1>6. OwnerInv'
    <2>1. PICK s \in Place : Holds[s] = held[p] /\ Holds' = [Holds EXCEPT ![s] = f]
      BY <1>1, <1>2, HeldEntry
    <2> QED BY <1>1, <1>2, <2>1, OwnerTake
  <1>7. SpaceInv(p)'
    <2>1. ~HasTable(p)'
      BY <1>1 DEF HasTable, NextPage
    <2> QED BY <1>1, <2>1 DEF SpaceInv
  <1>8. TodoInv(p)'
    BY <1>1 DEF TodoInv
  <1>9. BreakInv(p)'
    BY <1>1 DEF BreakInv, Queued
  <1>10. \A q \in Proc : q # p => Untouched(q)
    BY <1>1, <1>4 DEF Untouched
  <1>11. \A q \in Proc, v \in Page : q # p /\ pte[q][v] # Nil =>
           content'[pte[q][v]] = content[pte[q][v]]
    BY <1>1, <1>2, FreshContent
  <1> QED BY <1>1, <1>5, <1>6, <1>7, <1>8, <1>9, <1>10, <1>11, StepOfOne

\* map allocates and links the table for the frame held.
LEMMA MapTableInv == ASSUME VmmInv, NEW p \in Proc, MapTable(p) PROVE VmmInv'
  <1>1. /\ pc[p] = "map" /\ ~HasTable(p) /\ held[p] # Nil /\ PageDone(p)
        /\ VmmTypeOK /\ OwnerInv /\ SpaceInv(p) /\ TodoInv(p) /\ BreakInv(p)
        /\ pte' = [pte EXCEPT ![p][NextPage(p)] = held[p]]
        /\ held' = [held EXCEPT ![p] = Nil]
        /\ UNCHANGED <<root, child, lost, calls, panicked>>
    BY DEF VmmInv, MapTable, Running
  <1>2. PICK f \in Frame, x \in Value :
          /\ Alloc(f, x)
          /\ table' = [table EXCEPT ![p][RegionOf(NextPage(p))] = f]
          /\ content' = [content EXCEPT ![f] = x]
    BY DEF MapTable
  <1>3. /\ NextPage(p) \in Page /\ RegionOf(NextPage(p)) \in Region /\ f # Nil
        /\ held[p] \in Frame
    BY <1>1, NextIsPage, VmmAssumption DEF VmmTypeOK
  <1>4. /\ heapBreak' \in [Proc -> 0 .. NPages * PageSize]
        /\ goal' \in [Proc -> 0 .. NPages * PageSize]
        /\ pc' \in [Proc -> {"none", "entry", "map", "unmap", "user", "fork", "copy", "exit"}]
        /\ todo' \in [Proc -> Seq((0 .. NPages) \X (0 .. NPages))]
        /\ \A q \in Proc : q # p => /\ pc'[q] = pc[q] /\ todo'[q] = todo[q]
                                    /\ heapBreak'[q] = heapBreak[q] /\ goal'[q] = goal[q]
        /\ pc'[p] \in {"map", "user"} /\ TodoInv(p)'
    BY <1>1, DoneType
  <1>5. /\ pte' \in [Proc -> [Page -> Frame \cup {Nil}]]
        /\ \A q \in Proc : q # p => pte'[q] = pte[q]
        /\ \A v \in Page : pte'[p][v] = IF v = NextPage(p) THEN held[p] ELSE pte[p][v]
    BY <1>1, <1>3 DEF VmmTypeOK
  <1>6. /\ table' \in [Proc -> [Region -> Frame \cup {Nil}]]
        /\ \A q \in Proc : q # p => table'[q] = table[q]
        /\ \A r \in Region : table'[p][r] = IF r = RegionOf(NextPage(p)) THEN f ELSE table[p][r]
    BY <1>1, <1>2, <1>3 DEF VmmTypeOK
  <1>7. held' \in [Proc -> Frame \cup {Nil}] /\ held'[p] = Nil
        /\ \A q \in Proc : q # p => held'[q] = held[q]
    BY <1>1 DEF VmmTypeOK
  <1>8. content' \in [Frame -> Value] /\ avail' \in Seq(Frame)
        /\ free_ranges' \in Seq([base: Nat, length: Nat \ {0}])
    BY <1>1, <1>2, AllocFacts DEF VmmTypeOK
  <1>9. VmmTypeOK'
    BY <1>1, <1>4, <1>5, <1>6, <1>7, <1>8 DEF VmmTypeOK
  <1>10. table[p][RegionOf(NextPage(p))] = Nil /\ pte[p][NextPage(p)] = Nil
    BY <1>1, <1>3 DEF HasTable, SpaceInv
  <1>11. OwnerInv'
    <2>1. /\ root \in [Proc -> Frame \cup {Nil}] /\ held \in [Proc -> Frame \cup {Nil}]
          /\ table \in [Proc -> [Region -> Frame \cup {Nil}]]
          /\ pte \in [Proc -> [Page -> Frame \cup {Nil}]]
      BY <1>1 DEF VmmTypeOK
    <2>2. PICK H0, H1, H2, H3 :
             /\ H0 = HoldsOf(root, table, pte, held) /\ H1 = HoldsOf(root, table, pte, held')
             /\ H2 = HoldsOf(root, table, pte', held') /\ H3 = HoldsOf(root, table', pte', held')
      OBVIOUS
    <2>3. /\ H0 \in [Place -> Frame \cup {Nil}] /\ H1 \in [Place -> Frame \cup {Nil}]
          /\ H2 \in [Place -> Frame \cup {Nil}]
      BY <1>5, <1>7, <2>1, <2>2, HoldsType DEF Agree
    <2>4. OnePlace(H1, H0, held[p], Nil)
      <3>1. Entry(held', held, p, Nil)
        BY <1>1 DEF Entry
      <3> QED BY <2>1, <2>2, <3>1, HoldsHeld
    <2>5. OnePlace(H2, H1, Nil, held[p])
      <3>1. Entry2(pte', pte, p, NextPage(p), held[p])
        BY <1>1 DEF Entry2
      <3>2. OnePlace(H2, H1, pte[p][NextPage(p)], held[p])
        BY <1>3, <1>7, <2>1, <2>2, <3>1, HoldsPage
      <3> QED BY <1>10, <3>2
    <2>6. OnePlace(H3, H2, Nil, f)
      <3>1. Entry2(table', table, p, RegionOf(NextPage(p)), f)
        BY <1>2 DEF Entry2
      <3>2. OnePlace(H3, H2, table[p][RegionOf(NextPage(p))], f)
        BY <1>3, <1>5, <1>7, <2>1, <2>2, <3>1, HoldsTable
      <3> QED BY <1>10, <3>2
    <2>7. PICK A, F : A = Range(avail) /\ F = FramesIn(free_ranges)
      OBVIOUS
    <2>8. Partition(H0, A, F, lost)
      BY <1>1, <2>2, <2>7 DEF OwnerInv, Holds
    <2>9. Partition(H1, A \cup {held[p]}, F, lost) /\ held[p] \notin A /\ held[p] \notin F
      <3>1. PICK s \in Place : H0[s] = held[p] /\ H1 = [H0 EXCEPT ![s] = Nil]
        BY <2>4 DEF OnePlace
      <3>2. Partition([H0 EXCEPT ![s] = Nil], A \cup {H0[s]}, F, lost)
        BY <1>1, <2>3, <2>8, <3>1, GiveFrame
      <3>3. H0[s] \notin A /\ H0[s] \notin F
        BY <1>1, <2>3, <2>8, <3>1 DEF Partition
      <3> QED BY <3>1, <3>2, <3>3
    <2>10. Partition(H2, A, F, lost)
      <3>1. PICK s \in Place : H1[s] = Nil /\ H2 = [H1 EXCEPT ![s] = held[p]]
        BY <2>5 DEF OnePlace
      <3>2. Partition([H1 EXCEPT ![s] = held[p]], (A \cup {held[p]}) \ {held[p]},
                      F \ {held[p]}, lost)
        BY <2>3, <2>9, <3>1, TakeFrame
      <3>3. (A \cup {held[p]}) \ {held[p]} = A /\ F \ {held[p]} = F
        BY <2>9
      <3> QED BY <3>1, <3>2, <3>3
    <2>11. /\ f \in A \cup F /\ Range(avail') = A \ {f} /\ FramesIn(free_ranges') = F \ {f}
           /\ IsInjective(avail') /\ Disjoint(free_ranges')
      BY <1>1, <1>2, <2>7, AllocFacts
    <2>12. Partition(H3, A \ {f}, F \ {f}, lost)
      <3>1. PICK s \in Place : H2[s] = Nil /\ H3 = [H2 EXCEPT ![s] = f]
        BY <2>6 DEF OnePlace
      <3> QED BY <2>3, <2>10, <2>11, <3>1, TakeFrame
    <2> QED BY <1>1, <2>2, <2>11, <2>12 DEF OwnerInv, Holds
  <1>12. SpaceInv(p)'
    <2>1. \A v \in Page : pte[p][v] # Nil => table[p][RegionOf(v)] # Nil
      BY <1>1 DEF SpaceInv
    <2>2. \A v \in Page : pte'[p][v] # Nil => table'[p][RegionOf(v)] # Nil
      BY <1>3, <1>5, <1>6, <2>1, Regions
    <2>3. root'[p] # Nil
      BY <1>1 DEF SpaceInv
    <2> QED BY <1>4, <1>7, <2>2, <2>3 DEF SpaceInv
  <1>13. BreakInv(p)'
    BY <1>1, <1>3, <1>5, DoneBreak
  <1>14. \A q \in Proc : q # p => Untouched(q)
    BY <1>1, <1>4, <1>5, <1>6, <1>7 DEF Untouched
  <1>15. \A q \in Proc, v \in Page : q # p /\ pte[q][v] # Nil =>
           content'[pte[q][v]] = content[pte[q][v]]
    BY <1>1, <1>2, FreshContent
  <1> QED BY <1>1, <1>4, <1>9, <1>11, <1>12, <1>13, <1>14, <1>15, StepOfOne

\* unmapRange frees the frame of a page.
LEMMA UnmapPageInv == ASSUME VmmInv, NEW p \in Proc, UnmapPage(p) PROVE VmmInv'
  <1>1. /\ pc[p] = "unmap" /\ PageDone(p)
        /\ VmmTypeOK /\ OwnerInv /\ SpaceInv(p) /\ TodoInv(p) /\ BreakInv(p)
        /\ pte' = [pte EXCEPT ![p][NextPage(p)] = Nil]
        /\ UNCHANGED <<content, root, table, held, child, lost, calls, panicked>>
    BY DEF VmmInv, UnmapPage, Running
  <1>2. NextPage(p) \in Page
    BY <1>1, NextIsPage
  <1>3. /\ heapBreak' \in [Proc -> 0 .. NPages * PageSize]
        /\ goal' \in [Proc -> 0 .. NPages * PageSize]
        /\ pc' \in [Proc -> {"none", "entry", "map", "unmap", "user", "fork", "copy", "exit"}]
        /\ todo' \in [Proc -> Seq((0 .. NPages) \X (0 .. NPages))]
        /\ \A q \in Proc : q # p => /\ pc'[q] = pc[q] /\ todo'[q] = todo[q]
                                    /\ heapBreak'[q] = heapBreak[q] /\ goal'[q] = goal[q]
        /\ pc'[p] \in {"unmap", "user"} /\ TodoInv(p)'
    BY <1>1, DoneType
  <1>4. /\ pte' \in [Proc -> [Page -> Frame \cup {Nil}]]
        /\ \A q \in Proc : q # p => pte'[q] = pte[q]
        /\ \A v \in Page : pte'[p][v] = IF v = NextPage(p) THEN Nil ELSE pte[p][v]
    BY <1>1, <1>2 DEF VmmTypeOK
  <1>5. OwnerInv' /\ avail' \in Seq(Frame) /\ free_ranges' = free_ranges
    <2>1. CASE pte[p][NextPage(p)] # Nil
      <3>1. Free(pte[p][NextPage(p)])
        BY <2>1 DEF UnmapPage
      <3>2. PICK s \in Place : /\ Holds[s] = pte[p][NextPage(p)]
                               /\ Holds' = [Holds EXCEPT ![s] = Nil]
        BY <1>1, <1>2, PageEntry
      <3>3. OwnerInv' /\ avail' \in Seq(Frame)
        BY <1>1, <2>1, <3>1, <3>2, OwnerGive
      <3> QED BY <3>1, <3>3 DEF Free
    <2>2. CASE pte[p][NextPage(p)] = Nil
      <3>1. UNCHANGED <<avail, free_ranges>>
        BY <2>2 DEF UnmapPage
      <3>2. pte' = pte
        BY <1>1, <1>2, <1>4, <2>2 DEF VmmTypeOK
      <3> QED BY <1>1, <3>1, <3>2, OwnerSame DEF VmmTypeOK
    <2> QED BY <2>1, <2>2
  <1>6. VmmTypeOK'
    BY <1>1, <1>3, <1>4, <1>5 DEF VmmTypeOK
  <1>7. SpaceInv(p)'
    BY <1>1, <1>3, <1>4 DEF SpaceInv
  <1>8. BreakInv(p)'
    BY <1>1, <1>2, <1>4, DoneBreak
  <1>9. \A q \in Proc : q # p => Untouched(q)
    BY <1>1, <1>3, <1>4 DEF Untouched
  <1> QED BY <1>1, <1>3, <1>5, <1>6, <1>7, <1>8, <1>9, StepOfOne
-----------------------------------------------------------------------------
(***************************************************************************)
(* The first process, the process itself, brk and exit.                    *)
(***************************************************************************)
LEMMA InitThreadInv == ASSUME VmmInv, NEW p \in Proc, InitThread(p) PROVE VmmInv'
  <1>1. /\ pc[p] = "entry" /\ VmmTypeOK /\ OwnerInv /\ SpaceInv(p) /\ TodoInv(p) /\ BreakInv(p)
        /\ pc' = [pc EXCEPT ![p] = "map"]
        /\ todo' = [todo EXCEPT ![p] = Segments]
        /\ goal' = [goal EXCEPT ![p] = HeapStart]
        /\ UNCHANGED <<table, pte, heapBreak, held, child, lost, calls, panicked>>
    BY DEF VmmInv, InitThread, Running
  <1>2. PICK f \in Frame, x \in Value :
          /\ Alloc(f, x)
          /\ root' = [root EXCEPT ![p] = f]
          /\ content' = [content EXCEPT ![f] = Dirty]
    BY DEF InitThread
  <1>3. f # Nil /\ Dirty \in Value
    BY VmmAssumption, PhysMemAssumption
  <1>4. root[p] = Nil /\ held[p] = Nil /\ \A v \in Page : pte[p][v] = Nil
    BY <1>1, Regions DEF SpaceInv
  <1>5. HeapStart \in HeapStart .. MaxBreak /\ HeapStart \in 0 .. NPages * PageSize
    BY VmmAssumption
  <1>6. Segments \in Seq((0 .. NPages) \X (0 .. NPages)) /\ Segments # <<>>
    BY SegmentsAssumption
  <1>7. /\ root' \in [Proc -> Frame \cup {Nil}] /\ root'[p] = f
        /\ \A q \in Proc : q # p => root'[q] = root[q]
    BY <1>1, <1>2 DEF VmmTypeOK
  <1>8. content' \in [Frame -> Value] /\ avail' \in Seq(Frame)
        /\ free_ranges' \in Seq([base: Nat, length: Nat \ {0}])
    BY <1>1, <1>2, <1>3, AllocFacts DEF VmmTypeOK
  <1>9. /\ pc' \in [Proc -> {"none", "entry", "map", "unmap", "user", "fork", "copy", "exit"}]
        /\ pc'[p] = "map" /\ \A q \in Proc : q # p => pc'[q] = pc[q]
    BY <1>1 DEF VmmTypeOK
  <1>10. /\ todo' \in [Proc -> Seq((0 .. NPages) \X (0 .. NPages))]
         /\ todo'[p] = Segments /\ \A q \in Proc : q # p => todo'[q] = todo[q]
    BY <1>1, <1>6 DEF VmmTypeOK
  <1>11. /\ goal' \in [Proc -> 0 .. NPages * PageSize]
         /\ goal'[p] = HeapStart /\ \A q \in Proc : q # p => goal'[q] = goal[q]
    <2>1. PICK B : B = 0 .. NPages * PageSize
      OBVIOUS
    <2>2. goal \in [Proc -> B] /\ HeapStart \in B
      BY <1>1, <1>5, <2>1 DEF VmmTypeOK
    <2>3. goal' \in [Proc -> B] /\ goal'[p] = HeapStart
          /\ \A q \in Proc : q # p => goal'[q] = goal[q]
      BY <1>1, <2>2
    <2> QED BY <2>1, <2>3
  <1>12. VmmTypeOK'
    BY <1>1, <1>7, <1>8, <1>9, <1>10, <1>11 DEF VmmTypeOK
  <1>13. OwnerInv'
    <2>1. PICK s \in Place : Holds[s] = root[p] /\ Holds' = [Holds EXCEPT ![s] = f]
      BY <1>1, <1>2, RootEntry
    <2> QED BY <1>1, <1>2, <1>4, <2>1, OwnerTake
  <1>14. SpaceInv(p)'
    BY <1>1, <1>3, <1>4, <1>7, <1>9 DEF SpaceInv
  <1>15. TodoInv(p)'
    BY <1>6, <1>10, SegmentsAssumption DEF TodoInv
  <1>16. BreakInv(p)'
    <2>1. ASSUME NEW v \in HeapPage, NEW i \in DOMAIN Segments PROVE ~In(Segments[i], v)
      <3>1. v \in Nat /\ v * PageSize \in HeapStart .. MaxBreak - 1
        BY VmmAssumption DEF HeapPage, Page
      <3>2. Segments[i] \in (0 .. NPages) \X (0 .. NPages)
        BY <1>6
      <3>3. Segments[i][1] \in 0 .. NPages /\ Segments[i][2] \in 0 .. NPages
        BY <3>2
      <3>4. v \notin Segments[i][1] .. Segments[i][2] - 1
        BY <3>1, SegmentsAssumption
      <3>5. PICK a \in 0 .. NPages, b \in 0 .. NPages : a = Segments[i][1] /\ b = Segments[i][2]
        BY <3>3
      <3>6. ~(a <= v /\ v < b)
        BY <3>1, <3>4, <3>5, VmmAssumption
      <3> QED BY <3>5, <3>6 DEF In
    <2>2. ASSUME NEW v \in HeapPage PROVE ~(v * PageSize < HeapStart)
      <3>1. v \in Nat /\ v * PageSize \in HeapStart .. MaxBreak - 1
        BY VmmAssumption DEF HeapPage, Page
      <3> QED BY <3>1, VmmAssumption
    <2>3. \A v \in HeapPage : ~Queued(p, v)'
      BY <1>10, <2>1 DEF Queued
    <2>4. \A v \in HeapPage : pte'[p][v] = Nil
      BY <1>1, <1>4 DEF HeapPage
    <2>5. \A i \in DOMAIN todo'[p], v \in HeapPage : In(todo'[p][i], v) => i = 1
      BY <1>10, <2>1
    <2> QED BY <1>5, <1>9, <1>11, <2>2, <2>3, <2>4, <2>5 DEF BreakInv
  <1>17. \A q \in Proc : q # p => Untouched(q)
    BY <1>1, <1>7, <1>9, <1>10, <1>11 DEF Untouched
  <1>18. \A q \in Proc, v \in Page : q # p /\ pte[q][v] # Nil =>
           content'[pte[q][v]] = content[pte[q][v]]
    BY <1>1, <1>2, FreshContent
  <1> QED BY <1>1, <1>9, <1>12, <1>13, <1>14, <1>15, <1>16, <1>17, <1>18, StepOfOne

\* A store of the program touches one frame.
LEMMA UserStoreInv ==
    ASSUME VmmInv, NEW p \in Proc, NEW v \in Page, NEW x \in Value, UserStore(p, v, x)
    PROVE  VmmInv'
  <1>1. /\ pc[p] = "user" /\ VmmTypeOK /\ OwnerInv /\ SpaceInv(p) /\ TodoInv(p) /\ BreakInv(p)
        /\ calls < MaxCalls /\ calls' = calls + 1 /\ pte[p][v] # Nil
        /\ content' = [content EXCEPT ![pte[p][v]] = x]
        /\ UNCHANGED <<avail, free_ranges, root, table, pte, heapBreak, goal, pc, todo, held,
                       child, lost, panicked>>
    BY DEF VmmInv, UserStore, Running, spaceVars, breakVars
  <1>2. calls' \in 0 .. MaxCalls
    BY <1>1, VmmAssumption DEF VmmTypeOK
  <1>3. content' \in [Frame -> Value]
    BY <1>1 DEF VmmTypeOK
  <1>4. VmmTypeOK'
    BY <1>1, <1>2, <1>3 DEF VmmTypeOK
  <1>5. OwnerInv'
    BY <1>1, OwnerSame
  <1>6. SpaceInv(p)' /\ TodoInv(p)' /\ BreakInv(p)'
    BY <1>1, Others
  <1>7. \A q \in Proc : Untouched(q)
    BY <1>1 DEF Untouched
  <1>8. \A q \in Proc, w \in Page : q # p /\ pte[q][w] # Nil =>
           content'[pte[q][w]] = content[pte[q][w]]
    <2>1. \A q \in Proc, w \in Page : q # p /\ pte[q][w] # Nil => pte[q][w] # pte[p][v]
      BY <1>1, FrameFacts
    <2> QED BY <1>1, <2>1 DEF VmmTypeOK
  <1> QED BY <1>1, <1>4, <1>5, <1>6, <1>7, <1>8, StepOfOne

\* sys_brk computes the range to map or unmap.
LEMMA BrkInv ==
    ASSUME VmmInv, NEW p \in Proc, NEW b \in 1 .. MaxBreak, Brk(p, b)
    PROVE  VmmInv'
  <1>1. /\ pc[p] = "user" /\ VmmTypeOK /\ OwnerInv /\ SpaceInv(p) /\ TodoInv(p) /\ BreakInv(p)
        /\ calls < MaxCalls /\ calls' = calls + 1 /\ b >= HeapStart
        /\ UNCHANGED <<avail, free_ranges, content, root, table, pte, held, child, lost, panicked>>
    BY DEF VmmInv, Brk, Running, physVars, spaceVars
  <1>2. /\ HeapStart \in Nat /\ MaxBreak \in Nat /\ NPages * PageSize \in Nat /\ MaxBreak <= NPages * PageSize
    BY VmmAssumption
  <1>3. /\ heapBreak[p] \in HeapStart .. MaxBreak /\ b \in HeapStart .. MaxBreak
        /\ heapBreak[p] \in 0 .. MaxBreak /\ b \in 0 .. MaxBreak /\ b \in 0 .. NPages * PageSize
        /\ heapBreak[p] \in Nat /\ b \in Nat
    BY <1>1, <1>2 DEF BreakInv
  <1>4. PICK old \in 0 .. NPages, new \in 0 .. NPages :
           old = RoundUpPage(heapBreak[p]) /\ new = RoundUpPage(b)
    BY <1>3, BreakPages
  <1>5. \A v \in HeapPage : /\ v \in Nat
                            /\ v * PageSize < heapBreak[p] <=> v < old
                            /\ v * PageSize < b <=> v < new
    <2>1. \A v \in HeapPage : v \in Nat
      BY VmmAssumption DEF HeapPage, Page
    <2> QED BY <1>3, <1>4, <2>1, RoundUp
  <1>6. \A v \in HeapPage : pte[p][v] # Nil <=> v < old
    BY <1>1, <1>5 DEF BreakInv
  <1>7. held[p] = Nil
    BY <1>1 DEF SpaceInv
  <1>8. calls' \in 0 .. MaxCalls
    BY <1>1, VmmAssumption DEF VmmTypeOK
  <1>9. OwnerInv'
    BY <1>1, OwnerSame
  <1>10. PICK B : B = 0 .. NPages * PageSize
    OBVIOUS
  <1>11. b \in B /\ heapBreak \in [Proc -> B] /\ goal \in [Proc -> B]
         /\ pc \in [Proc -> {"none", "entry", "map", "unmap", "user", "fork", "copy", "exit"}]
         /\ todo \in [Proc -> Seq(PageRanges)]
    BY <1>1, <1>3, <1>10 DEF VmmTypeOK, PageRanges
  <1>12. CASE new = old
    <2>1. heapBreak' = [heapBreak EXCEPT ![p] = b] /\ UNCHANGED <<pc, todo, goal>>
      BY <1>4, <1>12 DEF Brk
    <2>2. heapBreak' \in [Proc -> B] /\ heapBreak'[p] = b
          /\ \A q \in Proc : q # p => heapBreak'[q] = heapBreak[q]
      BY <1>11, <2>1
    <2>3. VmmTypeOK'
      BY <1>1, <1>8, <1>10, <2>1, <2>2 DEF VmmTypeOK
    <2>4. SpaceInv(p)' /\ TodoInv(p)'
      BY <1>1, <2>1, <1>7 DEF SpaceInv, TodoInv
    <2>5. BreakInv(p)'
      <3>1. \A v \in HeapPage : pte'[p][v] # Nil <=> v * PageSize < heapBreak'[p]
        BY <1>1, <1>5, <1>6, <1>12, <2>2
      <3> QED BY <1>1, <1>3, <2>1, <2>2, <3>1 DEF BreakInv
    <2>6. \A q \in Proc : q # p => Untouched(q)
      BY <1>1, <2>1, <2>2 DEF Untouched
    <2> QED BY <1>1, <1>9, <2>1, <2>3, <2>4, <2>5, <2>6, StepOfOne
  <1>13. CASE new # old
    <2>1. PICK e, what : /\ e = IF new > old THEN <<old, new>> ELSE <<new, old>>
                         /\ what = IF new > old THEN "map" ELSE "unmap"
      OBVIOUS
    <2>2. /\ e \in PageRanges /\ what \in {"map", "unmap"} /\ e[1] < e[2]
          /\ what = "map" => new > old /\ e[1] = old /\ e[2] = new
          /\ what = "unmap" => new < old /\ e[1] = new /\ e[2] = old
      BY <1>4, <1>13, <2>1, VmmAssumption DEF PageRanges
    <2>3. /\ pc' = [pc EXCEPT ![p] = what] /\ todo' = [todo EXCEPT ![p] = <<e>>]
          /\ goal' = [goal EXCEPT ![p] = b] /\ heapBreak' = heapBreak
      BY <1>4, <1>13, <2>1 DEF Brk
    <2>4. PICK T : T = <<e>>
      OBVIOUS
    <2>5. T \in Seq(PageRanges) /\ T # <<>> /\ DOMAIN T = {1} /\ T[1] = e
      BY <2>2, <2>4
    <2>6. /\ pc' \in [Proc -> {"none", "entry", "map", "unmap", "user", "fork", "copy", "exit"}]
          /\ todo' \in [Proc -> Seq(PageRanges)] /\ goal' \in [Proc -> B]
          /\ pc'[p] = what /\ todo'[p] = T /\ goal'[p] = b
          /\ \A q \in Proc : q # p => pc'[q] = pc[q] /\ todo'[q] = todo[q] /\ goal'[q] = goal[q]
      BY <1>11, <2>2, <2>3, <2>4, <2>5
    <2>7. VmmTypeOK'
      BY <1>1, <1>8, <1>10, <2>3, <2>6 DEF VmmTypeOK, PageRanges
    <2>8. SpaceInv(p)'
      BY <1>1, <1>7, <2>2, <2>6 DEF SpaceInv
    <2>9. TodoInv(p)'
      BY <2>2, <2>5, <2>6 DEF TodoInv
    <2>10. BreakInv(p)'
      <3>1. \A v \in HeapPage : Queued(p, v)' <=> e[1] <= v /\ v < e[2]
        BY <2>5, <2>6 DEF Queued, In
      <3>2. \A i \in DOMAIN todo'[p], v \in HeapPage : In(todo'[p][i], v) => i = 1
        BY <2>5, <2>6
      <3>3. CASE what = "map"
        <4>1. \A v \in HeapPage : Queued(p, v)' <=> ~(v < old) /\ v < new
          BY <1>4, <1>5, <2>2, <3>1, <3>3
        <4>2. \A v \in HeapPage : v < old => v < new
          BY <1>4, <1>5, <2>2, <3>3
        <4>3. \A v \in HeapPage :
                 /\ Queued(p, v)' => v * PageSize < b
                 /\ pte[p][v] # Nil <=> v * PageSize < b /\ ~Queued(p, v)'
          BY <1>5, <1>6, <4>1, <4>2
        <4> QED BY <1>1, <1>3, <2>6, <3>2, <3>3, <4>3 DEF BreakInv
      <3>4. CASE what = "unmap"
        <4>1. \A v \in HeapPage : Queued(p, v)' <=> ~(v < new) /\ v < old
          BY <1>4, <1>5, <2>2, <3>1, <3>4
        <4>2. \A v \in HeapPage : v < new => v < old
          BY <1>4, <1>5, <2>2, <3>4
        <4>3. \A v \in HeapPage :
                 /\ Queued(p, v)' => ~(v * PageSize < b)
                 /\ pte[p][v] # Nil <=> v * PageSize < b \/ Queued(p, v)'
          BY <1>5, <1>6, <4>1, <4>2
        <4> QED BY <1>1, <1>3, <2>6, <3>2, <3>4, <4>3 DEF BreakInv
      <3> QED BY <2>2, <3>3, <3>4
    <2>11. \A q \in Proc : q # p => Untouched(q)
      BY <1>1, <2>3, <2>6 DEF Untouched
    <2> QED BY <1>1, <1>9, <2>2, <2>6, <2>7, <2>8, <2>9, <2>10, <2>11, StepOfOne
  <1> QED BY <1>12, <1>13

\* exit begins with the break; the frames are freed in the steps after it.
LEMMA ExitInv == ASSUME VmmInv, NEW p \in Proc, Exit(p) PROVE VmmInv'
  <1>1. /\ pc[p] = "user" /\ VmmTypeOK /\ OwnerInv /\ SpaceInv(p) /\ TodoInv(p) /\ BreakInv(p)
        /\ calls < MaxCalls /\ calls' = calls + 1
        /\ pc' = [pc EXCEPT ![p] = "exit"] /\ heapBreak' = [heapBreak EXCEPT ![p] = 0]
        /\ UNCHANGED <<avail, free_ranges, content, root, table, pte, goal, todo, held, child,
                       lost, panicked>>
    BY DEF VmmInv, Exit, Running, physVars, spaceVars
  <1>2. calls' \in 0 .. MaxCalls
    BY <1>1, VmmAssumption DEF VmmTypeOK
  <1>3. /\ pc' \in [Proc -> {"none", "entry", "map", "unmap", "user", "fork", "copy", "exit"}]
        /\ pc'[p] = "exit" /\ \A q \in Proc : q # p => pc'[q] = pc[q]
    BY <1>1 DEF VmmTypeOK
  <1>4. /\ heapBreak' \in [Proc -> 0 .. NPages * PageSize]
        /\ \A q \in Proc : q # p => heapBreak'[q] = heapBreak[q]
    <2>1. PICK B : B = 0 .. NPages * PageSize
      OBVIOUS
    <2>2. heapBreak \in [Proc -> B] /\ 0 \in B
      BY <1>1, <2>1, VmmAssumption DEF VmmTypeOK
    <2>3. heapBreak' \in [Proc -> B] /\ \A q \in Proc : q # p => heapBreak'[q] = heapBreak[q]
      BY <1>1, <2>2
    <2> QED BY <2>1, <2>3
  <1>5. VmmTypeOK'
    BY <1>1, <1>2, <1>3, <1>4 DEF VmmTypeOK
  <1>6. OwnerInv'
    BY <1>1, OwnerSame
  <1>7. SpaceInv(p)' /\ TodoInv(p)' /\ BreakInv(p)'
    BY <1>1, <1>3 DEF SpaceInv, TodoInv, BreakInv
  <1>8. \A q \in Proc : q # p => Untouched(q)
    BY <1>1, <1>3, <1>4 DEF Untouched
  <1> QED BY <1>1, <1>3, <1>5, <1>6, <1>7, <1>8, StepOfOne
-----------------------------------------------------------------------------
(***************************************************************************)
(* fini_thread, and the panic.                                             *)
(***************************************************************************)
LEMMA FreePageInv == ASSUME VmmInv, NEW p \in Proc, FreePage(p) PROVE VmmInv'
  <1>1. /\ pc[p] = "exit" /\ VmmTypeOK /\ OwnerInv /\ SpaceInv(p) /\ TodoInv(p) /\ BreakInv(p)
        /\ PagesToFree(p) # {}
        /\ UNCHANGED <<content, root, table, heapBreak, goal, pc, todo, held, child, lost, calls,
                       panicked>>
    BY DEF VmmInv, FreePage, Running, breakVars
  <1>2. Min(PagesToFree(p)) \in PagesToFree(p)
    <2>1. PagesToFree(p) \subseteq Nat
      BY VmmAssumption DEF PagesToFree, Mapped, Page
    <2> QED BY <1>1, <2>1, MinIn
  <1>3. PICK v \in Page : /\ pte[p][v] # Nil /\ Free(pte[p][v])
                          /\ pte' = [pte EXCEPT ![p][v] = Nil]
    BY <1>2 DEF FreePage, PagesToFree, Mapped
  <1>4. /\ pte' \in [Proc -> [Page -> Frame \cup {Nil}]]
        /\ \A q \in Proc : q # p => pte'[q] = pte[q]
        /\ \A w \in Page : pte'[p][w] = IF w = v THEN Nil ELSE pte[p][w]
    BY <1>1, <1>3 DEF VmmTypeOK
  <1>5. OwnerInv' /\ avail' \in Seq(Frame) /\ free_ranges' = free_ranges
    <2>1. PICK s \in Place : Holds[s] = pte[p][v] /\ Holds' = [Holds EXCEPT ![s] = Nil]
      BY <1>1, <1>3, PageEntry
    <2>2. OwnerInv' /\ avail' \in Seq(Frame)
      BY <1>1, <1>3, <2>1, OwnerGive
    <2> QED BY <1>3, <2>2 DEF Free
  <1>6. VmmTypeOK'
    BY <1>1, <1>4, <1>5 DEF VmmTypeOK
  <1>7. SpaceInv(p)'
    BY <1>1, <1>4 DEF SpaceInv
  <1>8. TodoInv(p)' /\ BreakInv(p)'
    BY <1>1 DEF TodoInv, BreakInv
  <1>9. \A q \in Proc : q # p => Untouched(q)
    BY <1>1, <1>4 DEF Untouched
  <1> QED BY <1>1, <1>5, <1>6, <1>7, <1>8, <1>9, StepOfOne

\* A table is freed after its pages, ...
LEMMA FreeTableInv == ASSUME VmmInv, NEW p \in Proc, FreeTable(p) PROVE VmmInv'
  <1>1. /\ pc[p] = "exit" /\ VmmTypeOK /\ OwnerInv /\ SpaceInv(p) /\ TodoInv(p) /\ BreakInv(p)
        /\ TablesToFree(p) # {} /\ PagesToFree(p) = {}
        /\ UNCHANGED <<content, root, pte, heapBreak, goal, pc, todo, held, child, lost, calls,
                       panicked>>
    BY DEF VmmInv, FreeTable, Running, breakVars
  <1>2. Min(TablesToFree(p)) \in TablesToFree(p)
    <2>1. TablesToFree(p) \subseteq Nat
      BY RegionsNat DEF TablesToFree
    <2> QED BY <1>1, <2>1, MinIn
  <1>3. PICK r \in Region : /\ r = Min(TablesToFree(p)) /\ table[p][r] # Nil /\ Free(table[p][r])
                            /\ table' = [table EXCEPT ![p][r] = Nil]
    BY <1>2 DEF FreeTable, TablesToFree
  <1>4. /\ table' \in [Proc -> [Region -> Frame \cup {Nil}]]
        /\ \A q \in Proc : q # p => table'[q] = table[q]
        /\ \A w \in Region : table'[p][w] = IF w = r THEN Nil ELSE table[p][w]
    BY <1>1, <1>3 DEF VmmTypeOK
  <1>5. OwnerInv' /\ avail' \in Seq(Frame) /\ free_ranges' = free_ranges
    <2>1. PICK s \in Place : Holds[s] = table[p][r] /\ Holds' = [Holds EXCEPT ![s] = Nil]
      <3>1. /\ VmmTypeOK /\ UNCHANGED <<root, pte, held>> /\ Nil \in Frame \cup {Nil}
            /\ table' = [table EXCEPT ![p][r] = Nil]
        BY <1>1, <1>3
      <3> QED BY <3>1, TableEntry
    <2>2. OwnerInv' /\ avail' \in Seq(Frame)
      BY <1>1, <1>3, <2>1, OwnerGive
    <2> QED BY <1>3, <2>2 DEF Free
  <1>6. VmmTypeOK'
    BY <1>1, <1>4, <1>5 DEF VmmTypeOK
  <1>7. SpaceInv(p)'
    <2>1. \A v \in Page : pte[p][v] # Nil => RegionOf(v) # r
      BY <1>1, <1>3 DEF PagesToFree, Mapped
    <2>2. \A v \in Page : pte[p][v] # Nil => table'[p][RegionOf(v)] # Nil
      BY <1>1, <1>4, <2>1, Regions DEF SpaceInv
    <2> QED BY <1>1, <2>2 DEF SpaceInv
  <1>8. TodoInv(p)' /\ BreakInv(p)'
    BY <1>1 DEF TodoInv, BreakInv
  <1>9. \A q \in Proc : q # p => Untouched(q)
    BY <1>1, <1>4 DEF Untouched
  <1> QED BY <1>1, <1>5, <1>6, <1>7, <1>8, <1>9, StepOfOne

\* ... and the root after its tables.
LEMMA FreeRootInv == ASSUME VmmInv, NEW p \in Proc, FreeRoot(p) PROVE VmmInv'
  <1>1. /\ pc[p] = "exit" /\ VmmTypeOK /\ OwnerInv /\ SpaceInv(p) /\ TodoInv(p) /\ BreakInv(p)
        /\ TablesToFree(p) = {} /\ Free(root[p])
        /\ root' = [root EXCEPT ![p] = Nil] /\ pc' = [pc EXCEPT ![p] = "none"]
        /\ UNCHANGED <<content, table, pte, heapBreak, goal, todo, held, child, lost, calls,
                       panicked>>
    BY DEF VmmInv, FreeRoot, Running, breakVars
  <1>2. root[p] # Nil /\ \A r \in Region : table[p][r] = Nil
    BY <1>1 DEF SpaceInv, TablesToFree
  <1>3. /\ root' \in [Proc -> Frame \cup {Nil}] /\ root'[p] = Nil
        /\ pc' \in [Proc -> {"none", "entry", "map", "unmap", "user", "fork", "copy", "exit"}]
        /\ pc'[p] = "none"
        /\ \A q \in Proc : q # p => root'[q] = root[q] /\ pc'[q] = pc[q]
    BY <1>1 DEF VmmTypeOK
  <1>4. OwnerInv' /\ avail' \in Seq(Frame) /\ free_ranges' = free_ranges
    <2>1. PICK s \in Place : Holds[s] = root[p] /\ Holds' = [Holds EXCEPT ![s] = Nil]
      BY <1>1, RootEntry
    <2>2. OwnerInv' /\ avail' \in Seq(Frame)
      BY <1>1, <1>2, <2>1, OwnerGive
    <2> QED BY <1>1, <2>2 DEF Free
  <1>5. VmmTypeOK'
    BY <1>1, <1>3, <1>4 DEF VmmTypeOK
  <1>6. SpaceInv(p)' /\ TodoInv(p)' /\ BreakInv(p)'
    BY <1>1, <1>2, <1>3 DEF SpaceInv, TodoInv, BreakInv
  <1>7. \A q \in Proc : q # p => Untouched(q)
    BY <1>1, <1>3 DEF Untouched
  <1> QED BY <1>1, <1>3, <1>4, <1>5, <1>6, <1>7, StepOfOne

\* An allocation that fails stops the machine.
LEMMA AllocPanicInv == ASSUME VmmInv, NEW p \in Proc, AllocPanic(p) PROVE VmmInv'
  <1>1. /\ panicked' = TRUE
        /\ UNCHANGED <<avail, free_ranges, content, root, table, pte, heapBreak, goal, pc, todo, held, child, lost, calls>>
    BY DEF AllocPanic, physVars, spaceVars, breakVars
  <1>2. VmmTypeOK'
    BY <1>1 DEF VmmInv, VmmTypeOK
  <1>3. OwnerInv'
    BY <1>1, OwnerSame DEF VmmInv
  <1>4. \A q \in Proc : SpaceInv(q)' /\ TodoInv(q)' /\ BreakInv(q)'
    BY <1>1, Others DEF VmmInv
  <1>5. \A q \in Proc : ForkInv(q)'
    BY <1>1 DEF VmmInv, ForkInv
  <1> QED BY <1>2, <1>3, <1>4, <1>5 DEF VmmInv
-----------------------------------------------------------------------------
(***************************************************************************)
(* snapshot_for_fork.                                                      *)
(***************************************************************************)

\* The copy of a fork is another process, and of no other fork.
LEMMA ForkPair ==
    ASSUME VmmInv, NEW p \in Proc, pc[p] = "fork"
    PROVE  /\ child[p] \in Proc /\ pc[child[p]] = "copy" /\ child[p] # p
           /\ \A q \in Proc : q # p /\ pc[q] = "fork" =>
                child[q] \in Proc /\ pc[child[q]] = "copy" /\ child[q] \notin {p, child[p]}
           /\ \A v \in Page : pte[child[p]][v] # Nil =>
                pte[p][v] # Nil /\ content[pte[child[p]][v]] = content[pte[p][v]]
           /\ held[p] = Nil /\ held[child[p]] = Nil
  <1>1. /\ child[p] \in Proc /\ pc[child[p]] = "copy"
        /\ \A v \in Page : pte[child[p]][v] # Nil =>
             pte[p][v] # Nil /\ content[pte[child[p]][v]] = content[pte[p][v]]
    BY DEF VmmInv, ForkInv
  <1>2. \A q \in Proc : pc[q] = "fork" =>
          /\ child[q] \in Proc /\ pc[child[q]] = "copy"
          /\ child[q] = child[p] => q = p
    BY DEF VmmInv, ForkInv
  <1>3. child[p] # p
    BY <1>1
  <1>4. held[p] = Nil /\ held[child[p]] = Nil
    BY <1>1 DEF VmmInv, SpaceInv
  <1> QED BY <1>1, <1>2, <1>3, <1>4

\* fork allocates the root of the copy, ...
LEMMA ForkStartInv ==
    ASSUME VmmInv, NEW p \in Proc, NEW q \in Proc, Fork(p, q)
    PROVE  VmmInv'
  <1>1. /\ pc[p] = "user" /\ pc[q] = "none" /\ VmmTypeOK /\ OwnerInv
        /\ calls < MaxCalls /\ calls' = calls + 1
        /\ pc' = [pc EXCEPT ![p] = "fork", ![q] = "copy"]
        /\ child' = [child EXCEPT ![p] = q]
        /\ UNCHANGED <<table, pte, heapBreak, goal, todo, held, lost, panicked>>
    BY DEF VmmInv, Fork, Running, breakVars
  <1>2. PICK f \in Frame, x \in Value :
          /\ Alloc(f, x)
          /\ root' = [root EXCEPT ![q] = f]
          /\ content' = [content EXCEPT ![f] = Dirty]
    BY DEF Fork
  <1>3. p # q /\ f # Nil /\ Dirty \in Value
    BY <1>1, VmmAssumption, PhysMemAssumption
  <1>4. /\ root[q] = Nil /\ held[q] = Nil /\ held[p] = Nil /\ root[p] # Nil
        /\ \A r \in Region : table[q][r] = Nil
        /\ \A v \in Page : pte[q][v] = Nil
    BY <1>1, Regions DEF VmmInv, SpaceInv
  <1>5. calls' \in 0 .. MaxCalls
    BY <1>1, VmmAssumption DEF VmmTypeOK
  <1>6. /\ pc' \in [Proc -> {"none", "entry", "map", "unmap", "user", "fork", "copy", "exit"}]
        /\ pc'[p] = "fork" /\ pc'[q] = "copy" /\ \A r \in Proc \ {p, q} : pc'[r] = pc[r]
    BY <1>1, <1>3 DEF VmmTypeOK
  <1>7. /\ child' \in [Proc -> Proc \cup {Nil}] /\ child'[p] = q
        /\ \A r \in Proc \ {p} : child'[r] = child[r]
    BY <1>1 DEF VmmTypeOK
  <1>8. /\ root' \in [Proc -> Frame \cup {Nil}] /\ root'[q] = f
        /\ \A r \in Proc \ {q} : root'[r] = root[r]
    BY <1>1, <1>2 DEF VmmTypeOK
  <1>9. content' \in [Frame -> Value] /\ avail' \in Seq(Frame)
        /\ free_ranges' \in Seq([base: Nat, length: Nat \ {0}])
    BY <1>1, <1>2, <1>3, AllocFacts DEF VmmTypeOK
  <1>10. VmmTypeOK'
    BY <1>1, <1>5, <1>6, <1>7, <1>8, <1>9 DEF VmmTypeOK
  <1>11. OwnerInv'
    <2>1. PICK s \in Place : Holds[s] = root[q] /\ Holds' = [Holds EXCEPT ![s] = f]
      BY <1>1, <1>2, RootEntry
    <2> QED BY <1>1, <1>2, <1>4, <2>1, OwnerTake
  <1>12. \A r \in Proc \ {p, q} : SpaceInv(r)' /\ TodoInv(r)' /\ BreakInv(r)'
    BY <1>1, <1>6, <1>8, Others DEF VmmInv
  <1>13. SpaceInv(q)' /\ TodoInv(q)' /\ BreakInv(q)'
    <2>1. SpaceInv(q)'
      BY <1>1, <1>3, <1>4, <1>6, <1>8 DEF SpaceInv
    <2>2. TodoInv(q)' /\ BreakInv(q)'
      BY <1>1, <1>6 DEF VmmInv, TodoInv, BreakInv
    <2> QED BY <2>1, <2>2
  <1>14. SpaceInv(p)' /\ TodoInv(p)' /\ BreakInv(p)'
    <2>1. SpaceInv(p) /\ TodoInv(p) /\ BreakInv(p)
      BY DEF VmmInv
    <2>2. SpaceInv(p)'
      BY <1>1, <1>3, <1>4, <1>6, <1>8, <2>1 DEF SpaceInv
    <2>3. TodoInv(p)'
      BY <1>1, <1>6, <2>1 DEF TodoInv
    <2>4. BreakInv(p)'
      BY <1>1, <1>6, <2>1 DEF BreakInv
    <2> QED BY <2>2, <2>3, <2>4
  <1>15. \A r \in Proc, v \in Page : pte[r][v] # Nil =>
           content'[pte[r][v]] = content[pte[r][v]]
    BY <1>1, <1>2, FreshContent
  <1>16. ASSUME NEW r \in Proc PROVE ForkInv(r)'
    <2>1. \A t \in Proc \ {p} : pc'[t] = "fork" =>
            /\ t # q /\ pc[t] = "fork" /\ child'[t] = child[t]
            /\ child[t] \in Proc /\ pc[child[t]] = "copy" /\ child[t] \notin {p, q}
      BY <1>1, <1>6, <1>7 DEF VmmInv, ForkInv
    <2>2. CASE r = p
      <3>1. \A t \in Proc : pc'[t] = "fork" /\ child'[t] = child'[p] => t = p
        BY <1>7, <2>1
      <3> QED BY <1>1, <1>4, <1>6, <1>7, <2>2, <3>1 DEF ForkInv
    <2>3. CASE r # p /\ pc'[r] = "fork"
      <3>1. /\ pc[r] = "fork" /\ child'[r] = child[r]
            /\ child[r] \in Proc /\ pc'[child[r]] = "copy" /\ child[r] # q
        BY <1>6, <2>1, <2>3
      <3>2. \A t \in Proc : pc'[t] = "fork" /\ child'[t] = child'[r] => t = r
        BY <1>7, <2>1, <3>1 DEF VmmInv, ForkInv
      <3>3. \A v \in Page : pte'[child'[r]][v] # Nil =>
               pte'[r][v] # Nil /\ content'[pte'[child'[r]][v]] = content'[pte'[r][v]]
        BY <1>1, <1>15, <3>1 DEF VmmInv, ForkInv
      <3> QED BY <3>1, <3>2, <3>3 DEF ForkInv
    <2> QED BY <2>2, <2>3 DEF ForkInv
  <1> QED BY <1>10, <1>11, <1>12, <1>13, <1>14, <1>16 DEF VmmInv

\* ... its tables ...
LEMMA ForkTableInv == ASSUME VmmInv, NEW p \in Proc, ForkTable(p) PROVE VmmInv'
  <1>1. /\ pc[p] = "fork" /\ VmmTypeOK /\ OwnerInv /\ TablesLeft(p) # {}
        /\ UNCHANGED <<root, pte, heapBreak, goal, pc, todo, held, child, lost, calls, panicked>>
    BY DEF VmmInv, ForkTable, Running, breakVars
  <1>2. PICK c \in Proc : c = child[p] /\ pc[c] = "copy" /\ c # p /\ held[c] = Nil
    BY <1>1, ForkPair
  <1>3. Min(TablesLeft(p)) \in TablesLeft(p)
    <2>1. TablesLeft(p) \subseteq Nat
      BY RegionsNat DEF TablesLeft
    <2> QED BY <1>1, <2>1, MinIn
  <1>4. PICK z \in Region : z = Min(TablesLeft(p)) /\ table[c][z] = Nil
    BY <1>2, <1>3 DEF TablesLeft
  <1>5. PICK f \in Frame, x \in Value :
          /\ Alloc(f, x)
          /\ table' = [table EXCEPT ![c][z] = f]
          /\ content' = [content EXCEPT ![f] = Zero]
    BY <1>2, <1>4 DEF ForkTable
  <1>6. f # Nil /\ Zero \in Value
    BY VmmAssumption, PhysMemAssumption
  <1>7. /\ table' \in [Proc -> [Region -> Frame \cup {Nil}]]
        /\ \A q \in Proc : q # c => table'[q] = table[q]
        /\ \A r \in Region : table'[c][r] = IF r = z THEN f ELSE table[c][r]
    BY <1>1, <1>5 DEF VmmTypeOK
  <1>8. content' \in [Frame -> Value] /\ avail' \in Seq(Frame)
        /\ free_ranges' \in Seq([base: Nat, length: Nat \ {0}])
    BY <1>1, <1>5, <1>6, AllocFacts DEF VmmTypeOK
  <1>9. VmmTypeOK'
    BY <1>1, <1>7, <1>8 DEF VmmTypeOK
  <1>10. OwnerInv'
    <2>1. PICK s \in Place : Holds[s] = table[c][z] /\ Holds' = [Holds EXCEPT ![s] = f]
      <3>1. /\ VmmTypeOK /\ UNCHANGED <<root, pte, held>> /\ f \in Frame \cup {Nil}
            /\ table' = [table EXCEPT ![c][z] = f]
        BY <1>1, <1>5
      <3> QED BY <3>1, TableEntry
    <2> QED BY <1>1, <1>4, <1>5, <2>1, OwnerTake
  <1>11. \A q \in Proc : q # c => SpaceInv(q)' /\ TodoInv(q)' /\ BreakInv(q)'
    BY <1>1, <1>7, Others DEF VmmInv
  <1>12. SpaceInv(c)'
    <2>1. \A v \in Page : pte'[c][v] # Nil => table'[c][RegionOf(v)] # Nil
      BY <1>1, <1>6, <1>7, Regions DEF VmmInv, SpaceInv
    <2> QED BY <1>1, <1>2, <2>1 DEF VmmInv, SpaceInv
  <1>13. TodoInv(c)' /\ BreakInv(c)'
    BY <1>1, <1>2 DEF VmmInv, TodoInv, BreakInv
  <1>14. \A q \in Proc, v \in Page : pte[q][v] # Nil => content'[pte[q][v]] = content[pte[q][v]]
    <2>1. \A q \in Proc, v \in Page : pte[q][v] # f
      BY <1>1, <1>5, AllocFresh
    <2>2. content \in [Frame -> Value] /\ \A q \in Proc, v \in Page : pte[q][v] \in Frame \cup {Nil}
      BY <1>1 DEF VmmTypeOK
    <2> QED BY <1>5, <2>1, <2>2
  <1>15. \A q \in Proc : ForkInv(q)'
    <2>1. \A q \in Proc : pc[q] = "fork" => pc[child[q]] = "copy"
      BY DEF VmmInv, ForkInv
    <2> QED BY <1>1, <1>14, <2>1, ForksKept DEF VmmInv
  <1> QED BY <1>9, <1>10, <1>11, <1>12, <1>13, <1>15 DEF VmmInv

\* ... and its pages.
LEMMA ForkPageInv == ASSUME VmmInv, NEW p \in Proc, ForkPage(p) PROVE VmmInv'
  <1>1. /\ pc[p] = "fork" /\ VmmTypeOK /\ OwnerInv /\ PagesLeft(p) # {}
        /\ UNCHANGED <<root, table, heapBreak, goal, pc, todo, held, child, lost, calls, panicked>>
    BY DEF VmmInv, ForkPage, Running, breakVars
  <1>2. PICK c \in Proc :
          /\ c = child[p] /\ pc[c] = "copy" /\ c # p /\ held[c] = Nil
          /\ \A q \in Proc : q # p /\ pc[q] = "fork" =>
               child[q] \in Proc /\ pc[child[q]] = "copy" /\ child[q] \notin {p, c}
          /\ \A v \in Page : pte[c][v] # Nil =>
               pte[p][v] # Nil /\ content[pte[c][v]] = content[pte[p][v]]
    BY <1>1, ForkPair
  <1>3. Min(PagesLeft(p)) \in PagesLeft(p)
    <2>1. PagesLeft(p) \subseteq Nat
      BY VmmAssumption DEF PagesLeft, Mapped, Page
    <2> QED BY <1>1, <2>1, MinIn
  <1>4. PICK z \in Page : /\ z = Min(PagesLeft(p)) /\ pte[p][z] # Nil
                          /\ table[c][RegionOf(z)] # Nil /\ pte[c][z] = Nil
    BY <1>2, <1>3 DEF PagesLeft, Mapped
  <1>5. PICK f \in Frame, x \in Value :
          /\ Alloc(f, x)
          /\ pte' = [pte EXCEPT ![c][z] = f]
          /\ content' = [content EXCEPT ![f] = content[pte[p][z]]]
    BY <1>2, <1>4 DEF ForkPage
  <1>6. f # Nil
    BY VmmAssumption
  <1>7. /\ pte' \in [Proc -> [Page -> Frame \cup {Nil}]]
        /\ \A q \in Proc : q # c => pte'[q] = pte[q]
        /\ \A v \in Page : pte'[c][v] = IF v = z THEN f ELSE pte[c][v]
    BY <1>1, <1>5 DEF VmmTypeOK
  <1>8. content' \in [Frame -> Value] /\ avail' \in Seq(Frame)
        /\ free_ranges' \in Seq([base: Nat, length: Nat \ {0}])
    BY <1>1, <1>4, <1>5, AllocFacts, SMTT(30) DEF VmmTypeOK
  <1>9. VmmTypeOK'
    BY <1>1, <1>7, <1>8 DEF VmmTypeOK
  <1>10. OwnerInv'
    <2>1. PICK s \in Place : Holds[s] = pte[c][z] /\ Holds' = [Holds EXCEPT ![s] = f]
      <3>1. /\ VmmTypeOK /\ UNCHANGED <<root, table, held>> /\ f \in Frame \cup {Nil}
            /\ pte' = [pte EXCEPT ![c][z] = f]
        BY <1>1, <1>5
      <3> QED BY <3>1, PageEntry
    <2> QED BY <1>1, <1>4, <1>5, <2>1, OwnerTake
  <1>11. \A q \in Proc : q # c => SpaceInv(q)' /\ TodoInv(q)' /\ BreakInv(q)'
    BY <1>1, <1>7, Others DEF VmmInv
  <1>12. SpaceInv(c)'
    <2>1. \A v \in Page : pte'[c][v] # Nil => table'[c][RegionOf(v)] # Nil
      BY <1>1, <1>4, <1>7 DEF VmmInv, SpaceInv
    <2> QED BY <1>1, <1>2, <2>1 DEF VmmInv, SpaceInv
  <1>13. TodoInv(c)' /\ BreakInv(c)'
    BY <1>1, <1>2 DEF VmmInv, TodoInv, BreakInv
  <1>14. \A q \in Proc, v \in Page : pte[q][v] # Nil => content'[pte[q][v]] = content[pte[q][v]]
    <2>1. \A q \in Proc, v \in Page : pte[q][v] # f
      BY <1>1, <1>5, AllocFresh
    <2>2. content \in [Frame -> Value] /\ \A q \in Proc, v \in Page : pte[q][v] \in Frame \cup {Nil}
      BY <1>1 DEF VmmTypeOK
    <2> QED BY <1>5, <2>1, <2>2
  <1>15. content'[f] = content'[pte[p][z]]
    BY <1>1, <1>4, <1>5, <1>14 DEF VmmTypeOK
  <1>16. ASSUME NEW q \in Proc PROVE ForkInv(q)'
    <2>1. \A t \in Proc : pc[q] = "fork" /\ pc[t] = "fork" /\ child[t] = child[q] => t = q
      BY DEF VmmInv, ForkInv
    <2>2. CASE q = p
      <3>1. \A v \in Page : pte'[c][v] # Nil =>
               pte'[p][v] # Nil /\ content'[pte'[c][v]] = content'[pte'[p][v]]
        BY <1>2, <1>4, <1>7, <1>14, <1>15
      <3> QED BY <1>1, <1>2, <2>1, <2>2, <3>1 DEF ForkInv
    <2>3. CASE q # p /\ pc[q] = "fork"
      <3>1. /\ child[q] \in Proc /\ pc[child[q]] = "copy" /\ child[q] # c /\ q # c
        BY <1>2, <2>3
      <3>2. \A v \in Page : pte[child[q]][v] # Nil =>
               pte[q][v] # Nil /\ content[pte[child[q]][v]] = content[pte[q][v]]
        BY <2>3 DEF VmmInv, ForkInv
      <3>3. \A v \in Page : pte'[child[q]][v] # Nil =>
               pte'[q][v] # Nil /\ content'[pte'[child[q]][v]] = content'[pte'[q][v]]
        BY <1>7, <1>14, <3>1, <3>2
      <3> QED BY <1>1, <2>1, <2>3, <3>1, <3>3 DEF ForkInv
    <2> QED BY <1>1, <2>2, <2>3 DEF ForkInv
  <1> QED BY <1>9, <1>10, <1>11, <1>12, <1>13, <1>16 DEF VmmInv

\* Everything has been copied.
LEMMA CopiedAll ==
    ASSUME VmmInv, NEW p \in Proc, Copied(p)
    PROVE  \A v \in Page : pte[child[p]][v] # Nil <=> pte[p][v] # Nil
  <1>1. /\ pc[p] = "fork" /\ TablesLeft(p) = {} /\ PagesLeft(p) = {}
    BY DEF Copied, Running
  <1>2. \A v \in Page : pte[child[p]][v] # Nil => pte[p][v] # Nil
    BY <1>1, ForkPair
  <1>3. \A r \in Region : table[p][r] # Nil => table[child[p]][r] # Nil
    BY <1>1 DEF TablesLeft
  <1>4. \A v \in Page : pte[p][v] # Nil => table[p][RegionOf(v)] # Nil
    BY DEF VmmInv, SpaceInv
  <1>5. \A v \in Page : pte[p][v] # Nil => pte[child[p]][v] # Nil
    BY <1>1, <1>3, <1>4, Regions DEF PagesLeft, Mapped
  <1> QED BY <1>2, <1>5

\* The copy becomes a process, ...
LEMMA ForkDoneInv == ASSUME VmmInv, NEW p \in Proc, ForkDone(p) PROVE VmmInv'
  <1>1. /\ pc[p] = "fork" /\ VmmTypeOK /\ OwnerInv
        /\ heapBreak' = [heapBreak EXCEPT ![child[p]] = heapBreak[p]]
        /\ pc' = [pc EXCEPT ![p] = "user", ![child[p]] = "user"]
        /\ child' = [child EXCEPT ![p] = Nil]
        /\ UNCHANGED <<avail, free_ranges, content, root, table, pte, goal, todo, held, lost,
                       calls, panicked>>
    BY DEF VmmInv, ForkDone, Copied, Running, physVars, spaceVars
  <1>2. PICK c \in Proc :
          /\ c = child[p] /\ pc[c] = "copy" /\ c # p /\ held[c] = Nil /\ held[p] = Nil
          /\ \A q \in Proc : q # p /\ pc[q] = "fork" =>
               child[q] \in Proc /\ pc[child[q]] = "copy" /\ child[q] \notin {p, c}
    BY <1>1, ForkPair
  <1>3. \A v \in Page : pte[c][v] # Nil <=> pte[p][v] # Nil
    BY <1>2, CopiedAll DEF ForkDone
  <1>4. /\ heapBreak[p] \in HeapStart .. MaxBreak
        /\ \A v \in HeapPage : pte[p][v] # Nil <=> v * PageSize < heapBreak[p]
    BY <1>1 DEF VmmInv, BreakInv
  <1>5. /\ pc' \in [Proc -> {"none", "entry", "map", "unmap", "user", "fork", "copy", "exit"}]
        /\ pc'[p] = "user" /\ pc'[c] = "user" /\ \A q \in Proc \ {p, c} : pc'[q] = pc[q]
    BY <1>1, <1>2 DEF VmmTypeOK
  <1>6. /\ heapBreak' \in [Proc -> 0 .. NPages * PageSize]
        /\ heapBreak'[c] = heapBreak[p] /\ \A q \in Proc \ {c} : heapBreak'[q] = heapBreak[q]
    <2>1. PICK B : B = 0 .. NPages * PageSize
      OBVIOUS
    <2>2. heapBreak \in [Proc -> B]
      BY <1>1, <2>1 DEF VmmTypeOK
    <2>3. /\ heapBreak' \in [Proc -> B]
          /\ heapBreak'[c] = heapBreak[p] /\ \A q \in Proc \ {c} : heapBreak'[q] = heapBreak[q]
      BY <1>1, <1>2, <2>2
    <2> QED BY <2>1, <2>3
  <1>7. child' \in [Proc -> Proc \cup {Nil}] /\ \A q \in Proc \ {p} : child'[q] = child[q]
    BY <1>1 DEF VmmTypeOK
  <1>8. VmmTypeOK'
    BY <1>1, <1>5, <1>6, <1>7 DEF VmmTypeOK
  <1>9. OwnerInv'
    BY <1>1, OwnerSame
  <1>10. \A q \in Proc \ {p, c} : SpaceInv(q)' /\ TodoInv(q)' /\ BreakInv(q)'
    BY <1>1, <1>5, <1>6, Others DEF VmmInv
  <1>11. \A q \in {p, c} : SpaceInv(q)' /\ TodoInv(q)'
    BY <1>1, <1>2, <1>5 DEF VmmInv, SpaceInv, TodoInv
  <1>12. BreakInv(p)'
    BY <1>1, <1>2, <1>4, <1>5, <1>6 DEF BreakInv
  <1>13. BreakInv(c)'
    <2>1. \A v \in HeapPage : pte[c][v] # Nil <=> v * PageSize < heapBreak[p]
      BY <1>3, <1>4 DEF HeapPage
    <2> QED BY <1>1, <1>4, <1>5, <1>6, <2>1 DEF BreakInv
  <1>14. \A q \in Proc : ForkInv(q)'
    <2>1. \A q \in Proc : pc'[q] = "fork" =>
            /\ q \notin {p, c} /\ pc[q] = "fork" /\ child'[q] = child[q]
            /\ child[q] \in Proc /\ pc'[child[q]] = "copy"
      BY <1>2, <1>5, <1>7
    <2> QED BY <1>1, <2>1, ForksKept DEF VmmInv
  <1> QED BY <1>8, <1>9, <1>10, <1>11, <1>12, <1>13, <1>14 DEF VmmInv

\* ... or is dropped when no pid is free.
LEMMA ForkFullInv == ASSUME VmmInv, NEW p \in Proc, ForkFull(p) PROVE VmmInv'
  <1>1. /\ pc[p] = "fork" /\ VmmTypeOK /\ OwnerInv
        /\ UNCHANGED <<avail, free_ranges, content, heapBreak, goal, todo, held, panicked, calls>>
        /\ child' = [child EXCEPT ![p] = Nil]
    BY DEF VmmInv, ForkFull, Copied, Running, physVars, breakVars
  <1>2. PICK c \in Proc :
          /\ c = child[p] /\ pc[c] = "copy" /\ c # p /\ held[c] = Nil /\ held[p] = Nil
          /\ \A q \in Proc : q # p /\ pc[q] = "fork" =>
               child[q] \in Proc /\ pc[child[q]] = "copy" /\ child[q] \notin {p, c}
    BY <1>1, ForkPair
  <1>3. /\ lost' = lost \cup FramesOfSpace(c)
        /\ root' = [root EXCEPT ![c] = Nil]
        /\ table' = [table EXCEPT ![c] = [r \in Region |-> Nil]]
        /\ pte' = [pte EXCEPT ![c] = [v \in Page |-> Nil]]
        /\ pc' = [pc EXCEPT ![p] = "user", ![c] = "none"]
    BY <1>2 DEF ForkFull
  <1>4. /\ pc' \in [Proc -> {"none", "entry", "map", "unmap", "user", "fork", "copy", "exit"}]
        /\ pc'[p] = "user" /\ pc'[c] = "none" /\ \A q \in Proc \ {p, c} : pc'[q] = pc[q]
    BY <1>1, <1>2, <1>3 DEF VmmTypeOK
  <1>5. child' \in [Proc -> Proc \cup {Nil}] /\ \A q \in Proc \ {p} : child'[q] = child[q]
    BY <1>1 DEF VmmTypeOK
  <1>6. /\ root' \in [Proc -> Frame \cup {Nil}]
        /\ table' \in [Proc -> [Region -> Frame \cup {Nil}]]
        /\ pte' \in [Proc -> [Page -> Frame \cup {Nil}]]
        /\ \A q \in Proc \ {c} : root'[q] = root[q] /\ table'[q] = table[q] /\ pte'[q] = pte[q]
        /\ root'[c] = Nil /\ (\A r \in Region : table'[c][r] = Nil)
        /\ (\A v \in Page : pte'[c][v] = Nil)
    BY <1>1, <1>3 DEF VmmTypeOK
  <1>7. PICK M : M = FramesOfSpace(c)
    OBVIOUS
  <1>8. /\ M \subseteq Frame
        /\ \A f \in Frame : f \in M <=> \/ f = root[c] \/ \E r \in Region : f = table[c][r]
                                        \/ \E v \in Page : f = pte[c][v]
    <2>1. \A f : f \in M <=> f # Nil /\ (\/ f = root[c] \/ \E r \in Region : f = table[c][r]
                                         \/ \E v \in Page : f = pte[c][v])
      BY <1>7 DEF FramesOfSpace
    <2>2. /\ root[c] \in Frame \cup {Nil} /\ \A r \in Region : table[c][r] \in Frame \cup {Nil}
          /\ \A v \in Page : pte[c][v] \in Frame \cup {Nil}
      BY <1>1 DEF VmmTypeOK
    <2>3. Nil \notin Frame
      BY VmmAssumption
    <2> QED BY <2>1, <2>2, <2>3
  <1>9. lost' = lost \cup M /\ lost' \subseteq Frame
    BY <1>1, <1>3, <1>7, <1>8 DEF VmmTypeOK
  <1>10. VmmTypeOK'
    BY <1>1, <1>4, <1>5, <1>6, <1>9 DEF VmmTypeOK
  <1>11. OwnerInv'
    <2>1. Agree(Holds, root, table, pte, held) /\ Agree(Holds', root', table', pte', held')
      BY <1>1, <1>10, HoldsAgree, HoldsAgreeNext
    <2>2. PICK H, G : H = Holds /\ G = Holds'
      OBVIOUS
    <2>3. Agree(H, root, table, pte, held) /\ Agree(G, root', table', pte', held)
      BY <1>1, <2>1, <2>2
    <2>4. PICK D \in SUBSET Place : \A s \in Place : s \in D <=>
             \/ s = <<"root", c>> \/ \E r \in Region : s = <<"table", <<c, r>> >>
             \/ \E v \in Page : s = <<"page", <<c, v>> >>
      <3> DEFINE E == {s \in Place :
             \/ s = <<"root", c>> \/ \E r \in Region : s = <<"table", <<c, r>> >>
             \/ \E v \in Page : s = <<"page", <<c, v>> >>}
      <3>1. E \in SUBSET Place /\ \A s \in Place : s \in E <=>
             \/ s = <<"root", c>> \/ \E r \in Region : s = <<"table", <<c, r>> >>
             \/ \E v \in Page : s = <<"page", <<c, v>> >>
        OBVIOUS
      <3> QED BY <3>1
    <2>5. \A f \in Frame : f \in M <=> \E s \in D : H[s] = f
      <3>1. ASSUME NEW f \in Frame, NEW s \in D, H[s] = f PROVE f \in M
        BY <1>8, <2>3, <2>4, <3>1 DEF Agree
      <3>2. ASSUME NEW f \in Frame, f = root[c] PROVE \E s \in D : H[s] = f
        <4>1. PICK s : s = <<"root", c>>
          OBVIOUS
        <4>2. s \in D /\ s \in Place
          BY <2>4, <4>1, Places
        <4> QED BY <2>3, <3>2, <4>1, <4>2 DEF Agree
      <3>3. ASSUME NEW f \in Frame, NEW r \in Region, f = table[c][r] PROVE \E s \in D : H[s] = f
        <4>1. PICK s : s = <<"table", <<c, r>> >>
          OBVIOUS
        <4>2. s \in D /\ s \in Place
          BY <2>4, <4>1, Places
        <4> QED BY <2>3, <3>3, <4>1, <4>2 DEF Agree
      <3>4. ASSUME NEW f \in Frame, NEW v \in Page, f = pte[c][v] PROVE \E s \in D : H[s] = f
        <4>1. PICK s : s = <<"page", <<c, v>> >>
          OBVIOUS
        <4>2. s \in D /\ s \in Place
          BY <2>4, <4>1, Places
        <4> QED BY <2>3, <3>4, <4>1, <4>2 DEF Agree
      <3> QED BY <1>8, <3>1, <3>2, <3>3, <3>4
    <2>6. ASSUME NEW s \in Place PROVE G[s] = IF s \in D THEN Nil ELSE H[s]
      <3>1. CASE \E q \in Proc : s = <<"root", q>>
        BY <1>6, <2>3, <2>4, <3>1, Pairs DEF Agree
      <3>2. CASE \E q \in Proc : s = <<"held", q>>
        BY <2>3, <2>4, <3>2, Pairs DEF Agree
      <3>3. CASE \E q \in Proc, r \in Region : s = <<"table", <<q, r>> >>
        BY <1>6, <2>3, <2>4, <3>3, Pairs DEF Agree
      <3>4. CASE \E q \in Proc, v \in Page : s = <<"page", <<q, v>> >>
        BY <1>6, <2>3, <2>4, <3>4, Pairs DEF Agree
      <3> QED BY <3>1, <3>2, <3>3, <3>4, PlaceCases
    <2>7. H \in [Place -> Frame \cup {Nil}] /\ G = [s \in Place |-> IF s \in D THEN Nil ELSE H[s]]
      BY <2>3, <2>6 DEF Agree
    <2>8. Partition(H, Range(avail), FramesIn(free_ranges), lost)
      BY <1>1, <2>2 DEF OwnerInv
    <2>9. Partition(G, Range(avail), FramesIn(free_ranges), lost \cup M)
      BY <1>8, <2>5, <2>7, <2>8, VmmAssumption DEF Partition
    <2> QED BY <1>1, <1>9, <2>2, <2>9 DEF OwnerInv
  <1>12. \A q \in Proc \ {p, c} : SpaceInv(q)' /\ TodoInv(q)' /\ BreakInv(q)'
    BY <1>1, <1>4, <1>6, Others DEF VmmInv
  <1>13. SpaceInv(c)' /\ TodoInv(c)' /\ BreakInv(c)'
    BY <1>1, <1>2, <1>4, <1>6 DEF VmmInv, SpaceInv, TodoInv, BreakInv
  <1>14. SpaceInv(p)' /\ TodoInv(p)' /\ BreakInv(p)'
    <2>1. SpaceInv(p) /\ TodoInv(p) /\ BreakInv(p)
      BY DEF VmmInv
    <2>2. SpaceInv(p)'
      BY <1>1, <1>2, <1>4, <1>6, <2>1 DEF SpaceInv
    <2>3. TodoInv(p)'
      BY <1>1, <1>4, <2>1 DEF TodoInv
    <2>4. BreakInv(p)'
      BY <1>1, <1>2, <1>4, <1>6, <2>1 DEF BreakInv
    <2> QED BY <2>2, <2>3, <2>4
  <1>15. \A q \in Proc : ForkInv(q)'
    <2>1. \A q \in Proc : pc'[q] = "fork" =>
            /\ q \notin {p, c} /\ pc[q] = "fork" /\ child'[q] = child[q] /\ child[q] \in Proc
            /\ pc'[child[q]] = "copy" /\ child[q] \notin {p, c}
      BY <1>2, <1>4, <1>5
    <2>2. \A q \in Proc : pc'[q] = "fork" =>
            /\ pc[q] = "fork" /\ child'[q] = child[q] /\ pte'[q] = pte[q]
            /\ pc'[child[q]] = "copy" /\ pte'[child[q]] = pte[child[q]]
      BY <1>6, <2>1
    <2> QED BY <1>1, <2>2, ForksKept DEF VmmInv
  <1> QED BY <1>10, <1>11, <1>12, <1>13, <1>14, <1>15 DEF VmmInv
-----------------------------------------------------------------------------
(***************************************************************************)
(* The invariant.                                                          *)
(***************************************************************************)

\* The list of ranges is built back to front.
LEMMA ReverseFacts ==
    ASSUME NEW R, R = Reverse(Usable)
    PROVE  R \in Seq(FrameRange) /\ Disjoint(R) /\ FramesIn(R) = Frame
  <1>1. PICK n \in Nat : n = Len(Usable)
    BY PhysMemAssumption
  <1>2. Usable \in Seq(FrameRange) /\ DOMAIN Usable = 1 .. n
    BY <1>1, PhysMemAssumption DEF FrameRange
  <1>3. R = [i \in 1 .. n |-> Usable[(n - i) + 1]]
    BY <1>1 DEF Reverse
  <1>4. \A i \in 1 .. n : (n - i) + 1 \in 1 .. n /\ (n - ((n - i) + 1)) + 1 = i
    BY <1>1
  <1>5. DOMAIN R = 1 .. n /\ \A i \in 1 .. n : R[i] = Usable[(n - i) + 1] /\ R[i] \in FrameRange
    BY <1>2, <1>3, <1>4
  <1>6. R \in Seq(FrameRange)
    BY <1>1, <1>3, <1>5
  <1>7. Disjoint(R)
    <2>1. \A i, j \in 1 .. n : i # j => (n - i) + 1 # (n - j) + 1
      BY <1>1
    <2>2. \A k, l \in 1 .. n : k # l => FramesOf(Usable[k]) \cap FramesOf(Usable[l]) = {}
      BY <1>2, PhysMemAssumption
    <2>3. ASSUME NEW i \in 1 .. n, NEW j \in 1 .. n, i # j
          PROVE  FramesOf(R[i]) \cap FramesOf(R[j]) = {}
      <3>1. PICK k \in 1 .. n, l \in 1 .. n : k = (n - i) + 1 /\ l = (n - j) + 1 /\ k # l
        BY <1>4, <2>1, <2>3
      <3>2. R[i] = Usable[k] /\ R[j] = Usable[l]
        BY <1>5, <3>1
      <3> QED BY <2>2, <3>1, <3>2
    <2> QED BY <1>5, <2>3 DEF Disjoint
  <1>8. \A g : g \in FramesIn(R) <=> \E i \in 1 .. n : g \in FramesOf(R[i])
    BY <1>5, <1>6, InFrames
  <1>9. \A g : g \in Frame <=> \E i \in 1 .. n : g \in FramesOf(Usable[i])
    BY <1>2, InFrames DEF Frame
  <1>10. ASSUME NEW g \in FramesIn(R) PROVE g \in Frame
    BY <1>4, <1>5, <1>8, <1>9
  <1>11. ASSUME NEW g \in Frame PROVE g \in FramesIn(R)
    <2>1. PICK i \in 1 .. n : g \in FramesOf(Usable[i])
      BY <1>9
    <2>2. PICK j \in 1 .. n : (n - j) + 1 = i
      BY <1>4
    <2> QED BY <1>5, <1>8, <2>1, <2>2
  <1> QED BY <1>6, <1>7, <1>10, <1>11

\* The invariant holds before the first process.
LEMMA VmmInitInv == ASSUME VmmInit PROVE VmmInv
  <1>1. /\ avail = <<>> /\ free_ranges = Reverse(Usable) /\ content = [f \in Frame |-> Dirty]
        /\ root = [p \in Proc |-> Nil]
        /\ table = [p \in Proc |-> [r \in Region |-> Nil]]
        /\ pte = [p \in Proc |-> [v \in Page |-> Nil]]
        /\ heapBreak = [p \in Proc |-> 0] /\ goal = [p \in Proc |-> 0]
        /\ todo = [p \in Proc |-> <<>>] /\ held = [p \in Proc |-> Nil]
        /\ child = [p \in Proc |-> Nil] /\ lost = {} /\ calls = 0 /\ panicked = FALSE
    BY DEF VmmInit, PhysInit
  <1>2. pc \in [Proc -> {"none", "entry"}]
    BY DEF VmmInit
  <1>3. /\ free_ranges \in Seq(FrameRange) /\ Disjoint(free_ranges)
        /\ FramesIn(free_ranges) = Frame
    BY <1>1, ReverseFacts
  <1>4. VmmTypeOK
    <2>1. 0 \in 0 .. NPages * PageSize /\ 0 \in 0 .. MaxCalls /\ Dirty \in Value
      BY VmmAssumption, PhysMemAssumption
    <2>2. heapBreak \in [Proc -> 0 .. NPages * PageSize] /\ goal \in [Proc -> 0 .. NPages * PageSize]
      BY <1>1, <2>1
    <2>3. content \in [Frame -> Value] /\ calls \in 0 .. MaxCalls
      BY <1>1, <2>1
    <2>4. pc \in [Proc -> {"none", "entry", "map", "unmap", "user", "fork", "copy", "exit"}]
      BY <1>2
    <2>5. avail \in Seq(Frame) /\ todo \in [Proc -> Seq((0 .. NPages) \X (0 .. NPages))]
      BY <1>1
    <2>6. /\ root \in [Proc -> Frame \cup {Nil}] /\ held \in [Proc -> Frame \cup {Nil}]
          /\ table \in [Proc -> [Region -> Frame \cup {Nil}]]
          /\ pte \in [Proc -> [Page -> Frame \cup {Nil}]]
          /\ child \in [Proc -> Proc \cup {Nil}] /\ lost \subseteq Frame /\ panicked \in BOOLEAN
      BY <1>1
    <2> QED BY <1>3, <2>2, <2>3, <2>4, <2>5, <2>6 DEF VmmTypeOK, FrameRange
  <1>5. OwnerInv
    <2>1. Agree(Holds, root, table, pte, held)
      BY <1>4, HoldsAgree
    <2>2. ASSUME NEW s \in Place PROVE Holds[s] = Nil
      <3>1. CASE \E p \in Proc : s = <<"root", p>> \/ s = <<"held", p>>
        BY <1>1, <2>1, <3>1 DEF Agree
      <3>2. CASE \E p \in Proc, r \in Region : s = <<"table", <<p, r>> >>
        BY <1>1, <2>1, <3>2 DEF Agree
      <3>3. CASE \E p \in Proc, v \in Page : s = <<"page", <<p, v>> >>
        BY <1>1, <2>1, <3>3 DEF Agree
      <3> QED BY <3>1, <3>2, <3>3, PlaceCases
    <2>3. DOMAIN Holds = Place
      BY <2>1 DEF Agree
    <2>4. Range(avail) = {} /\ IsInjective(avail)
      BY <1>1 DEF Range, IsInjective
    <2>5. Partition(Holds, {}, Frame, {})
      BY <2>2, <2>3 DEF Partition
    <2> QED BY <1>1, <1>3, <2>4, <2>5 DEF OwnerInv
  <1>6. ASSUME NEW p \in Proc PROVE SpaceInv(p) /\ TodoInv(p) /\ ForkInv(p) /\ BreakInv(p)
    <2>1. pc[p] \in {"none", "entry"}
      BY <1>2
    <2>2. SpaceInv(p)
      BY <1>1, <2>1 DEF SpaceInv
    <2>3. TodoInv(p)
      BY <1>1, <2>1 DEF TodoInv
    <2>4. ForkInv(p) /\ BreakInv(p)
      BY <2>1 DEF ForkInv, BreakInv
    <2> QED BY <2>2, <2>3, <2>4
  <1> QED BY <1>4, <1>5, <1>6 DEF VmmInv

\* Every step of a process preserves the invariant.
LEMMA VmmStepInv == ASSUME VmmInv, [VmmNext]_vmmVars PROVE VmmInv'
  <1>1. ASSUME NEW p \in Proc, Step(p) PROVE VmmInv'
    BY <1>1, InitThreadInv, MapSkipInv, MapPageInv, MapHoldInv, MapTableInv, UnmapPageInv,
       UserStoreInv, BrkInv, ForkStartInv, ForkTableInv, ForkPageInv, ForkDoneInv, ForkFullInv,
       ExitInv, FreePageInv, FreeTableInv, FreeRootInv, AllocPanicInv
    DEF Step
  <1>2. CASE UNCHANGED vmmVars
    <2>1. UNCHANGED <<avail, free_ranges, content, root, table, pte, heapBreak, goal, pc, todo,
                      held, child, lost, calls, panicked>>
      BY <1>2 DEF vmmVars, physVars, spaceVars, breakVars
    <2>2. VmmTypeOK'
      BY <2>1 DEF VmmInv, VmmTypeOK
    <2>3. OwnerInv'
      BY <2>1, OwnerSame DEF VmmInv
    <2>4. \A q \in Proc : SpaceInv(q)' /\ TodoInv(q)' /\ BreakInv(q)'
      BY <2>1, Others DEF VmmInv
    <2>5. \A q \in Proc : ForkInv(q)'
      BY <2>1 DEF VmmInv, ForkInv
    <2> QED BY <2>2, <2>3, <2>4, <2>5 DEF VmmInv
  <1> QED BY <1>1, <1>2 DEF VmmNext

\* Type correctness and ownership of frames (OwnerInv), and the places of the kernel in
\* map_range, brk, fork and exit that ownership depends on.
THEOREM VmmInvariant == VmmSpec => []VmmInv
  <1>1. VmmInit => VmmInv
    BY VmmInitInv
  <1>2. VmmInv /\ [VmmNext]_vmmVars => VmmInv'
    BY VmmStepInv
  <1> QED BY <1>1, <1>2, PTL DEF VmmSpec

\* The pages of the heap below the break are mapped whenever the process runs, and no
\* others: sys_brk rounds up before it compares pages, whatever the break was before.
THEOREM VmmBreakMapped == VmmSpec => []BreakMapped
  <1>1. VmmInv => BreakMapped
    BY DEF VmmInv, BreakInv, BreakMapped, HeapPage, Mapped
  <1> QED BY <1>1, VmmInvariant, PTL

\* The slots of OneOwner are the entries of the list of freed frames and the places.
LEMMA Slots ==
    ASSUME VmmTypeOK
    PROVE  /\ \A s \in InUse : \/ \E i \in DOMAIN avail : s = <<"avail", i>> /\ HeldBy(s) = avail[i]
                               \/ s \in Place /\ HeldBy(s) = Holds[s] /\ HeldBy(s) # Nil
           /\ \A s \in Place : Holds[s] # Nil => s \in InUse /\ HeldBy(s) = Holds[s]
           /\ \A i \in DOMAIN avail : \E s \in InUse : HeldBy(s) = avail[i]
  <1>1. \A s : s \in Slot <=> s \in {"avail"} \X DOMAIN avail \/ s \in Place
    BY DEF Slot, Place
  <1>2. ASSUME NEW s \in Place PROVE HeldBy(s) = Holds[s]
    <2>1. s[1] \in {"root", "held", "table", "page"}
      BY PlaceCases
    <2>2. HeldBy(s) = HoldAt(root, table, pte, held, s)
      BY <2>1 DEF HeldBy, HoldAt
    <2> QED BY <2>2 DEF Holds, HoldsOf
  <1>3. \A s, i : s = <<"avail", i>> => HeldBy(s) = avail[i]
    BY DEF HeldBy
  <1>4. ASSUME NEW i \in DOMAIN avail
        PROVE  \E s \in InUse : HeldBy(s) = avail[i]
    <2>1. PICK s : s = <<"avail", i>>
      OBVIOUS
    <2>2. s \in Slot /\ HeldBy(s) = avail[i]
      BY <1>1, <1>3, <2>1
    <2>3. avail[i] # Nil
      <3>1. avail[i] \in Frame
        BY DEF VmmTypeOK
      <3> QED BY <3>1, VmmAssumption
    <2> QED BY <2>2, <2>3 DEF InUse
  <1>5. ASSUME NEW s \in InUse
        PROVE  \/ \E i \in DOMAIN avail : s = <<"avail", i>> /\ HeldBy(s) = avail[i]
               \/ s \in Place /\ HeldBy(s) = Holds[s] /\ HeldBy(s) # Nil
    <2>1. s \in Slot /\ HeldBy(s) # Nil
      BY DEF InUse
    <2>2. CASE s \in Place
      BY <1>2, <2>1, <2>2
    <2>3. CASE s \in {"avail"} \X DOMAIN avail
      <3>1. PICK i \in DOMAIN avail : s = <<"avail", i>>
        BY <2>3
      <3> QED BY <1>3, <3>1
    <2> QED BY <1>1, <2>1, <2>2, <2>3
  <1>6. \A s \in Place : Holds[s] # Nil => s \in InUse /\ HeldBy(s) = Holds[s]
    BY <1>1, <1>2 DEF InUse
  <1> QED BY <1>4, <1>5, <1>6

\* The list of freed frames names none twice.
LEMMA FreedFrames ==
    ASSUME OwnerInv
    PROVE  /\ \A i, j \in DOMAIN avail : avail[i] = avail[j] => i = j
           /\ \A x : x \in Range(avail) <=> \E i \in DOMAIN avail : x = avail[i]
  BY DEF OwnerInv, IsInjective, Range

\* No frame is freed twice, handed out while it is in use, or entered at two places of
\* the page tables, in any interleaving of the allocations and frees of the processes.
THEOREM VmmOneOwner == VmmSpec => []OneOwner
  <1>1. ASSUME VmmInv PROVE OneOwner
    <2>1. VmmTypeOK /\ OwnerInv
      BY <1>1 DEF VmmInv
    <2>2. /\ \A i, j \in DOMAIN avail : avail[i] = avail[j] => i = j
          /\ \A i \in DOMAIN avail : avail[i] \in Range(avail)
      BY <2>1, FreedFrames
    <2>3. PICK A, F : A = Range(avail) /\ F = FramesIn(free_ranges)
      OBVIOUS
    <2>4. Partition(Holds, A, F, lost) /\ DOMAIN Holds = Place
      BY <2>1, <2>3, HoldsAgree DEF OwnerInv, Agree
    <2>5. \A s \in InUse : \/ \E i \in DOMAIN avail : s = <<"avail", i>> /\ HeldBy(s) = avail[i]
                           \/ s \in Place /\ HeldBy(s) = Holds[s] /\ HeldBy(s) # Nil
      BY <2>1, Slots
    <2>6. ASSUME NEW s \in InUse, NEW t \in InUse, HeldBy(s) = HeldBy(t) PROVE s = t
      <3>1. CASE s \in Place /\ HeldBy(s) = Holds[s] /\ HeldBy(s) # Nil
        <4>1. HeldBy(s) \notin A
          BY <2>4, <3>1 DEF Partition
        <4>2. ~\E j \in DOMAIN avail : HeldBy(t) = avail[j]
          BY <2>2, <2>3, <2>6, <4>1
        <4>3. t \in Place /\ HeldBy(t) = Holds[t]
          BY <2>5, <4>2
        <4> QED BY <2>4, <2>6, <3>1, <4>3 DEF Partition
      <3>2. CASE \E i \in DOMAIN avail : s = <<"avail", i>> /\ HeldBy(s) = avail[i]
        <4>1. PICK i \in DOMAIN avail : s = <<"avail", i>> /\ HeldBy(s) = avail[i]
          BY <3>2
        <4>2. HeldBy(t) \in A
          BY <2>2, <2>3, <2>6, <4>1
        <4>3. ~(t \in Place /\ HeldBy(t) = Holds[t] /\ HeldBy(t) # Nil)
          BY <2>4, <4>2 DEF Partition
        <4>4. PICK j \in DOMAIN avail : t = <<"avail", j>> /\ HeldBy(t) = avail[j]
          BY <2>5, <4>3
        <4> QED BY <2>2, <2>6, <4>1, <4>4
      <3> QED BY <2>5, <3>1, <3>2
    <2>7. ASSUME NEW s \in InUse PROVE HeldBy(s) \notin lost \cup F
      <3>1. CASE s \in Place /\ HeldBy(s) = Holds[s] /\ HeldBy(s) # Nil
        BY <2>4, <3>1 DEF Partition
      <3>2. CASE \E i \in DOMAIN avail : HeldBy(s) = avail[i]
        BY <2>2, <2>3, <2>4, <3>2 DEF Partition
      <3> QED BY <2>5, <3>1, <3>2
    <2>8. lost \cap F = {}
      BY <2>4 DEF Partition
    <2> QED BY <2>3, <2>6, <2>7, <2>8 DEF OneOwner
  <1> QED BY <1>1, VmmInvariant, PTL

\* What unmapping, exit and the page tables of fork hold is given back or passed on: every
\* frame is in use, freed, new, or in a copy that a fork without a pid has dropped.
THEOREM VmmNoFrameLost == VmmSpec => []NoFrameLost
  <1>1. ASSUME VmmInv PROVE NoFrameLost
    <2>1. VmmTypeOK /\ OwnerInv
      BY <1>1 DEF VmmInv
    <2>2. \A x : x \in Range(avail) <=> \E i \in DOMAIN avail : x = avail[i]
      BY <2>1, FreedFrames
    <2>3. PICK A, F : A = Range(avail) /\ F = FramesIn(free_ranges)
      OBVIOUS
    <2>4. Partition(Holds, A, F, lost) /\ DOMAIN Holds = Place
      BY <2>1, <2>3, HoldsAgree DEF OwnerInv, Agree
    <2>5. PICK U : U = {HeldBy(s) : s \in InUse}
      OBVIOUS
    <2>6. ASSUME NEW f \in Frame PROVE f \in U \cup F \cup lost
      <3>1. CASE f \in F \/ f \in lost
        BY <3>1
      <3>2. CASE f \in A
        <4>1. PICK i \in DOMAIN avail : f = avail[i]
          BY <2>2, <2>3, <3>2
        <4>2. PICK s \in InUse : HeldBy(s) = avail[i]
          BY <2>1, Slots
        <4> QED BY <2>5, <4>1, <4>2
      <3>3. CASE \E s \in Place : Holds[s] = f
        <4>1. PICK s \in Place : Holds[s] = f
          BY <3>3
        <4>2. f # Nil
          BY VmmAssumption
        <4>3. s \in InUse /\ HeldBy(s) = f
          BY <2>1, <4>1, <4>2, Slots
        <4> QED BY <2>5, <4>3
      <3> QED BY <2>4, <3>1, <3>2, <3>3 DEF Partition
    <2>7. ASSUME NEW f \in U PROVE f \in Frame
      <3>1. PICK s \in InUse : f = HeldBy(s)
        BY <2>5
      <3>2. CASE \E i \in DOMAIN avail : HeldBy(s) = avail[i]
        BY <2>1, <3>1, <3>2 DEF VmmTypeOK
      <3>3. CASE s \in Place /\ HeldBy(s) = Holds[s] /\ HeldBy(s) # Nil
        BY <2>4, <3>1, <3>3 DEF Partition
      <3> QED BY <2>1, <3>2, <3>3, Slots
    <2>8. F \subseteq Frame /\ lost \subseteq Frame
      BY <2>4 DEF Partition
    <2>9. Frame = U \cup F \cup lost
      BY <2>6, <2>7, <2>8
    <2> QED BY <2>3, <2>5, <2>9 DEF NoFrameLost
  <1> QED BY <1>1, VmmInvariant, PTL
-----------------------------------------------------------------------------
(***************************************************************************)
(* Page tables implement separate address spaces.                          *)
(***************************************************************************)
Seen == [p \in Proc |-> SpaceOf(p)]

Hidden(p) == pc[p] \in {"none", "copy"}

\* What a process finds on a page.
LEMMA SeenAt ==
    /\ \A p \in Proc, v \in Page :
         Seen[p][v] = IF Hidden(p) \/ pte[p][v] = Nil THEN Nil ELSE content[pte[p][v]]
    /\ \A p \in Proc : Seen[p] \in [Page -> {Seen[p][v] : v \in Page}]
  BY DEF Seen, SpaceOf, Hidden

\* A process finds what it found before.
LEMMA SeenSame ==
    ASSUME NEW q \in Proc, pte'[q] = pte[q], Hidden(q)' <=> Hidden(q),
           ~Hidden(q) => \A v \in Page : pte[q][v] # Nil => content'[pte[q][v]] = content[pte[q][v]]
    PROVE  SpaceOf(q)' = SpaceOf(q)
  <1>1. \A v \in Page : (IF Hidden(q) \/ pte[q][v] = Nil THEN Nil ELSE content[pte[q][v]])
                      = (IF Hidden(q)' \/ pte'[q][v] = Nil THEN Nil ELSE content'[pte'[q][v]])
    OBVIOUS
  <1> QED BY <1>1 DEF SpaceOf, Hidden

\* Nothing changes if no process finds a change.
LEMMA SeenAll == ASSUME \A q \in Proc : SpaceOf(q)' = SpaceOf(q) PROVE Seen' = Seen
  BY DEF Seen

\* One page of one process changes.
LEMMA SeenOne ==
    ASSUME NEW p \in Proc, NEW z \in Page, NEW y,
           \A q \in Proc : q # p => SpaceOf(q)' = SpaceOf(q),
           \A v \in Page : SpaceOf(p)'[v] = IF v = z THEN y ELSE SpaceOf(p)[v]
    PROVE  Seen' = [Seen EXCEPT ![p][z] = y]
  <1>1. PICK new, old : new = SpaceOf(p)' /\ old = SpaceOf(p)
    OBVIOUS
  <1>2. new = [v \in Page |-> new[v]] /\ old = [v \in Page |-> old[v]]
    BY <1>1 DEF SpaceOf
  <1>3. \A v \in Page : new[v] = IF v = z THEN y ELSE old[v]
    BY <1>1
  <1>4. new = [old EXCEPT ![z] = y]
    BY <1>2, <1>3
  <1> QED BY <1>1, <1>4 DEF Seen

\* A frame is entered at a page that had none.
LEMMA SeenMapped ==
    ASSUME VmmInv, NEW p \in Proc, NEW z \in Page, NEW f \in Frame, NEW y \in Value,
           pc[p] = "map", ~Hidden(p)', pte[p][z] = Nil,
           pte' = [pte EXCEPT ![p][z] = f], content'[f] = y,
           \A q \in Proc, v \in Page : pte[q][v] # Nil => content'[pte[q][v]] = content[pte[q][v]],
           \A q \in Proc : q # p => pc'[q] = pc[q]
    PROVE  Spaces!MapPage(p, z, y)
  <1>1. f # Nil /\ ~Hidden(p)
    BY VmmAssumption DEF Hidden
  <1>2. /\ \A q \in Proc : q # p => pte'[q] = pte[q]
        /\ \A v \in Page : pte'[p][v] = IF v = z THEN f ELSE pte[p][v]
    BY DEF VmmInv, VmmTypeOK
  <1>3. \A q \in Proc : q # p => SpaceOf(q)' = SpaceOf(q)
    BY <1>2, SeenSame DEF Hidden
  <1>4. \A v \in Page : SpaceOf(p)'[v] = IF v = z THEN y ELSE SpaceOf(p)[v]
    <2>1. \A v \in Page : SpaceOf(p)'[v] = IF pte'[p][v] = Nil THEN Nil ELSE content'[pte'[p][v]]
      BY DEF SpaceOf, Hidden
    <2>2. \A v \in Page : SpaceOf(p)[v] = IF pte[p][v] = Nil THEN Nil ELSE content[pte[p][v]]
      BY <1>1 DEF SpaceOf, Hidden
    <2> QED BY <1>1, <1>2, <2>1, <2>2
  <1>5. Seen' = [Seen EXCEPT ![p][z] = y]
    BY <1>3, <1>4, SeenOne
  <1>6. Seen[p][z] = Nil
    BY SeenAt
  <1> QED BY <1>5, <1>6 DEF Spaces!MapPage, Seen

\* The entry of a page is cleared.
LEMMA SeenUnmapped ==
    ASSUME VmmInv, NEW p \in Proc, NEW z \in Page, ~Hidden(p), ~Hidden(p)',
           pte' = [pte EXCEPT ![p][z] = Nil], content' = content,
           \A q \in Proc : q # p => pc'[q] = pc[q]
    PROVE  Spaces!UnmapPage(p, z) \/ Seen' = Seen
  <1>1. /\ \A q \in Proc : q # p => pte'[q] = pte[q]
        /\ \A v \in Page : pte'[p][v] = IF v = z THEN Nil ELSE pte[p][v]
    BY DEF VmmInv, VmmTypeOK
  <1>2. \A q \in Proc : q # p => SpaceOf(q)' = SpaceOf(q)
    BY <1>1, SeenSame DEF Hidden
  <1>3. CASE pte[p][z] = Nil
    <2>1. pte'[p] = pte[p]
      BY <1>1, <1>3 DEF VmmInv, VmmTypeOK
    <2>2. SpaceOf(p)' = SpaceOf(p)
      BY <2>1, SeenSame
    <2> QED BY <1>2, <2>2, SeenAll
  <1>4. CASE pte[p][z] # Nil
    <2>1. \A v \in Page : SpaceOf(p)'[v] = IF v = z THEN Nil ELSE SpaceOf(p)[v]
      <3>1. \A v \in Page : SpaceOf(p)'[v] = IF pte'[p][v] = Nil THEN Nil ELSE content[pte'[p][v]]
        BY DEF SpaceOf, Hidden
      <3>2. \A v \in Page : SpaceOf(p)[v] = IF pte[p][v] = Nil THEN Nil ELSE content[pte[p][v]]
        BY DEF SpaceOf, Hidden
      <3> QED BY <1>1, <3>1, <3>2
    <2>2. Seen' = [Seen EXCEPT ![p][z] = Nil]
      BY <1>2, <2>1, SeenOne
    <2>3. Seen[p][z] # Nil
      <3>1. content[pte[p][z]] \in Value
        BY <1>4 DEF VmmInv, VmmTypeOK
      <3>2. Seen[p][z] = content[pte[p][z]]
        BY <1>4, SeenAt
      <3> QED BY <3>1, <3>2, VmmAssumption
    <2> QED BY <2>2, <2>3 DEF Spaces!UnmapPage, Seen
  <1> QED BY <1>3, <1>4

\* A step that changes no page a process can find.
LEMMA SeenQuiet ==
    ASSUME VmmInv,
           \A q \in Proc : ~Hidden(q) => pte'[q] = pte[q],
           \A q \in Proc : (Hidden(q)' <=> Hidden(q)) \/ \A v \in Page : pte[q][v] = Nil /\ pte'[q][v] = Nil,
           \A q \in Proc, v \in Page : pte[q][v] # Nil => content'[pte[q][v]] = content[pte[q][v]]
    PROVE  Seen' = Seen
  <1>1. ASSUME NEW q \in Proc PROVE SpaceOf(q)' = SpaceOf(q)
    <2>1. CASE ~Hidden(q) /\ (Hidden(q)' <=> Hidden(q))
      BY <2>1, SeenSame
    <2>2. CASE Hidden(q) /\ (Hidden(q)' <=> Hidden(q))
      BY <2>2 DEF SpaceOf, Hidden
    <2>3. CASE \A v \in Page : pte[q][v] = Nil /\ pte'[q][v] = Nil
      BY <2>3 DEF SpaceOf
    <2> QED BY <2>1, <2>2, <2>3
  <1> QED BY <1>1, SeenAll

\* The steps of the kernel that a process does not notice.
LEMMA QuietSteps ==
    ASSUME VmmInv, NEW p \in Proc,
           \/ InitThread(p) \/ MapSkip(p) \/ MapHold(p) \/ (\E b \in 1 .. MaxBreak : Brk(p, b))
           \/ (\E q \in Proc : Fork(p, q)) \/ ForkTable(p) \/ ForkPage(p) \/ ForkFull(p)
           \/ Exit(p) \/ FreeTable(p) \/ FreeRoot(p) \/ AllocPanic(p)
    PROVE  Seen' = Seen
  <1>1. VmmTypeOK /\ OwnerInv
    BY DEF VmmInv
  <1>2. pc \in [Proc -> {"none", "entry", "map", "unmap", "user", "fork", "copy", "exit"}]
    BY <1>1 DEF VmmTypeOK
  <1>3. CASE InitThread(p)
    <2>1. /\ pc[p] = "entry" /\ pte' = pte /\ pc' = [pc EXCEPT ![p] = "map"]
          /\ \E f \in Frame, x \in Value : Alloc(f, x) /\ content' = [content EXCEPT ![f] = Dirty]
      BY <1>3 DEF InitThread, Running
    <2>2. \A q \in Proc : Hidden(q)' <=> Hidden(q)
      BY <1>2, <2>1 DEF Hidden
    <2> QED BY <2>1, <2>2, FreshContent, SeenQuiet
  <1>4. CASE MapSkip(p)
    <2>1. pc[p] = "map" /\ pte' = pte /\ content' = content /\ PageDone(p)
      BY <1>4 DEF MapSkip, Running, physVars, spaceVars
    <2>2. \A q \in Proc : Hidden(q)' <=> Hidden(q)
      BY <1>2, <2>1 DEF Hidden, PageDone, breakVars
    <2> QED BY <2>1, <2>2, SeenQuiet
  <1>5. CASE MapHold(p)
    <2>1. /\ pte' = pte /\ pc' = pc
          /\ \E f \in Frame, x \in Value : Alloc(f, x) /\ content' = [content EXCEPT ![f] = x]
      BY <1>5 DEF MapHold, spaceVars
    <2>2. \A q \in Proc : Hidden(q)' <=> Hidden(q)
      BY <2>1 DEF Hidden
    <2> QED BY <2>1, <2>2, FreshContent, SeenQuiet
  <1>6. ASSUME NEW b \in 1 .. MaxBreak, Brk(p, b) PROVE Seen' = Seen
    <2>1. /\ pc[p] = "user" /\ pte' = pte /\ content' = content
          /\ pc' = pc \/ pc' = [pc EXCEPT ![p] = "map"] \/ pc' = [pc EXCEPT ![p] = "unmap"]
      BY <1>6 DEF Brk, Running, physVars, spaceVars
    <2>2. \A q \in Proc : Hidden(q)' <=> Hidden(q)
      BY <1>2, <2>1 DEF Hidden
    <2> QED BY <2>1, <2>2, SeenQuiet
  <1>7. ASSUME NEW q \in Proc, Fork(p, q) PROVE Seen' = Seen
    <2>1. /\ pc[p] = "user" /\ pc[q] = "none" /\ pte' = pte
          /\ pc' = [pc EXCEPT ![p] = "fork", ![q] = "copy"]
          /\ \E f \in Frame, x \in Value : Alloc(f, x) /\ content' = [content EXCEPT ![f] = Dirty]
      BY <1>7 DEF Fork, Running
    <2>2. \A r \in Proc : Hidden(r)' <=> Hidden(r)
      BY <1>2, <2>1 DEF Hidden
    <2> QED BY <2>1, <2>2, FreshContent, SeenQuiet
  <1>8. CASE ForkTable(p)
    <2>1. /\ pte' = pte /\ pc' = pc
          /\ \E f \in Frame, x \in Value : Alloc(f, x) /\ content' = [content EXCEPT ![f] = Zero]
      BY <1>8 DEF ForkTable
    <2>2. \A q \in Proc : Hidden(q)' <=> Hidden(q)
      BY <2>1 DEF Hidden
    <2> QED BY <2>1, <2>2, FreshContent, SeenQuiet
  <1>9. CASE ForkPage(p)
    <2>1. /\ pc[p] = "fork" /\ pc' = pc
          /\ \E f \in Frame, x \in Value, v \in {Min(PagesLeft(p))} :
               /\ Alloc(f, x) /\ pte' = [pte EXCEPT ![child[p]][v] = f]
               /\ content' = [content EXCEPT ![f] = content[pte[p][v]]]
      BY <1>9 DEF ForkPage, Running
    <2>2. Hidden(child[p]) /\ child[p] \in Proc
      BY <2>1, ForkPair DEF Hidden
    <2>3. \A q \in Proc : ~Hidden(q) => pte'[q] = pte[q]
      BY <1>1, <2>1, <2>2 DEF VmmTypeOK
    <2>4. \A q \in Proc : Hidden(q)' <=> Hidden(q)
      BY <2>1 DEF Hidden
    <2>5. \A q \in Proc, v \in Page : pte[q][v] # Nil => content'[pte[q][v]] = content[pte[q][v]]
      BY <2>1, FreshContent
    <2> QED BY <2>3, <2>4, <2>5, SeenQuiet
  <1>10. CASE ForkFull(p)
    <2>1. /\ pc[p] = "fork" /\ content' = content
          /\ pte' = [pte EXCEPT ![child[p]] = [v \in Page |-> Nil]]
          /\ pc' = [pc EXCEPT ![p] = "user", ![child[p]] = "none"]
      BY <1>10 DEF ForkFull, Copied, Running, physVars
    <2>2. child[p] \in Proc /\ pc[child[p]] = "copy" /\ child[p] # p
      BY <2>1, ForkPair
    <2>3. \A q \in Proc : ~Hidden(q) => pte'[q] = pte[q]
      BY <1>1, <2>1, <2>2 DEF VmmTypeOK, Hidden
    <2>4. \A q \in Proc : Hidden(q)' <=> Hidden(q)
      BY <1>2, <2>1, <2>2 DEF Hidden
    <2> QED BY <2>1, <2>3, <2>4, SeenQuiet
  <1>11. CASE Exit(p)
    <2>1. pc[p] = "user" /\ pte' = pte /\ content' = content /\ pc' = [pc EXCEPT ![p] = "exit"]
      BY <1>11 DEF Exit, Running, physVars, spaceVars
    <2>2. \A q \in Proc : Hidden(q)' <=> Hidden(q)
      BY <1>2, <2>1 DEF Hidden
    <2> QED BY <2>1, <2>2, SeenQuiet
  <1>12. CASE FreeTable(p)
    <2>1. pte' = pte /\ content' = content /\ pc' = pc
      BY <1>12 DEF FreeTable
    <2> QED BY <2>1, SeenQuiet DEF Hidden
  <1>13. CASE FreeRoot(p)
    <2>1. /\ pte' = pte /\ content' = content /\ pc' = [pc EXCEPT ![p] = "none"]
          /\ TablesToFree(p) = {}
      BY <1>13 DEF FreeRoot
    <2>2. \A v \in Page : pte[p][v] = Nil
      BY <2>1, Regions DEF VmmInv, SpaceInv, TablesToFree
    <2>3. \A q \in Proc : q # p => (Hidden(q)' <=> Hidden(q))
      BY <1>2, <2>1 DEF Hidden
    <2> QED BY <2>1, <2>2, <2>3, SeenQuiet
  <1>14. CASE AllocPanic(p)
    <2>1. pte' = pte /\ content' = content /\ pc' = pc
      BY <1>14 DEF AllocPanic, physVars, spaceVars
    <2> QED BY <2>1, SeenQuiet DEF Hidden
  <1> QED BY <1>3, <1>4, <1>5, <1>6, <1>7, <1>8, <1>9, <1>10, <1>11, <1>12, <1>13, <1>14

\* map_range gives a page to one process.
LEMMA MapSteps ==
    ASSUME VmmInv, NEW p \in Proc, MapPage(p) \/ MapTable(p)
    PROVE  \E v \in Page, x \in Value : Spaces!MapPage(p, v, x)
  <1>1. /\ VmmTypeOK /\ OwnerInv /\ TodoInv(p) /\ SpaceInv(p) /\ pc[p] = "map" /\ PageDone(p)
    BY DEF VmmInv, MapPage, MapTable, Running
  <1>2. NextPage(p) \in Page /\ RegionOf(NextPage(p)) \in Region
    BY <1>1, NextIsPage
  <1>3. ~Hidden(p)' /\ \A q \in Proc : q # p => pc'[q] = pc[q]
    BY <1>1, DoneType DEF Hidden
  <1>4. CASE MapPage(p)
    <2>1. PICK f \in Frame, x \in Value :
            /\ Alloc(f, x)
            /\ pte' = [pte EXCEPT ![p][NextPage(p)] = f]
            /\ content' = [content EXCEPT ![f] = x]
      BY <1>4 DEF MapPage
    <2>2. content'[f] = x /\ pte[p][NextPage(p)] = Nil
      BY <1>1, <1>4, <2>1 DEF VmmTypeOK, MapPage
    <2>3. \A q \in Proc, v \in Page : pte[q][v] # Nil => content'[pte[q][v]] = content[pte[q][v]]
      BY <2>1, FreshContent
    <2>4. Spaces!MapPage(p, NextPage(p), x)
      BY <1>1, <1>2, <1>3, <2>1, <2>2, <2>3, SeenMapped
    <2> QED BY <1>2, <2>4
  <1>5. CASE MapTable(p)
    <2>1. PICK f \in Frame, x \in Value : Alloc(f, x) /\ content' = [content EXCEPT ![f] = x]
      BY <1>5 DEF MapTable
    <2>2. /\ held[p] \in Frame /\ pte' = [pte EXCEPT ![p][NextPage(p)] = held[p]]
          /\ pte[p][NextPage(p)] = Nil
      BY <1>1, <1>2, <1>5 DEF VmmTypeOK, MapTable, SpaceInv, HasTable
    <2>3. f # held[p]
      <3>1. f \in Range(avail) \cup FramesIn(free_ranges)
        BY <1>1, <2>1, AllocFacts
      <3>2. PICK s \in Place : s = <<"held", p>>
        BY Places
      <3>3. Holds[s] = held[p] /\ DOMAIN Holds = Place
        BY <1>1, <3>2, HoldsAgree DEF Agree
      <3>4. held[p] # Nil
        BY <2>2, VmmAssumption
      <3> QED BY <1>1, <3>1, <3>3, <3>4 DEF OwnerInv, Partition
    <2>4. content'[held[p]] = content[held[p]] /\ content[held[p]] \in Value
      BY <1>1, <2>1, <2>2, <2>3 DEF VmmTypeOK
    <2>5. \A q \in Proc, v \in Page : pte[q][v] # Nil => content'[pte[q][v]] = content[pte[q][v]]
      BY <2>1, FreshContent
    <2>6. Spaces!MapPage(p, NextPage(p), content[held[p]])
      BY <1>1, <1>2, <1>3, <2>2, <2>4, <2>5, SeenMapped
    <2> QED BY <1>2, <2>4, <2>6
  <1> QED BY <1>4, <1>5

\* unmapRange and fini_thread take pages from one process.
LEMMA UnmapSteps ==
    ASSUME VmmInv, NEW p \in Proc, UnmapPage(p) \/ FreePage(p)
    PROVE  (\E v \in Page : Spaces!UnmapPage(p, v)) \/ Seen' = Seen
  <1>1. VmmTypeOK /\ TodoInv(p)
    BY DEF VmmInv
  <1>2. CASE UnmapPage(p)
    <2>1. /\ pc[p] = "unmap" /\ PageDone(p) /\ content' = content
          /\ pte' = [pte EXCEPT ![p][NextPage(p)] = Nil]
      BY <1>2 DEF UnmapPage, Running
    <2>2. NextPage(p) \in Page
      BY <1>1, <2>1, NextIsPage
    <2>3. ~Hidden(p) /\ ~Hidden(p)' /\ \A q \in Proc : q # p => pc'[q] = pc[q]
      BY <1>1, <2>1, DoneType DEF Hidden
    <2> QED BY <2>1, <2>2, <2>3, SeenUnmapped
  <1>3. CASE FreePage(p)
    <2>1. /\ pc[p] = "exit" /\ pc' = pc /\ content' = content /\ PagesToFree(p) # {}
          /\ pte' = [pte EXCEPT ![p][Min(PagesToFree(p))] = Nil]
      BY <1>3 DEF FreePage, Running
    <2>2. PagesToFree(p) \subseteq Page /\ PagesToFree(p) \subseteq Nat
      BY VmmAssumption DEF PagesToFree, Mapped, Page
    <2>3. Min(PagesToFree(p)) \in Page
      BY <2>1, <2>2, MinIn
    <2>4. ~Hidden(p) /\ ~Hidden(p)'
      BY <2>1 DEF Hidden
    <2> QED BY <2>1, <2>3, <2>4, SeenUnmapped
  <1> QED BY <1>2, <1>3

\* A store is seen by the process that makes it only: nobody else has the frame.
LEMMA StoreSteps ==
    ASSUME VmmInv, NEW p \in Proc, NEW z \in Page, NEW x \in Value, UserStore(p, z, x)
    PROVE  Spaces!Store(p, z, x)
  <1>1. /\ pc[p] = "user" /\ pte[p][z] # Nil /\ pte' = pte /\ pc' = pc
        /\ content' = [content EXCEPT ![pte[p][z]] = x]
    BY DEF UserStore, Running, spaceVars
  <1>2. /\ content \in [Frame -> Value] /\ Nil \notin Value
        /\ \A q \in Proc, v \in Page : pte[q][v] \in Frame \cup {Nil}
    BY VmmAssumption DEF VmmInv, VmmTypeOK
  <1>3. \A q \in Proc, v \in Page : pte[q][v] = pte[p][z] => q = p /\ v = z
    BY <1>1, FrameFacts DEF VmmInv
  <1>4. /\ content'[pte[p][z]] = x
        /\ \A q \in Proc, v \in Page : pte[q][v] # Nil /\ (q # p \/ v # z) =>
             content'[pte[q][v]] = content[pte[q][v]]
    BY <1>1, <1>2, <1>3
  <1>5. \A q \in Proc : q # p => SpaceOf(q)' = SpaceOf(q)
    BY <1>1, <1>4, SeenSame DEF Hidden
  <1>6. \A v \in Page : SpaceOf(p)'[v] = IF v = z THEN x ELSE SpaceOf(p)[v]
    <2>1. \A v \in Page : SpaceOf(p)'[v] = IF pte[p][v] = Nil THEN Nil ELSE content'[pte[p][v]]
      BY <1>1 DEF SpaceOf
    <2>2. \A v \in Page : SpaceOf(p)[v] = IF pte[p][v] = Nil THEN Nil ELSE content[pte[p][v]]
      BY <1>1 DEF SpaceOf
    <2> QED BY <1>1, <1>4, <2>1, <2>2
  <1>7. Seen' = [Seen EXCEPT ![p][z] = x]
    BY <1>5, <1>6, SeenOne
  <1>8. Seen[p][z] # Nil
    <2>1. content[pte[p][z]] \in Value
      BY <1>1, <1>2
    <2>2. Seen[p][z] = content[pte[p][z]]
      BY <1>1, SeenAt DEF Hidden
    <2> QED BY <1>2, <2>1, <2>2
  <1> QED BY <1>7, <1>8 DEF Spaces!Store, Seen

\* When fork returns the child has all pages of the parent, as they are at that moment.
LEMMA CopySteps ==
    ASSUME VmmInv, NEW p \in Proc, ForkDone(p)
    PROVE  \E q \in Proc : Spaces!Copy(p, q)
  <1>1. /\ pc[p] = "fork" /\ Copied(p) /\ pte' = pte /\ content' = content
        /\ pc' = [pc EXCEPT ![p] = "user", ![child[p]] = "user"]
    BY DEF ForkDone, Copied, Running, physVars, spaceVars
  <1>2. PICK c \in Proc : /\ c = child[p] /\ pc[c] = "copy" /\ c # p
                          /\ \A v \in Page : pte[c][v] # Nil =>
                               pte[p][v] # Nil /\ content[pte[c][v]] = content[pte[p][v]]
    BY <1>1, ForkPair
  <1>3. \A v \in Page : pte[c][v] # Nil <=> pte[p][v] # Nil
    BY <1>1, <1>2, CopiedAll
  <1>4. /\ pc'[p] = "user" /\ pc'[c] = "user" /\ \A q \in Proc \ {p, c} : pc'[q] = pc[q]
    BY <1>1, <1>2 DEF VmmInv, VmmTypeOK
  <1>5. \A q \in Proc : q # c => SpaceOf(q)' = SpaceOf(q)
    BY <1>1, <1>4, SeenSame DEF Hidden
  <1>6. SpaceOf(c)' = SpaceOf(p)
    BY <1>1, <1>2, <1>3, <1>4 DEF SpaceOf
  <1>7. SpaceOf(c) = [v \in Page |-> Nil]
    BY <1>2 DEF SpaceOf
  <1>8. Seen' = [Seen EXCEPT ![c] = Seen[p]]
    BY <1>2, <1>5, <1>6 DEF Seen
  <1>9. Seen[c] = [v \in Page |-> Nil]
    BY <1>7 DEF Seen
  <1>10. Spaces!Copy(p, c)
    BY <1>8, <1>9 DEF Spaces!Copy, Spaces!Nothing, Seen
  <1> QED BY <1>10

\* The first state is that of the abstract specification.
LEMMA SpacesStart == ASSUME VmmInit PROVE Spaces!SpacesInit
  <1>1. \A p \in Proc : SpaceOf(p) = [v \in Page |-> Nil]
    BY DEF VmmInit, SpaceOf
  <1> QED BY <1>1 DEF Spaces!SpacesInit, Spaces!Nothing

\* Every step is one of the abstract specification, or changes nothing it sees.
LEMMA SpacesStep ==
    ASSUME VmmInv, [VmmNext]_vmmVars
    PROVE  Spaces!SpacesNext \/ Seen' = Seen
  <1>1. ASSUME NEW p \in Proc, Step(p) PROVE Spaces!SpacesNext \/ Seen' = Seen
    <2>1. CASE \/ InitThread(p) \/ MapSkip(p) \/ MapHold(p) \/ (\E b \in 1 .. MaxBreak : Brk(p, b))
               \/ (\E q \in Proc : Fork(p, q)) \/ ForkTable(p) \/ ForkPage(p) \/ ForkFull(p)
               \/ Exit(p) \/ FreeTable(p) \/ FreeRoot(p) \/ AllocPanic(p)
      BY <2>1, QuietSteps
    <2>2. CASE MapPage(p) \/ MapTable(p)
      BY <2>2, MapSteps DEF Spaces!SpacesNext
    <2>3. CASE UnmapPage(p) \/ FreePage(p)
      BY <2>3, UnmapSteps DEF Spaces!SpacesNext
    <2>4. CASE \E v \in Page, x \in Value : UserStore(p, v, x)
      BY <2>4, StoreSteps DEF Spaces!SpacesNext
    <2>5. CASE ForkDone(p)
      BY <2>5, CopySteps DEF Spaces!SpacesNext
    <2> QED BY <1>1, <2>1, <2>2, <2>3, <2>4, <2>5 DEF Step
  <1>2. CASE UNCHANGED vmmVars
    <2>1. pte' = pte /\ content' = content /\ pc' = pc
      BY <1>2 DEF vmmVars, physVars, spaceVars
    <2> QED BY <2>1, SeenQuiet DEF Hidden
  <1> QED BY <1>1, <1>2 DEF VmmNext

\* The page tables of all processes, over frames that are freed and used again, implement
\* separate address spaces: a store changes one page of one process, and fork copies all
\* pages at once although it takes many steps between which other processes run.
THEOREM VmmImplementsSpaces == VmmSpec => ImplementsSpaces
  <1>1. VmmInit => Spaces!SpacesInit
    BY SpacesStart
  <1>2. VmmInv /\ [VmmNext]_vmmVars => [Spaces!SpacesNext]_([p \in Proc |-> SpaceOf(p)])
    BY SpacesStep DEF Seen
  <1> QED BY <1>1, <1>2, VmmInvariant, PTL DEF VmmSpec, ImplementsSpaces, Spaces!SpacesSpec
=============================================================================
