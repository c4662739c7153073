------------------------- MODULE LinkedQueueProofs -------------------------
(***************************************************************************)
(* The linked list of kernel/queue.h is well formed and implements the     *)
(* atomic queue of FifoQueue, for every number of cores, items and queues. *)
(*                                                                         *)
(* IsList(link, p, s) says without recursion that s is the list from p on; *)
(* the first lemmas show that it determines s, that Chain finds it, and    *)
(* what the stores of add, remove and remove_all make of it.  LQInv says   *)
(* what first, last, size and the links are at each place of an operation. *)
(***************************************************************************)
EXTENDS LinkedQueue, FiniteSetTheorems, WellFoundedInduction, TLAPS

\* s is the list that starts at p when the items are linked as link says.
IsList(link, p, s) ==
    /\ s \in Seq(Item) /\ IsInjective(s)
    /\ p = IF s = <<>> THEN NoItem ELSE s[1]
    /\ \A i \in 1..Len(s) : link[s[i]] = IF i = Len(s) THEN NoItem ELSE s[i + 1]

\* The equation that defines Walk.
Step(g, link, p) ==
    [n \in 1..(Cardinality(Item) + 1) |->
       IF n = 1 THEN p ELSE IF g[n - 1] = NoItem THEN NoItem ELSE link[g[n - 1]]]

LastOf(s) == IF s = <<>> THEN NoItem ELSE s[Len(s)]

\* The places at which a core holds the lock of its queue.
Locked == {"add_next", "add_link", "add_last", "add_size", "rm_test", "rm_first",
           "rm_last", "rm_size", "all_first", "all_last", "all_size"}

\* The lists of the queues and the chains of the notifiers are proper lists, and
\* an item is in one list or in the hands of one core.
ListInv ==
    /\ \A q \in Queue : IsList(next, first[q], Chain(first[q]))
    /\ \A c \in Core : IsList(next, rest[c], Chain(rest[c]))
    /\ \A c \in Core : Range(Chain(rest[c])) \subseteq held[c]
    /\ \A q \in Queue, c \in Core : Range(Chain(first[q])) \cap held[c] = {}
    /\ \A q, r \in Queue : q # r => Range(Chain(first[q])) \cap Range(Chain(first[r])) = {}
    /\ \A c, d \in Core : c # d => held[c] \cap held[d] = {}

LockInv == \A q \in Queue, c \in Core : lock[q] = c <=> k[c] = q /\ qpc[c] \in Locked

\* last and the counter agree with the list.
Exact(q) == size[q] = Len(Chain(first[q])) /\ last[q] = LastOf(Chain(first[q]))

\* What a core in the middle of an operation knows of its queue and of its item.
CoreInv(c) ==
    LET q == k[c]
        s == Chain(first[k[c]]) IN
    /\ qpc[c] \in {"add_next", "add_link", "rm_test", "rm_first", "all_first"} => Exact(q)
    /\ qpc[c] = "add_last" => size[q] + 1 = Len(s) /\ it[c] = LastOf(s)
    /\ qpc[c] = "add_size" => size[q] + 1 = Len(s) /\ last[q] = LastOf(s)
    /\ qpc[c] = "rm_first" => it[c] = first[q] /\ first[q] # NoItem
    /\ qpc[c] = "rm_last" => size[q] = Len(s) + 1 /\ (s # <<>> => last[q] = LastOf(s))
    /\ qpc[c] = "rm_size" => size[q] = Len(s) + 1 /\ last[q] = LastOf(s)
    /\ qpc[c] = "all_last" => s = <<>>
    /\ qpc[c] = "all_size" => s = <<>> /\ last[q] = NoItem
    /\ qpc[c] \in {"add_lock", "add_next", "add_link"} =>
         it[c] \in held[c] /\ it[c] \notin Range(Chain(rest[c]))
    /\ qpc[c] = "add_link" => next[it[c]] = NoItem
    /\ rest[c] # NoItem => qpc[c] \in {"add_lock", "add_next", "add_link", "add_last",
                                       "add_size", "all_last", "all_size", "walk"}
    /\ qpc[c] = "walk" => rest[c] # NoItem

LQInv ==
    /\ LQTypeOK
    /\ ListInv
    /\ LockInv
    /\ \A q \in Queue : lock[q] = NoItem => Exact(q)
    /\ \A c \in Core : CoreInv(c)
-----------------------------------------------------------------------------
(***************************************************************************)
(* Lists.                                                                  *)
(***************************************************************************)

\* A set of natural numbers has a least one.
LEMMA LeastNumber ==
    ASSUME NEW T, T \subseteq Nat, T # {}
    PROVE  \E x \in T : \A y \in T : x <= y
  <1>1. IsWellFoundedOn(OpToRel(<, Nat), Nat)
    BY NatLessThanWellFounded, Zenon
  <1>2. PICK x \in T : \A y \in T : ~(<<y, x>> \in OpToRel(<, Nat))
    <2>1. \E x \in T : \A y \in T : ~(<<y, x>> \in OpToRel(<, Nat))
      BY <1>1, WFMin, Zenon
    <2> QED BY <2>1
  <1>3. ASSUME NEW y \in T PROVE x <= y
    <2>1. x \in Nat /\ y \in Nat
      OBVIOUS
    <2>2. ~(y < x)
      BY <1>2, <2>1, Zenon DEF OpToRel
    <2> QED BY <2>1, <2>2
  <1> QED BY <1>3

\* A list that runs in no circle is not longer than there are items.
LEMMA ListLength ==
    ASSUME NEW s \in Seq(Item), IsInjective(s)
    PROVE  /\ Cardinality(Item) \in Nat /\ Len(s) <= Cardinality(Item)
           /\ Cardinality(1..Len(s)) = Len(s)
  <1>1. IsFiniteSet(Item) /\ Len(s) \in Nat
    BY QueueAssumption
  <1>2. s \in Injection(1..Len(s), Item)
    BY DEF Injection
  <1>3. Cardinality(1..Len(s)) <= Cardinality(Item)
    BY <1>1, <1>2, FS_Injection
  <1>4. Cardinality(1..Len(s)) = Len(s)
    <2>1. 1 \in Int /\ Len(s) \in Int
      BY <1>1
    <2>2. Cardinality(1..Len(s)) = IF 1 > Len(s) THEN 0 ELSE Len(s) - 1 + 1
      BY <2>1, FS_Interval, Zenon
    <2> QED BY <1>1, <2>2
  <1> QED BY <1>1, <1>3, <1>4, FS_CardinalityType

\* Walk obeys the equation that defines it if any function does.
LEMMA WalkStep ==
    ASSUME NEW link, NEW p, NEW g, g = Step(g, link, p)
    PROVE  Walk(link, p) = Step(Walk(link, p), link, p)
  BY DEF Walk, Step

\* The walk along a list meets its items in order and then stays at the end.
LEMMA WalkList ==
    ASSUME NEW link, NEW p, NEW s, IsList(link, p, s)
    PROVE  Walk(link, p) = [n \in 1..(Cardinality(Item) + 1) |->
                              IF n <= Len(s) THEN s[n] ELSE NoItem]
  <1> DEFINE N == Cardinality(Item)
             g == [n \in 1..(N + 1) |-> IF n <= Len(s) THEN s[n] ELSE NoItem]
             w == Walk(link, p)
  <1>1. /\ N \in Nat /\ Len(s) \in Nat /\ Len(s) <= N
        /\ \A i \in 1..Len(s) : s[i] \in Item /\ s[i] # NoItem
        /\ s = <<>> <=> Len(s) = 0
    BY ListLength, QueueAssumption DEF IsList
  <1>2. g = Step(g, link, p)
    <2>1. ASSUME NEW n \in 1..(N + 1)
          PROVE  g[n] = IF n = 1 THEN p ELSE IF g[n - 1] = NoItem THEN NoItem ELSE link[g[n - 1]]
      <3>1. CASE n = 1
        BY <1>1, <3>1 DEF IsList
      <3>2. CASE n # 1
        <4>1. n - 1 \in 1..(N + 1) /\ n = (n - 1) + 1
          BY <1>1, <3>2
        <4>2. CASE n - 1 <= Len(s)
          <5>1. n - 1 \in 1..Len(s) /\ g[n - 1] = s[n - 1] /\ s[n - 1] # NoItem
            BY <1>1, <4>1, <4>2
          <5>2. link[s[n - 1]] = IF n - 1 = Len(s) THEN NoItem ELSE s[n]
            BY <5>1, <4>1 DEF IsList
          <5>3. g[n] = IF n - 1 = Len(s) THEN NoItem ELSE s[n]
            BY <1>1, <4>1, <4>2
          <5> QED BY <3>2, <5>1, <5>2, <5>3
        <4>3. CASE ~(n - 1 <= Len(s))
          <5>1. g[n - 1] = NoItem /\ g[n] = NoItem
            BY <1>1, <4>1, <4>3
          <5> QED BY <3>2, <5>1
        <4> QED BY <4>2, <4>3
      <3> QED BY <3>1, <3>2
    <2> HIDE DEF g
    <2>2. g = [n \in 1..(N + 1) |-> g[n]]
      BY DEF g
    <2> QED BY <2>1, <2>2 DEF Step
  <1>3. w = Step(w, link, p)
    BY <1>2, WalkStep
  <1> HIDE DEF w, g
  <1> DEFINE Bad == {n \in 1..(N + 1) : w[n] # g[n]}
  <1>4. ASSUME Bad # {} PROVE FALSE
    <2>1. Bad \subseteq Nat
      BY <1>1
    <2>a. PICK n \in Bad : \A m \in Bad : n <= m
      BY <1>4, <2>1, LeastNumber, Zenon
    <2>2. n \in 1..(N + 1) /\ w[n] # g[n]
      OBVIOUS
    <2>3. n # 1
      BY <1>1, <1>2, <1>3, <2>2 DEF Step
    <2>4. n - 1 \in 1..(N + 1) /\ n - 1 \notin Bad
      BY <1>1, <2>a, <2>2, <2>3
    <2>5. w[n - 1] = g[n - 1]
      BY <2>4
    <2>6. w[n] = IF w[n - 1] = NoItem THEN NoItem ELSE link[w[n - 1]]
      BY <1>3, <2>2, <2>3 DEF Step
    <2>7. g[n] = IF g[n - 1] = NoItem THEN NoItem ELSE link[g[n - 1]]
      BY <1>2, <2>2, <2>3 DEF Step
    <2> QED BY <2>2, <2>5, <2>6, <2>7
  <1>5. \A n \in 1..(N + 1) : w[n] = g[n]
    BY <1>4
  <1>6. w = [n \in 1..(N + 1) |-> w[n]]
    BY <1>3 DEF Step
  <1>7. g = [n \in 1..(N + 1) |-> g[n]]
    BY DEF g
  <1>8. w = g
    BY <1>5, <1>6, <1>7
  <1> QED BY <1>8 DEF w, g

\* There is one list from p: if s is one, it is what ChainIn computes.
LEMMA ChainIsList ==
    ASSUME NEW link, NEW p, NEW s, IsList(link, p, s)
    PROVE  ChainIn(link, p) = s
  <1> DEFINE N == Cardinality(Item)
             w == Walk(link, p)
             M == {m \in DOMAIN w : w[m] # NoItem}
  <1>1. /\ N \in Nat /\ Len(s) \in Nat /\ Len(s) <= N
        /\ \A i \in 1..Len(s) : s[i] \in Item /\ s[i] # NoItem
        /\ s = [i \in 1..Len(s) |-> s[i]]
    BY ListLength, QueueAssumption DEF IsList
  <1>2. w = [n \in 1..(N + 1) |-> IF n <= Len(s) THEN s[n] ELSE NoItem]
    BY WalkList
  <1>3. M = 1..Len(s)
    BY <1>1, <1>2
  <1>4. Cardinality(M) = Len(s)
    BY <1>1, <1>3, ListLength DEF IsList
  <1>5. \A i \in 1..Len(s) : w[i] = s[i]
    BY <1>1, <1>2
  <1>6. ChainIn(link, p) = [n \in 1..Cardinality(M) |-> w[n]]
    BY DEF ChainIn
  <1> QED BY <1>1, <1>4, <1>5, <1>6

\* A list stays a list when the links of other items change.
LEMMA ListFrame ==
    ASSUME NEW link, NEW link2, NEW p, NEW s, IsList(link, p, s),
           \A i \in Range(s) : link2[i] = link[i]
    PROVE  IsList(link2, p, s) /\ ChainIn(link2, p) = s
  <1>1. s \in Seq(Item) /\ \A i \in 1..Len(s) : s[i] \in Range(s)
    BY DEF IsList, Range
  <1>2. IsList(link2, p, s)
    BY <1>1 DEF IsList
  <1> QED BY <1>2, ChainIsList

\* A list is empty if it starts at the null pointer, and only then.
LEMMA ListEmpty ==
    ASSUME NEW link, NEW p
    PROVE  /\ IsList(link, NoItem, <<>>)
           /\ ChainIn(link, NoItem) = <<>>
           /\ \A s : IsList(link, p, s) => (p = NoItem <=> s = <<>>)
  <1>1. IsList(link, NoItem, <<>>)
    BY DEF IsList, IsInjective
  <1>2. ASSUME NEW s, IsList(link, p, s) PROVE p = NoItem <=> s = <<>>
    <2>1. s # <<>> => s[1] \in Item
      BY <1>2 DEF IsList
    <2> QED BY <1>2, <2>1, QueueAssumption DEF IsList
  <1> QED BY <1>1, <1>2, ChainIsList

\* A list that is not empty starts with p and ends with an item.
LEMMA ListEnds ==
    ASSUME NEW link, NEW p, NEW s, IsList(link, p, s), s # <<>>
    PROVE  /\ p = s[1] /\ p = Head(s) /\ p \in Item /\ p \in Range(s)
           /\ LastOf(s) = s[Len(s)] /\ LastOf(s) \in Item /\ LastOf(s) \in Range(s)
           /\ Len(s) \in Nat \ {0} /\ Range(s) \subseteq Item
  <1>1. s \in Seq(Item) /\ Len(s) \in Nat \ {0} /\ 1 \in 1..Len(s) /\ Len(s) \in 1..Len(s)
    BY DEF IsList
  <1>2. DOMAIN s = 1..Len(s) /\ \A i \in 1..Len(s) : s[i] \in Item
    BY <1>1
  <1>3. p = s[1] /\ Head(s) = s[1] /\ LastOf(s) = s[Len(s)]
    BY <1>1 DEF IsList, LastOf
  <1>4. Range(s) \subseteq Item /\ \A i \in 1..Len(s) : s[i] \in Range(s)
    BY <1>2 DEF Range
  <1> QED BY <1>1, <1>2, <1>3, <1>4

\* A sequence and one more item.
LEMMA AppendShape ==
    ASSUME NEW s \in Seq(Item), NEW e \in Item
    PROVE  /\ Range(Append(s, e)) = Range(s) \cup {e}
           /\ LastOf(Append(s, e)) = e /\ Len(Append(s, e)) = Len(s) + 1
  <1> DEFINE t == Append(s, e)
  <1>1. /\ s \in Seq(Item) /\ Len(s) \in Nat /\ t \in Seq(Item) /\ Len(t) = Len(s) + 1
        /\ \A i \in 1..Len(s) : t[i] = s[i] /\ s[i] \in Range(s)
        /\ t[Len(s) + 1] = e /\ t # <<>>
        /\ s = <<>> <=> Len(s) = 0
    <2>1. s \in Seq(Item) /\ Len(s) \in Nat /\ (s = <<>> <=> Len(s) = 0)
      OBVIOUS
    <2>2. /\ t \in Seq(Item) /\ Len(t) = Len(s) + 1
          /\ \A i \in 1..Len(s) : t[i] = s[i]
          /\ t[Len(s) + 1] = e
      BY <2>1
    <2> HIDE DEF t
    <2>4. t # <<>>
      BY <2>1, <2>2
    <2>3. \A i \in 1..Len(s) : s[i] \in Range(s)
      BY <2>1 DEF Range
    <2> QED BY <2>1, <2>2, <2>3, <2>4
  <1>2. DOMAIN t = 1..(Len(s) + 1) /\ DOMAIN s = 1..Len(s)
    BY <1>1
  <1> HIDE DEF t
  <1>3. Range(t) = Range(s) \cup {e}
    <2>1. ASSUME NEW x \in Range(t) PROVE x \in Range(s) \cup {e}
      BY <1>1, <1>2 DEF Range
    <2>2. ASSUME NEW x \in Range(s) \cup {e} PROVE x \in Range(t)
      <3>1. CASE x = e
        BY <1>1, <1>2, <3>1 DEF Range
      <3>2. CASE x \in Range(s)
        BY <1>1, <1>2, <3>2 DEF Range
      <3> QED BY <3>1, <3>2
    <2> QED BY <2>1, <2>2
  <1>4. LastOf(t) = e
    BY <1>1 DEF LastOf
  <1> QED BY <1>1, <1>3, <1>4 DEF t

\* add: the item is linked behind the last one, or is the first.
LEMMA ListAppend ==
    ASSUME NEW link, NEW link2, NEW p, NEW s, IsList(link, p, s),
           NEW e \in Item, e \notin Range(s), link2[e] = NoItem,
           s # <<>> => link2[LastOf(s)] = e, NEW p2, p2 = IF s = <<>> THEN e ELSE p,
           \A i \in Range(s) : i # LastOf(s) => link2[i] = link[i]
    PROVE  IsList(link2, p2, Append(s, e))
  <1> DEFINE t == Append(s, e)
  <1>1. /\ s \in Seq(Item) /\ Len(s) \in Nat /\ t \in Seq(Item) /\ Len(t) = Len(s) + 1
        /\ \A i \in 1..Len(s) : t[i] = s[i] /\ s[i] \in Range(s)
        /\ t[Len(s) + 1] = e /\ t # <<>>
        /\ s = <<>> <=> Len(s) = 0
    <2>1. s \in Seq(Item) /\ Len(s) \in Nat /\ (s = <<>> <=> Len(s) = 0)
      BY DEF IsList
    <2>2. /\ t \in Seq(Item) /\ Len(t) = Len(s) + 1
          /\ \A i \in 1..Len(s) : t[i] = s[i]
          /\ t[Len(s) + 1] = e
      BY <2>1
    <2> HIDE DEF t
    <2>4. t # <<>>
      BY <2>1, <2>2
    <2>3. \A i \in 1..Len(s) : s[i] \in Range(s)
      BY <2>1 DEF Range
    <2> QED BY <2>1, <2>2, <2>3, <2>4
  <1>2. DOMAIN t = 1..(Len(s) + 1) /\ DOMAIN s = 1..Len(s)
    BY <1>1
  <1> HIDE DEF t
  <1>4. IsInjective(t)
    <2>1. ASSUME NEW a \in DOMAIN t, NEW b \in DOMAIN t, t[a] = t[b] PROVE a = b
      <3>1. CASE a \in 1..Len(s) /\ b \in 1..Len(s)
        <4>1. s[a] = s[b]
          BY <1>1, <2>1, <3>1
        <4> QED BY <1>2, <3>1, <4>1 DEF IsList, IsInjective
      <3>2. CASE a = Len(s) + 1 \/ b = Len(s) + 1
        BY <1>1, <1>2, <2>1, <3>2
      <3> QED BY <1>1, <1>2, <3>1, <3>2
    <2> QED BY <2>1 DEF IsInjective
  <1>5. p2 = IF t = <<>> THEN NoItem ELSE t[1]
    BY <1>1 DEF IsList
  <1>6. ASSUME NEW i \in 1..Len(t)
        PROVE  link2[t[i]] = IF i = Len(t) THEN NoItem ELSE t[i + 1]
    <2>1. CASE i = Len(s) + 1
      BY <1>1, <2>1
    <2>2. CASE i = Len(s)
      <3>1. s # <<>> /\ LastOf(s) = s[i] /\ i \in 1..Len(s)
        BY <1>1, <2>2 DEF LastOf
      <3> QED BY <1>1, <2>2, <3>1
    <2>3. CASE i < Len(s)
      <3>1. i \in 1..Len(s) /\ Len(s) \in 1..Len(s) /\ i + 1 \in 1..Len(s) /\ i # Len(s)
        BY <1>1, <2>3
      <3>2. s[i] # s[Len(s)]
        BY <1>2, <3>1 DEF IsList, IsInjective
      <3>3. LastOf(s) = s[Len(s)]
        BY <1>1, <3>1 DEF LastOf
      <3>4. link2[s[i]] = link[s[i]] /\ link[s[i]] = s[i + 1]
        BY <1>1, <3>1, <3>2, <3>3 DEF IsList
      <3> QED BY <1>1, <3>1, <3>4
    <2> QED BY <1>1, <2>1, <2>2, <2>3
  <1>7. IsList(link2, p2, t)
    BY <1>1, <1>4, <1>5, <1>6 DEF IsList
  <1> QED BY <1>7 DEF t

\* remove: the list from the second item on.
LEMMA ListTail ==
    ASSUME NEW link, NEW p, NEW s, IsList(link, p, s), s # <<>>
    PROVE  /\ IsList(link, link[p], Tail(s))
           /\ ChainIn(link, link[p]) = Tail(s)
           /\ Range(Tail(s)) = Range(s) \ {p}
           /\ Len(Tail(s)) = Len(s) - 1
           /\ Tail(s) # <<>> => LastOf(Tail(s)) = LastOf(s)
  <1> DEFINE t == Tail(s)
  <1>1. /\ s \in Seq(Item) /\ Len(s) \in Nat /\ Len(s) >= 1 /\ t \in Seq(Item)
        /\ Len(t) = Len(s) - 1
        /\ \A i \in 1..Len(t) : t[i] = s[i + 1]
        /\ t = <<>> <=> Len(t) = 0
    <2>1. s \in Seq(Item)
      BY DEF IsList
    <2>2. t \in Seq(Item) /\ Len(s) \in Nat /\ Len(s) >= 1
      BY <2>1
    <2>3. Len(t) = Len(s) - 1 /\ \A i \in 1..Len(t) : t[i] = s[i + 1]
      BY <2>1, <2>2
    <2> HIDE DEF t
    <2>4. t = <<>> <=> Len(t) = 0
      BY <2>2
    <2> QED BY <2>1, <2>2, <2>3, <2>4
  <1>2. DOMAIN t = 1..(Len(s) - 1) /\ DOMAIN s = 1..Len(s)
    BY <1>1
  <1>3. p = s[1]
    BY DEF IsList
  <1> HIDE DEF t
  <1>4. Range(t) = Range(s) \ {p}
    <2>1. ASSUME NEW x \in Range(t) PROVE x \in Range(s) \ {p}
      <3>1. PICK i \in 1..(Len(s) - 1) : x = s[i + 1]
        BY <1>1, <1>2 DEF Range
      <3>2. i + 1 \in 1..Len(s) /\ 1 \in 1..Len(s) /\ i + 1 # 1
        BY <1>1
      <3> QED BY <1>2, <1>3, <3>1, <3>2 DEF Range, IsList, IsInjective
    <2>2. ASSUME NEW x \in Range(s) \ {p} PROVE x \in Range(t)
      <3>1. PICK i \in 1..Len(s) : x = s[i]
        BY <1>2 DEF Range
      <3>2. i # 1
        BY <1>3, <3>1
      <3>3. i - 1 \in 1..(Len(s) - 1) /\ t[i - 1] = s[i]
        BY <1>1, <3>2
      <3> QED BY <1>2, <3>1, <3>3 DEF Range
    <2> QED BY <2>1, <2>2
  <1>5. IsInjective(t)
    <2>1. ASSUME NEW a \in DOMAIN t, NEW b \in DOMAIN t, t[a] = t[b] PROVE a = b
      <3>1. /\ a + 1 \in 1..Len(s) /\ b + 1 \in 1..Len(s) /\ s[a + 1] = s[b + 1]
            /\ a \in Nat /\ b \in Nat
        BY <1>1, <1>2, <2>1
      <3>2. a + 1 = b + 1
        BY <1>2, <3>1 DEF IsList, IsInjective
      <3> QED BY <3>1, <3>2
    <2> QED BY <2>1 DEF IsInjective
  <1>6. link[p] = IF t = <<>> THEN NoItem ELSE t[1]
    <2>1. 1 \in 1..Len(s) /\ link[s[1]] = IF 1 = Len(s) THEN NoItem ELSE s[1 + 1]
      BY <1>1 DEF IsList
    <2> QED BY <1>1, <1>3, <2>1
  <1>7. ASSUME NEW i \in 1..Len(t)
        PROVE  link[t[i]] = IF i = Len(t) THEN NoItem ELSE t[i + 1]
    <2>1. i + 1 \in 1..Len(s)
      BY <1>1
    <2>2. link[s[i + 1]] = IF i + 1 = Len(s) THEN NoItem ELSE s[(i + 1) + 1]
      BY <2>1 DEF IsList
    <2> QED BY <1>1, <2>1, <2>2
  <1>8. IsList(link, link[p], t)
    BY <1>1, <1>5, <1>6, <1>7 DEF IsList
  <1>9. t # <<>> => LastOf(t) = LastOf(s)
    BY <1>1 DEF LastOf
  <1>10. ChainIn(link, link[p]) = t
    BY <1>8, ChainIsList
  <1> QED BY <1>1, <1>4, <1>8, <1>9, <1>10 DEF t
-----------------------------------------------------------------------------
(***************************************************************************)
(* The steps.                                                              *)
(***************************************************************************)

\* What a step of core c leaves alone: the other cores, what they hold, and every
\* queue but the one whose lock it has.
StepBy(c) ==
    /\ \A d \in Core \ {c} :
         /\ qpc'[d] = qpc[d] /\ k'[d] = k[d] /\ it'[d] = it[d] /\ rest'[d] = rest[d]
         /\ held'[d] = held[d] /\ Chain(rest[d])' = Chain(rest[d])
         /\ \A i \in held[d] : next'[i] = next[i]
    /\ \A q \in Queue : q # k[c] \/ qpc[c] \notin Locked =>
         /\ first'[q] = first[q] /\ last'[q] = last[q] /\ size'[q] = size[q]
         /\ Chain(first[q])' = Chain(first[q])

\* What another core knows remains true.
LEMMA OtherCore ==
    ASSUME LQInv, NEW c \in Core, StepBy(c), NEW d \in Core, d # c
    PROVE  CoreInv(d)'
  <1>1. CoreInv(d) /\ k[d] \in Queue /\ k[c] \in Queue
    BY DEF LQInv, LQTypeOK
  <1>2. /\ qpc'[d] = qpc[d] /\ k'[d] = k[d] /\ it'[d] = it[d] /\ rest'[d] = rest[d]
        /\ held'[d] = held[d] /\ Chain(rest[d])' = Chain(rest[d])
        /\ \A i \in held[d] : next'[i] = next[i]
    BY DEF StepBy
  <1>3. CASE qpc[d] \in Locked
    <2>1. lock[k[d]] = d
      BY <1>1, <1>3 DEF LQInv, LockInv
    <2>2. k[d] # k[c] \/ qpc[c] \notin Locked
      BY <1>1, <2>1 DEF LQInv, LockInv
    <2>3. /\ first'[k[d]] = first[k[d]] /\ last'[k[d]] = last[k[d]] /\ size'[k[d]] = size[k[d]]
          /\ Chain(first[k[d]])' = Chain(first[k[d]])
      BY <1>1, <1>2, <2>2 DEF StepBy
    <2> HIDE DEF Chain
    <2> QED BY <1>1, <1>2, <2>3 DEF CoreInv, Exact, LastOf
  <1>4. CASE qpc[d] \notin Locked
    BY <1>1, <1>2, <1>4 DEF CoreInv, Locked
  <1> QED BY <1>3, <1>4

\* The invariant holds after a step if it holds of the lists, the locks and the core
\* that made it.
LEMMA StepInv ==
    ASSUME LQInv, NEW c \in Core, StepBy(c),
           LQTypeOK', ListInv', LockInv', CoreInv(c)',
           \A q \in Queue : lock'[q] = NoItem =>
             lock[q] = NoItem \/ (q = k[c] /\ qpc[c] \in Locked /\ Exact(q)')
    PROVE  LQInv'
  <1>1. ASSUME NEW d \in Core PROVE CoreInv(d)'
    BY OtherCore
  <1>2. ASSUME NEW q \in Queue, lock'[q] = NoItem PROVE Exact(q)'
    <2>1. CASE lock[q] # NoItem
      BY <1>2, <2>1
    <2>2. CASE lock[q] = NoItem
      <3>1. lock[q] # c /\ Exact(q)
        BY <2>2, QueueAssumption DEF LQInv
      <3>2. q # k[c] \/ qpc[c] \notin Locked
        BY <3>1 DEF LQInv, LockInv
      <3>3. /\ last'[q] = last[q] /\ size'[q] = size[q]
            /\ Chain(first[q])' = Chain(first[q])
        BY <3>2 DEF StepBy
      <3> QED BY <3>1, <3>3 DEF Exact
    <2> QED BY <2>1, <2>2
  <1> QED BY <1>1, <1>2 DEF LQInv

\* A step that changes no link, no list and no owner.
LEMMA QuietStep ==
    ASSUME LQInv, NEW c \in Core, UNCHANGED <<first, next, rest, held>>,
           \A d \in Core \ {c} : qpc'[d] = qpc[d] /\ k'[d] = k[d] /\ it'[d] = it[d],
           \A q \in Queue : q # k[c] \/ qpc[c] \notin Locked =>
             last'[q] = last[q] /\ size'[q] = size[q]
    PROVE  /\ ListInv' /\ StepBy(c)
           /\ \A q \in Queue : Chain(first[q])' = Chain(first[q])
           /\ \A d \in Core : Chain(rest[d])' = Chain(rest[d])
  <1>1. \A q \in Queue : Chain(first[q])' = Chain(first[q])
    BY DEF Chain
  <1>2. \A d \in Core : Chain(rest[d])' = Chain(rest[d])
    BY DEF Chain
  <1>3. ListInv'
    BY <1>1, <1>2 DEF LQInv, ListInv
  <1>4. StepBy(c)
    BY <1>1, <1>2 DEF StepBy
  <1> QED BY <1>1, <1>2, <1>3, <1>4

\* add is called.
LEMMA CallAddInv == ASSUME LQInv, NEW c \in Core, CallAdd(c) PROVE LQInv'
  <1>1. PICK q \in Queue, i \in held[c] :
          /\ qpc[c] = "out" /\ qpc' = [qpc EXCEPT ![c] = "add_lock"]
          /\ k' = [k EXCEPT ![c] = q] /\ it' = [it EXCEPT ![c] = i]
          /\ UNCHANGED <<first, last, size, lock, next, held, rest>>
    BY DEF CallAdd, QGoto
  <1>2. ListInv' /\ StepBy(c) /\ \A d \in Core : Chain(rest[d])' = Chain(rest[d])
    BY <1>1, QuietStep DEF LQInv, LQTypeOK, Locked
  <1>3. LQTypeOK'
    BY <1>1 DEF LQInv, LQTypeOK, Ptr
  <1>4. LockInv'
    BY <1>1 DEF LQInv, LQTypeOK, LockInv, Locked
  <1>5. CoreInv(c)'
    <2>1. rest[c] = NoItem /\ Range(Chain(rest[c])) = {}
      BY <1>1, ListEmpty, QueueAssumption DEF LQInv, CoreInv, Chain, Range
    <2>2. /\ qpc'[c] = "add_lock" /\ it'[c] \in held'[c]
          /\ it'[c] \notin Range(Chain(rest[c])')
      BY <1>1, <1>2, <2>1 DEF LQInv, LQTypeOK
    <2> QED BY <1>1, <2>1, <2>2 DEF CoreInv
  <1> QED BY <1>1, <1>2, <1>3, <1>4, <1>5, StepInv

\* add has the lock.
LEMMA AddLockInv == ASSUME LQInv, NEW c \in Core, AddLock(c) PROVE LQInv'
  <1>1. /\ qpc[c] = "add_lock" /\ qpc' = [qpc EXCEPT ![c] = "add_next"]
        /\ lock[k[c]] = NoItem /\ lock' = [lock EXCEPT ![k[c]] = c]
        /\ UNCHANGED <<first, last, size, next, held, k, it, rest>>
    BY DEF AddLock, QGoto, Lock
  <1>2. /\ ListInv' /\ StepBy(c)
        /\ \A q \in Queue : Chain(first[q])' = Chain(first[q])
        /\ \A d \in Core : Chain(rest[d])' = Chain(rest[d])
    BY <1>1, QuietStep DEF LQInv, LQTypeOK, Locked
  <1>3. LQTypeOK'
    BY <1>1 DEF LQInv, LQTypeOK
  <1>4. LockInv'
    BY <1>1, QueueAssumption DEF LQInv, LQTypeOK, LockInv, Locked
  <1>5. CoreInv(c)'
    <2>1. k[c] \in Queue /\ Exact(k[c]) /\ CoreInv(c) /\ qpc'[c] = "add_next"
      BY <1>1 DEF LQInv, LQTypeOK
    <2> QED BY <1>1, <1>2, <2>1 DEF CoreInv, Exact
  <1>6. \A q \in Queue : lock'[q] = NoItem => lock[q] = NoItem
    BY <1>1, QueueAssumption DEF LQInv, LQTypeOK
  <1> QED BY <1>2, <1>3, <1>4, <1>5, <1>6, StepInv

\* last points to the item that add has linked.
LEMMA AddLastInv == ASSUME LQInv, NEW c \in Core, AddLast(c) PROVE LQInv'
  <1>1. /\ qpc[c] = "add_last" /\ qpc' = [qpc EXCEPT ![c] = "add_size"]
        /\ last' = [last EXCEPT ![k[c]] = it[c]]
        /\ UNCHANGED <<first, size, lock, next, held, k, it, rest>>
    BY DEF AddLast, QGoto
  <1>2. /\ ListInv' /\ StepBy(c)
        /\ \A q \in Queue : Chain(first[q])' = Chain(first[q])
        /\ \A d \in Core : Chain(rest[d])' = Chain(rest[d])
    BY <1>1, QuietStep DEF LQInv, LQTypeOK, Locked
  <1>3. LQTypeOK'
    BY <1>1 DEF LQInv, LQTypeOK
  <1>4. LockInv'
    BY <1>1, QueueAssumption DEF LQInv, LQTypeOK, LockInv, Locked
  <1>5. CoreInv(c)'
    <2>1. k[c] \in Queue /\ CoreInv(c) /\ qpc'[c] = "add_size" /\ last'[k[c]] = it[c]
      BY <1>1 DEF LQInv, LQTypeOK
    <2> QED BY <1>1, <1>2, <2>1 DEF CoreInv
  <1> QED BY <1>1, <1>2, <1>3, <1>4, <1>5, StepInv

\* The counter agrees with the list again, and is not above the number of items.
LEMMA AddSizeInv == ASSUME LQInv, NEW c \in Core, AddSize(c) PROVE LQInv'
  <1>1. /\ qpc[c] = "add_size"
        /\ qpc' = [qpc EXCEPT ![c] = IF rest[c] = NoItem THEN "out" ELSE "walk"]
        /\ size' = [size EXCEPT ![k[c]] = @ + 1]
        /\ lock' = [lock EXCEPT ![k[c]] = NoItem]
        /\ UNCHANGED <<first, last, next, held, k, it, rest>>
    BY DEF AddSize, QGoto, Unlock
  <1>2. /\ ListInv' /\ StepBy(c)
        /\ \A q \in Queue : Chain(first[q])' = Chain(first[q])
        /\ \A d \in Core : Chain(rest[d])' = Chain(rest[d])
    BY <1>1, QuietStep DEF LQInv, LQTypeOK, Locked
  <1>3. /\ k[c] \in Queue /\ size[k[c]] + 1 = Len(Chain(first[k[c]]))
        /\ last[k[c]] = LastOf(Chain(first[k[c]]))
    BY <1>1 DEF LQInv, LQTypeOK, CoreInv
  <1>4. Len(Chain(first[k[c]])) <= Cardinality(Item) /\ Cardinality(Item) \in Nat
    BY <1>3, ListLength DEF LQInv, ListInv, IsList
  <1>5. LQTypeOK'
    BY <1>1, <1>3, <1>4 DEF LQInv, LQTypeOK
  <1>6. LockInv'
    BY <1>1, QueueAssumption DEF LQInv, LQTypeOK, LockInv, Locked
  <1>7. CoreInv(c)'
    BY <1>1, <1>2 DEF CoreInv, LQInv, LQTypeOK
  <1>8. \A q \in Queue : lock'[q] = NoItem => lock[q] = NoItem \/ q = k[c]
    BY <1>1 DEF LQInv, LQTypeOK
  <1>9. ASSUME NEW q \in Queue, q = k[c] PROVE Exact(q)'
    BY <1>1, <1>2, <1>3, <1>9 DEF Exact, LQInv, LQTypeOK
  <1> QED BY <1>1, <1>2, <1>5, <1>6, <1>7, <1>8, <1>9, StepInv DEF Locked

\* remove is called.
LEMMA CallRemoveInv == ASSUME LQInv, NEW c \in Core, CallRemove(c) PROVE LQInv'
  <1>1. PICK q \in Queue :
          /\ qpc[c] = "out" /\ qpc' = [qpc EXCEPT ![c] = "rm_look"]
          /\ k' = [k EXCEPT ![c] = q]
          /\ UNCHANGED <<first, last, size, lock, next, held, it, rest>>
    BY DEF CallRemove, QGoto
  <1>2. /\ ListInv' /\ StepBy(c)
        /\ \A r \in Queue : Chain(first[r])' = Chain(first[r])
        /\ \A d \in Core : Chain(rest[d])' = Chain(rest[d])
    BY <1>1, QuietStep DEF LQInv, LQTypeOK, Locked
  <1>3. LQTypeOK'
    BY <1>1 DEF LQInv, LQTypeOK
  <1>4. LockInv'
    BY <1>1, QueueAssumption DEF LQInv, LQTypeOK, LockInv, Locked
  <1>5. CoreInv(c)'
    <2>1. rest'[c] = NoItem /\ qpc'[c] = "rm_look"
      BY <1>1 DEF LQInv, LQTypeOK, CoreInv
    <2> QED BY <2>1 DEF CoreInv
  <1> QED BY <1>1, <1>2, <1>3, <1>4, <1>5, StepInv

\* remove looks at first without the lock: whatever it finds, nothing is concluded from it.
LEMMA RmLookInv == ASSUME LQInv, NEW c \in Core, RmLook(c) PROVE LQInv'
  <1>1. /\ qpc[c] = "rm_look"
        /\ qpc' = [qpc EXCEPT ![c] = IF first[k[c]] = NoItem THEN "out" ELSE "rm_lock"]
        /\ UNCHANGED <<first, last, size, lock, next, held, k, it, rest>>
    BY DEF RmLook, QGoto
  <1>2. /\ ListInv' /\ StepBy(c)
        /\ \A q \in Queue : Chain(first[q])' = Chain(first[q])
        /\ \A d \in Core : Chain(rest[d])' = Chain(rest[d])
    BY <1>1, QuietStep DEF LQInv, LQTypeOK, Locked
  <1>3. LQTypeOK'
    BY <1>1 DEF LQInv, LQTypeOK
  <1>4. LockInv'
    BY <1>1, QueueAssumption DEF LQInv, LQTypeOK, LockInv, Locked
  <1>5. CoreInv(c)'
    <2>1. rest'[c] = NoItem /\ qpc'[c] \in {"out", "rm_lock"}
      BY <1>1 DEF LQInv, LQTypeOK, CoreInv
    <2> QED BY <2>1 DEF CoreInv
  <1> QED BY <1>1, <1>2, <1>3, <1>4, <1>5, StepInv

\* remove has the lock.
LEMMA RmLockInv == ASSUME LQInv, NEW c \in Core, RmLock(c) PROVE LQInv'
  <1>1. /\ qpc[c] = "rm_lock" /\ qpc' = [qpc EXCEPT ![c] = "rm_test"]
        /\ lock[k[c]] = NoItem /\ lock' = [lock EXCEPT ![k[c]] = c]
        /\ UNCHANGED <<first, last, size, next, held, k, it, rest>>
    BY DEF RmLock, QGoto, Lock
  <1>2. /\ ListInv' /\ StepBy(c)
        /\ \A q \in Queue : Chain(first[q])' = Chain(first[q])
        /\ \A d \in Core : Chain(rest[d])' = Chain(rest[d])
    BY <1>1, QuietStep DEF LQInv, LQTypeOK, Locked
  <1>3. LQTypeOK'
    BY <1>1 DEF LQInv, LQTypeOK
  <1>4. LockInv'
    BY <1>1, QueueAssumption DEF LQInv, LQTypeOK, LockInv, Locked
  <1>5. CoreInv(c)'
    <2>1. k[c] \in Queue /\ Exact(k[c]) /\ CoreInv(c) /\ qpc'[c] = "rm_test"
      BY <1>1 DEF LQInv, LQTypeOK
    <2> QED BY <1>1, <1>2, <2>1 DEF CoreInv, Exact
  <1>6. \A q \in Queue : lock'[q] = NoItem => lock[q] = NoItem
    BY <1>1, QueueAssumption DEF LQInv, LQTypeOK
  <1> QED BY <1>2, <1>3, <1>4, <1>5, <1>6, StepInv

\* remove looks at first again.
LEMMA RmTestInv == ASSUME LQInv, NEW c \in Core, RmTest(c) PROVE LQInv'
  <1>1. /\ qpc[c] = "rm_test"
        /\ UNCHANGED <<first, last, size, next, held, k, rest>>
        /\ \/ /\ qpc' = [qpc EXCEPT ![c] = "out"]
              /\ lock' = [lock EXCEPT ![k[c]] = NoItem] /\ it' = it
           \/ /\ qpc' = [qpc EXCEPT ![c] = "rm_first"] /\ first[k[c]] # NoItem
              /\ it' = [it EXCEPT ![c] = first[k[c]]] /\ lock' = lock
    BY DEF RmTest, QGoto, Unlock
  <1>2. /\ ListInv' /\ StepBy(c)
        /\ \A q \in Queue : Chain(first[q])' = Chain(first[q])
        /\ \A d \in Core : Chain(rest[d])' = Chain(rest[d])
    BY <1>1, QuietStep DEF LQInv, LQTypeOK, Locked
  <1>3. LQTypeOK'
    BY <1>1 DEF LQInv, LQTypeOK
  <1>4. LockInv'
    BY <1>1, QueueAssumption DEF LQInv, LQTypeOK, LockInv, Locked
  <1>5. /\ k[c] \in Queue /\ Exact(k[c]) /\ rest[c] = NoItem
        /\ qpc'[c] = "out" \/ (qpc'[c] = "rm_first" /\ it'[c] = first[k[c]] /\ first[k[c]] # NoItem)
    BY <1>1 DEF LQInv, LQTypeOK, CoreInv
  <1>6. \A q \in Queue : q = k[c] => Exact(q)'
    BY <1>1, <1>2, <1>5 DEF Exact
  <1>7. CoreInv(c)'
    BY <1>1, <1>2, <1>5, <1>6 DEF CoreInv, Exact
  <1>8. \A q \in Queue : lock'[q] = NoItem => lock[q] = NoItem \/ q = k[c]
    BY <1>1 DEF LQInv, LQTypeOK
  <1> QED BY <1>1, <1>2, <1>3, <1>4, <1>6, <1>7, <1>8, StepInv DEF Locked

\* remove resets last if the list has become empty.
LEMMA RmLastInv == ASSUME LQInv, NEW c \in Core, RmLast(c) PROVE LQInv'
  <1>1. /\ qpc[c] = "rm_last" /\ qpc' = [qpc EXCEPT ![c] = "rm_size"]
        /\ last' = IF first[k[c]] = NoItem THEN [last EXCEPT ![k[c]] = NoItem] ELSE last
        /\ UNCHANGED <<first, size, lock, next, held, k, it, rest>>
    BY DEF RmLast, QGoto
  <1>2. /\ ListInv' /\ StepBy(c)
        /\ \A q \in Queue : Chain(first[q])' = Chain(first[q])
        /\ \A d \in Core : Chain(rest[d])' = Chain(rest[d])
    BY <1>1, QuietStep DEF LQInv, LQTypeOK, Locked
  <1>3. LQTypeOK'
    BY <1>1 DEF LQInv, LQTypeOK, Ptr
  <1>4. LockInv'
    BY <1>1, QueueAssumption DEF LQInv, LQTypeOK, LockInv, Locked
  <1>5. /\ k[c] \in Queue /\ CoreInv(c) /\ qpc'[c] = "rm_size"
        /\ last'[k[c]] = IF first[k[c]] = NoItem THEN NoItem ELSE last[k[c]]
    BY <1>1 DEF LQInv, LQTypeOK
  <1>6. first[k[c]] = NoItem <=> Chain(first[k[c]]) = <<>>
    BY <1>5, ListEmpty DEF LQInv, ListInv
  <1>7. last'[k[c]] = LastOf(Chain(first[k[c]]))
    BY <1>1, <1>5, <1>6 DEF CoreInv, LastOf
  <1>8. CoreInv(c)'
    BY <1>1, <1>2, <1>5, <1>7 DEF CoreInv
  <1> QED BY <1>1, <1>2, <1>3, <1>4, <1>8, StepInv

\* The counter agrees with the list again, and is not negative.
LEMMA RmSizeInv == ASSUME LQInv, NEW c \in Core, RmSize(c) PROVE LQInv'
  <1>1. /\ qpc[c] = "rm_size" /\ qpc' = [qpc EXCEPT ![c] = "out"]
        /\ size' = [size EXCEPT ![k[c]] = @ - 1]
        /\ lock' = [lock EXCEPT ![k[c]] = NoItem]
        /\ UNCHANGED <<first, last, next, held, k, it, rest>>
    BY DEF RmSize, QGoto, Unlock
  <1>2. /\ ListInv' /\ StepBy(c)
        /\ \A q \in Queue : Chain(first[q])' = Chain(first[q])
        /\ \A d \in Core : Chain(rest[d])' = Chain(rest[d])
    BY <1>1, QuietStep DEF LQInv, LQTypeOK, Locked
  <1>3. /\ k[c] \in Queue /\ size[k[c]] = Len(Chain(first[k[c]])) + 1
        /\ last[k[c]] = LastOf(Chain(first[k[c]])) /\ rest[c] = NoItem
    BY <1>1 DEF LQInv, LQTypeOK, CoreInv
  <1>4. Len(Chain(first[k[c]])) \in Nat /\ size[k[c]] \in 0..Cardinality(Item)
        /\ Cardinality(Item) \in Nat
    BY <1>3, ListLength DEF LQInv, ListInv, IsList, LQTypeOK
  <1>5. LQTypeOK'
    BY <1>1, <1>3, <1>4 DEF LQInv, LQTypeOK
  <1>6. LockInv'
    BY <1>1, QueueAssumption DEF LQInv, LQTypeOK, LockInv, Locked
  <1>7. CoreInv(c)'
    BY <1>1, <1>2, <1>3 DEF CoreInv, LQInv, LQTypeOK
  <1>8. \A q \in Queue : lock'[q] = NoItem => lock[q] = NoItem \/ q = k[c]
    BY <1>1 DEF LQInv, LQTypeOK
  <1>9. ASSUME NEW q \in Queue, q = k[c] PROVE Exact(q)'
    BY <1>1, <1>2, <1>3, <1>4, <1>9 DEF Exact, LQInv, LQTypeOK
  <1> QED BY <1>1, <1>2, <1>5, <1>6, <1>7, <1>8, <1>9, StepInv DEF Locked

\* remove_all is called.
LEMMA CallRemoveAllInv == ASSUME LQInv, NEW c \in Core, CallRemoveAll(c) PROVE LQInv'
  <1>1. PICK q \in Queue :
          /\ qpc[c] = "out" /\ qpc' = [qpc EXCEPT ![c] = "all_lock"]
          /\ k' = [k EXCEPT ![c] = q]
          /\ UNCHANGED <<first, last, size, lock, next, held, it, rest>>
    BY DEF CallRemoveAll, QGoto
  <1>2. /\ ListInv' /\ StepBy(c)
        /\ \A r \in Queue : Chain(first[r])' = Chain(first[r])
        /\ \A d \in Core : Chain(rest[d])' = Chain(rest[d])
    BY <1>1, QuietStep DEF LQInv, LQTypeOK, Locked
  <1>3. LQTypeOK'
    BY <1>1 DEF LQInv, LQTypeOK
  <1>4. LockInv'
    BY <1>1, QueueAssumption DEF LQInv, LQTypeOK, LockInv, Locked
  <1>5. CoreInv(c)'
    <2>1. rest'[c] = NoItem /\ qpc'[c] = "all_lock"
      BY <1>1 DEF LQInv, LQTypeOK, CoreInv
    <2> QED BY <2>1 DEF CoreInv
  <1> QED BY <1>1, <1>2, <1>3, <1>4, <1>5, StepInv

\* remove_all has the lock.
LEMMA AllLockInv == ASSUME LQInv, NEW c \in Core, AllLock(c) PROVE LQInv'
  <1>1. /\ qpc[c] = "all_lock" /\ qpc' = [qpc EXCEPT ![c] = "all_first"]
        /\ lock[k[c]] = NoItem /\ lock' = [lock EXCEPT ![k[c]] = c]
        /\ UNCHANGED <<first, last, size, next, held, k, it, rest>>
    BY DEF AllLock, QGoto, Lock
  <1>2. /\ ListInv' /\ StepBy(c)
        /\ \A q \in Queue : Chain(first[q])' = Chain(first[q])
        /\ \A d \in Core : Chain(rest[d])' = Chain(rest[d])
    BY <1>1, QuietStep DEF LQInv, LQTypeOK, Locked
  <1>3. LQTypeOK'
    BY <1>1 DEF LQInv, LQTypeOK
  <1>4. LockInv'
    BY <1>1, QueueAssumption DEF LQInv, LQTypeOK, LockInv, Locked
  <1>5. CoreInv(c)'
    <2>1. k[c] \in Queue /\ Exact(k[c]) /\ CoreInv(c) /\ qpc'[c] = "all_first"
      BY <1>1 DEF LQInv, LQTypeOK
    <2> QED BY <1>1, <1>2, <2>1 DEF CoreInv, Exact
  <1>6. \A q \in Queue : lock'[q] = NoItem => lock[q] = NoItem
    BY <1>1, QueueAssumption DEF LQInv, LQTypeOK
  <1> QED BY <1>2, <1>3, <1>4, <1>5, <1>6, StepInv

\* remove_all resets last.
LEMMA AllLastInv == ASSUME LQInv, NEW c \in Core, AllLast(c) PROVE LQInv'
  <1>1. /\ qpc[c] = "all_last" /\ qpc' = [qpc EXCEPT ![c] = "all_size"]
        /\ last' = [last EXCEPT ![k[c]] = NoItem]
        /\ UNCHANGED <<first, size, lock, next, held, k, it, rest>>
    BY DEF AllLast, QGoto
  <1>2. /\ ListInv' /\ StepBy(c)
        /\ \A q \in Queue : Chain(first[q])' = Chain(first[q])
        /\ \A d \in Core : Chain(rest[d])' = Chain(rest[d])
    BY <1>1, QuietStep DEF LQInv, LQTypeOK, Locked
  <1>3. LQTypeOK'
    BY <1>1 DEF LQInv, LQTypeOK, Ptr
  <1>4. LockInv'
    BY <1>1, QueueAssumption DEF LQInv, LQTypeOK, LockInv, Locked
  <1>5. CoreInv(c)'
    <2>1. k[c] \in Queue /\ CoreInv(c) /\ qpc'[c] = "all_size" /\ last'[k[c]] = NoItem
      BY <1>1 DEF LQInv, LQTypeOK
    <2> QED BY <1>1, <1>2, <2>1 DEF CoreInv
  <1> QED BY <1>1, <1>2, <1>3, <1>4, <1>5, StepInv

\* remove_all resets the counter, and the queue is an empty one.
LEMMA AllSizeInv == ASSUME LQInv, NEW c \in Core, AllSize(c) PROVE LQInv'
  <1>1. /\ qpc[c] = "all_size"
        /\ qpc' = [qpc EXCEPT ![c] = IF rest[c] = NoItem THEN "out" ELSE "walk"]
        /\ size' = [size EXCEPT ![k[c]] = 0]
        /\ lock' = [lock EXCEPT ![k[c]] = NoItem]
        /\ UNCHANGED <<first, last, next, held, k, it, rest>>
    BY DEF AllSize, QGoto, Unlock
  <1>2. /\ ListInv' /\ StepBy(c)
        /\ \A q \in Queue : Chain(first[q])' = Chain(first[q])
        /\ \A d \in Core : Chain(rest[d])' = Chain(rest[d])
    BY <1>1, QuietStep DEF LQInv, LQTypeOK, Locked
  <1>3. k[c] \in Queue /\ Chain(first[k[c]]) = <<>> /\ last[k[c]] = NoItem
    BY <1>1 DEF LQInv, LQTypeOK, CoreInv
  <1>4. 0 \in 0..Cardinality(Item)
    BY QueueAssumption, FS_CardinalityType
  <1>5. LQTypeOK'
    BY <1>1, <1>4 DEF LQInv, LQTypeOK
  <1>6. LockInv'
    BY <1>1, QueueAssumption DEF LQInv, LQTypeOK, LockInv, Locked
  <1>7. CoreInv(c)'
    BY <1>1, <1>2 DEF CoreInv, LQInv, LQTypeOK
  <1>8. \A q \in Queue : lock'[q] = NoItem => lock[q] = NoItem \/ q = k[c]
    BY <1>1 DEF LQInv, LQTypeOK
  <1>9. ASSUME NEW q \in Queue, q = k[c] PROVE Exact(q)'
    BY <1>1, <1>2, <1>3, <1>9 DEF Exact, LastOf, LQInv, LQTypeOK
  <1> QED BY <1>1, <1>2, <1>5, <1>6, <1>7, <1>8, <1>9, StepInv DEF Locked

\* The items are made: no list and no core has one, so they are nobody else's.
LEMMA MakeItemsInv ==
    ASSUME LQInv, NEW c \in Core, MakeItems(c)
    PROVE  LQInv' /\ \A q \in Queue : Chain(first[q])' = Chain(first[q]) /\ Chain(first[q]) = <<>>
  <1>1. /\ \A d \in Core : held[d] = {} /\ \A q \in Queue : first[q] = NoItem
        /\ held' = [held EXCEPT ![c] = Item]
        /\ UNCHANGED <<first, last, size, lock, next, qpc, k, it, rest>>
    BY DEF MakeItems
  <1>2. /\ \A q \in Queue : Chain(first[q])' = Chain(first[q])
        /\ \A d \in Core : Chain(rest[d])' = Chain(rest[d])
    BY <1>1 DEF Chain
  <1>3. \A q \in Queue : Chain(first[q]) = <<>> /\ Range(Chain(first[q])) = {}
    BY <1>1, ListEmpty DEF Chain, Range
  <1>4. \A d \in Core : Range(Chain(rest[d])) \subseteq held'[d]
    BY <1>1 DEF LQInv, ListInv
  <1>5. /\ \A q \in Queue : IsList(next', first'[q], Chain(first[q])')
        /\ \A d \in Core : IsList(next', rest'[d], Chain(rest[d])')
    BY <1>1, <1>2 DEF LQInv, ListInv
  <1>6. held'[c] = Item /\ \A d \in Core \ {c} : held'[d] = {}
    BY <1>1 DEF LQInv, LQTypeOK
  <1>7. ListInv'
    <2>1. \A q \in Queue : Range(Chain(first[q])') = {}
      BY <1>2, <1>3
    <2>2. \A d \in Core : Range(Chain(rest[d])') \subseteq held'[d]
      BY <1>2, <1>4
    <2>3. \A d, f \in Core : d # f => held'[d] \cap held'[f] = {}
      BY <1>6
    <2> QED BY <1>5, <2>1, <2>2, <2>3 DEF ListInv
  <1>8. LQTypeOK' /\ LockInv'
    BY <1>1 DEF LQInv, LQTypeOK, LockInv
  <1>9. StepBy(c)
    BY <1>1, <1>2, <1>6 DEF StepBy
  <1>10. CoreInv(c)'
    <2>1. CoreInv(c) /\ held[c] = {} /\ k[c] \in Queue
      BY <1>1 DEF LQInv, LQTypeOK
    <2> QED BY <1>1, <1>2, <2>1 DEF CoreInv, Exact
  <1> QED BY <1>1, <1>2, <1>3, <1>7, <1>8, <1>9, <1>10, StepInv

\* add clears the link of its item, which is in no list and not in the chain the core
\* still has to add.
LEMMA AddNextInv ==
    ASSUME LQInv, NEW c \in Core, AddNext(c)
    PROVE  LQInv' /\ \A q \in Queue : Chain(first[q])' = Chain(first[q])
  <1>1. /\ qpc[c] = "add_next" /\ qpc' = [qpc EXCEPT ![c] = "add_link"]
        /\ next' = [next EXCEPT ![it[c]] = NoItem]
        /\ UNCHANGED <<first, last, size, lock, held, k, it, rest>>
    BY DEF AddNext, QGoto
  <1>2. /\ it[c] \in held[c] /\ it[c] \notin Range(Chain(rest[c])) /\ it[c] \in Item
        /\ k[c] \in Queue /\ CoreInv(c) /\ qpc'[c] = "add_link"
    BY <1>1 DEF LQInv, CoreInv, LQTypeOK
  <1>3. next'[it[c]] = NoItem /\ \A i \in Item : i # it[c] => next'[i] = next[i]
    BY <1>1, <1>2 DEF LQInv, LQTypeOK
  <1>4. ASSUME NEW q \in Queue
        PROVE  IsList(next', first'[q], Chain(first[q])) /\ Chain(first[q])' = Chain(first[q])
    <2>1. IsList(next, first[q], Chain(first[q])) /\ it[c] \notin Range(Chain(first[q]))
      BY <1>2 DEF LQInv, ListInv
    <2>2. Range(Chain(first[q])) \subseteq Item
      BY <2>1 DEF IsList, Range
    <2>3. \A i \in Range(Chain(first[q])) : next'[i] = next[i]
      BY <1>3, <2>1, <2>2
    <2>4. IsList(next', first[q], Chain(first[q])) /\ ChainIn(next', first[q]) = Chain(first[q])
      BY <2>1, <2>3, ListFrame
    <2> QED BY <1>1, <2>4 DEF Chain
  <1>5. ASSUME NEW d \in Core
        PROVE  IsList(next', rest'[d], Chain(rest[d])) /\ Chain(rest[d])' = Chain(rest[d])
    <2>1. IsList(next, rest[d], Chain(rest[d])) /\ it[c] \notin Range(Chain(rest[d]))
      BY <1>2 DEF LQInv, ListInv
    <2>2. Range(Chain(rest[d])) \subseteq Item
      BY <2>1 DEF IsList, Range
    <2>3. \A i \in Range(Chain(rest[d])) : next'[i] = next[i]
      BY <1>3, <2>1, <2>2
    <2>4. IsList(next', rest[d], Chain(rest[d])) /\ ChainIn(next', rest[d]) = Chain(rest[d])
      BY <2>1, <2>3, ListFrame
    <2> QED BY <1>1, <2>4 DEF Chain
  <1>6. ListInv'
    <2>1. \A q \in Queue : IsList(next', first'[q], Chain(first[q])')
      BY <1>4
    <2>2. \A d \in Core : IsList(next', rest'[d], Chain(rest[d])')
      BY <1>5
    <2>3. \A q \in Queue : Range(Chain(first[q])') = Range(Chain(first[q]))
      BY <1>4
    <2>4. \A d \in Core : Range(Chain(rest[d])') = Range(Chain(rest[d])) /\ held'[d] = held[d]
      BY <1>1, <1>5
    <2> QED BY <2>1, <2>2, <2>3, <2>4 DEF LQInv, ListInv
  <1>7. LQTypeOK' /\ LockInv'
    <2>1. LQTypeOK'
      BY <1>1 DEF LQInv, LQTypeOK, Ptr
    <2>2. LockInv'
      BY <1>1 DEF LQInv, LQTypeOK, LockInv, Locked
    <2> QED BY <2>1, <2>2
  <1>8. StepBy(c)
    <2>1. ASSUME NEW d \in Core \ {c}, NEW i \in held[d] PROVE next'[i] = next[i]
      BY <1>2, <1>3 DEF LQInv, ListInv, LQTypeOK
    <2> QED BY <1>1, <1>4, <1>5, <2>1 DEF StepBy, LQInv, LQTypeOK
  <1>9. CoreInv(c)'
    BY <1>1, <1>2, <1>3, <1>4, <1>5 DEF CoreInv, Exact
  <1> QED BY <1>1, <1>4, <1>6, <1>7, <1>8, <1>9, StepInv

\* add links the item: the list of its queue has it at its end.
LEMMA AddLinkInv ==
    ASSUME LQInv, NEW c \in Core, AddLink(c)
    PROVE  /\ LQInv' /\ k[c] \in Queue /\ it[c] \in held[c] /\ it[c] \in Item
           /\ held' = [held EXCEPT ![c] = @ \ {it[c]}]
           /\ \A q \in Queue : Chain(first[q])' =
                IF q = k[c] THEN Append(Chain(first[q]), it[c]) ELSE Chain(first[q])
  <1> DEFINE t == k[c]
             e == it[c]
             s == Chain(first[t])
  <1>1. /\ qpc[c] = "add_link" /\ qpc' = [qpc EXCEPT ![c] = "add_last"]
        /\ IF first[t] = NoItem
           THEN first' = [first EXCEPT ![t] = e] /\ next' = next
           ELSE next' = [next EXCEPT ![last[t]] = e] /\ first' = first
        /\ held' = [held EXCEPT ![c] = @ \ {e}]
        /\ UNCHANGED <<last, size, lock, k, it, rest>>
    BY DEF AddLink, QGoto
  <1>2. /\ e \in held[c] /\ e \notin Range(Chain(rest[c])) /\ e \in Item /\ next[e] = NoItem
        /\ t \in Queue /\ CoreInv(c) /\ qpc'[c] = "add_last" /\ size[t] = Len(s)
        /\ last[t] = LastOf(s) /\ IsList(next, first[t], s) /\ e \notin Range(s)
    BY <1>1 DEF LQInv, CoreInv, LQTypeOK, Exact, ListInv
  <1>3. first[t] = NoItem <=> s = <<>>
    BY <1>2, ListEmpty
  <1>4. s # <<>> => LastOf(s) \in Range(s) /\ LastOf(s) \in Item
    BY <1>2, ListEnds
  <1>5. /\ \A i \in Item : s = <<>> \/ i # LastOf(s) => next'[i] = next[i]
        /\ s # <<>> => next'[LastOf(s)] = e
        /\ next'[e] = NoItem
        /\ \A q \in Queue : first'[q] = IF q = t /\ s = <<>> THEN e ELSE first[q]
    <2>1. CASE s = <<>>
      BY <1>1, <1>2, <1>3, <2>1 DEF LQInv, LQTypeOK
    <2>2. CASE s # <<>>
      BY <1>1, <1>2, <1>3, <1>4, <2>2 DEF LQInv, LQTypeOK
    <2> QED BY <2>1, <2>2
  <1> HIDE DEF s
  <1>6. /\ IsList(next', first'[t], Append(s, e))
        /\ ChainIn(next', first'[t]) = Append(s, e)
        /\ Range(Append(s, e)) = Range(s) \cup {e}
        /\ LastOf(Append(s, e)) = e /\ Len(Append(s, e)) = Len(s) + 1
    <2>1. \A i \in Range(s) : i # LastOf(s) => next'[i] = next[i]
      BY <1>2, <1>5 DEF IsList, Range
    <2>2. first'[t] = IF s = <<>> THEN e ELSE first[t]
      BY <1>2, <1>5
    <2>3. /\ IsList(next, first[t], s) /\ e \in Item /\ e \notin Range(s) /\ next'[e] = NoItem
          /\ s # <<>> => next'[LastOf(s)] = e
      BY <1>2, <1>5
    <2>4. IsList(next', first'[t], Append(s, e))
      BY <2>1, <2>2, <2>3, ListAppend
    <2>5. ChainIn(next', first'[t]) = Append(s, e)
      BY <2>4, ChainIsList
    <2>6. /\ Range(Append(s, e)) = Range(s) \cup {e}
          /\ LastOf(Append(s, e)) = e /\ Len(Append(s, e)) = Len(s) + 1
      BY <2>3, AppendShape DEF IsList
    <2> QED BY <2>4, <2>5, <2>6
  <1>7. IsList(next', first'[t], Append(s, e)) /\ Chain(first[t])' = Append(s, e) /\ k' = k
    BY <1>1, <1>6 DEF Chain
  <1>8. ASSUME NEW q \in Queue, q # t
        PROVE  IsList(next', first'[q], Chain(first[q])) /\ Chain(first[q])' = Chain(first[q])
    <2>1. /\ IsList(next, first[q], Chain(first[q]))
          /\ Range(Chain(first[q])) \cap Range(s) = {}
      BY <1>2, <1>8 DEF LQInv, ListInv, s
    <2>2. Range(Chain(first[q])) \subseteq Item
      BY <2>1 DEF IsList, Range
    <2>3. \A i \in Range(Chain(first[q])) : next'[i] = next[i]
      BY <1>4, <1>5, <2>1, <2>2
    <2>4. IsList(next', first[q], Chain(first[q])) /\ ChainIn(next', first[q]) = Chain(first[q])
      BY <2>1, <2>3, ListFrame
    <2> QED BY <1>5, <1>8, <2>4 DEF Chain
  <1>9. ASSUME NEW d \in Core
        PROVE  IsList(next', rest'[d], Chain(rest[d])) /\ Chain(rest[d])' = Chain(rest[d])
    <2>1. /\ IsList(next, rest[d], Chain(rest[d]))
          /\ Range(Chain(rest[d])) \cap Range(s) = {}
      BY <1>2 DEF LQInv, ListInv, s
    <2>2. Range(Chain(rest[d])) \subseteq Item
      BY <2>1 DEF IsList, Range
    <2>3. \A i \in Range(Chain(rest[d])) : next'[i] = next[i]
      BY <1>4, <1>5, <2>1, <2>2
    <2>4. IsList(next', rest[d], Chain(rest[d])) /\ ChainIn(next', rest[d]) = Chain(rest[d])
      BY <2>1, <2>3, ListFrame
    <2> QED BY <1>1, <2>4 DEF Chain
  <1>10. held'[c] = held[c] \ {e} /\ \A d \in Core \ {c} : held'[d] = held[d]
    BY <1>1 DEF LQInv, LQTypeOK
  <1>11. \A q \in Queue : Chain(first[q])' = IF q = t THEN Append(s, e) ELSE Chain(first[q])
    BY <1>7, <1>8
  <1>12. ListInv'
    <2>1. \A q \in Queue : IsList(next', first'[q], Chain(first[q])')
      BY <1>7, <1>8, <1>11
    <2>2. \A d \in Core : /\ IsList(next', rest'[d], Chain(rest[d])')
                          /\ Range(Chain(rest[d])') \subseteq held'[d]
      BY <1>2, <1>9, <1>10 DEF LQInv, ListInv
    <2>3. \A q \in Queue : Range(Chain(first[q])') =
                             IF q = t THEN Range(s) \cup {e} ELSE Range(Chain(first[q]))
      BY <1>6, <1>11
    <2>4. ASSUME NEW q \in Queue, NEW d \in Core PROVE Range(Chain(first[q])') \cap held'[d] = {}
      BY <1>2, <1>10, <2>3 DEF LQInv, ListInv, s
    <2>5. ASSUME NEW q \in Queue, NEW r \in Queue, q # r
          PROVE  Range(Chain(first[q])') \cap Range(Chain(first[r])') = {}
      <3>1. Range(Chain(first[q])) \cap Range(Chain(first[r])) = {}
        BY <2>5 DEF LQInv, ListInv
      <3>2. e \notin Range(Chain(first[q])) /\ e \notin Range(Chain(first[r]))
        BY <1>2 DEF LQInv, ListInv
      <3> QED BY <2>3, <2>5, <3>1, <3>2 DEF s
    <2>6. \A d, f \in Core : d # f => held'[d] \cap held'[f] = {}
      BY <1>10 DEF LQInv, ListInv
    <2> QED BY <2>1, <2>2, <2>4, <2>5, <2>6 DEF ListInv
  <1>13. LQTypeOK'
    BY <1>1, <1>2 DEF LQInv, LQTypeOK, Ptr
  <1>14. LockInv'
    BY <1>1 DEF LQInv, LQTypeOK, LockInv, Locked
  <1>15. StepBy(c)
    <2>1. ASSUME NEW d \in Core \ {c}, NEW i \in held[d] PROVE next'[i] = next[i]
      BY <1>2, <1>4, <1>5 DEF LQInv, ListInv, LQTypeOK, s
    <2> QED BY <1>1, <1>5, <1>8, <1>9, <1>10, <2>1 DEF StepBy, LQInv, LQTypeOK, Locked
  <1>16. CoreInv(c)'
    <2>1. size'[t] + 1 = Len(Append(s, e)) /\ it'[c] = LastOf(Append(s, e)) /\ k'[c] = t
      BY <1>1, <1>2, <1>6
    <2> QED BY <1>1, <1>2, <1>7, <2>1 DEF CoreInv
  <1>17. \A q \in Queue : lock'[q] = lock[q]
    BY <1>1
  <1>18. LQInv'
    BY <1>12, <1>13, <1>14, <1>15, <1>16, <1>17, StepInv
  <1> QED BY <1>1, <1>2, <1>11, <1>18 DEF s

\* remove takes the first item out of the list.
LEMMA RmFirstInv ==
    ASSUME LQInv, NEW c \in Core, RmFirst(c)
    PROVE  /\ LQInv' /\ k[c] \in Queue /\ Chain(first[k[c]]) # <<>>
           /\ held' = [held EXCEPT ![c] = @ \cup {Head(Chain(first[k[c]]))}]
           /\ \A q \in Queue : Chain(first[q])' =
                IF q = k[c] THEN Tail(Chain(first[q])) ELSE Chain(first[q])
  <1> DEFINE t == k[c]
             s == Chain(first[t])
  <1>1. /\ qpc[c] = "rm_first" /\ qpc' = [qpc EXCEPT ![c] = "rm_last"]
        /\ first' = [first EXCEPT ![t] = next[it[c]]]
        /\ held' = [held EXCEPT ![c] = @ \cup {it[c]}]
        /\ UNCHANGED <<last, size, lock, next, k, it, rest>>
    BY DEF RmFirst, QGoto
  <1>2. /\ t \in Queue /\ qpc'[c] = "rm_last" /\ size[t] = Len(s) /\ last[t] = LastOf(s)
        /\ IsList(next, first[t], s) /\ it[c] = first[t] /\ first[t] # NoItem
        /\ rest[c] = NoItem
    <2>1. t \in Queue /\ qpc'[c] = "rm_last" /\ CoreInv(c)
      BY <1>1 DEF LQInv, LQTypeOK
    <2>2. IsList(next, first[t], s)
      BY <2>1 DEF LQInv, ListInv
    <2>3. /\ size[t] = Len(s) /\ last[t] = LastOf(s) /\ it[c] = first[t] /\ first[t] # NoItem
          /\ rest[c] = NoItem
      BY <1>1, <2>1 DEF CoreInv, Exact
    <2> QED BY <2>1, <2>2, <2>3
  <1>3. s # <<>>
    BY <1>2, ListEmpty
  <1>4. it[c] = Head(s) /\ it[c] \in Item /\ it[c] \in Range(s) /\ Len(s) \in Nat
    BY <1>2, <1>3, ListEnds
  <1> HIDE DEF s
  <1>5. /\ IsList(next, next[it[c]], Tail(s)) /\ ChainIn(next, next[it[c]]) = Tail(s)
        /\ Range(Tail(s)) = Range(s) \ {it[c]} /\ Len(Tail(s)) = Len(s) - 1
        /\ Tail(s) # <<>> => LastOf(Tail(s)) = LastOf(s)
    BY <1>2, <1>3, ListTail
  <1>6. \A q \in Queue : first'[q] = IF q = t THEN next[it[c]] ELSE first[q]
    BY <1>1, <1>2 DEF LQInv, LQTypeOK
  <1>7. ASSUME NEW q \in Queue
        PROVE  Chain(first[q])' = IF q = t THEN Tail(s) ELSE Chain(first[q])
    <2>1. Chain(first[q])' = ChainIn(next, first'[q]) /\ Chain(first[q]) = ChainIn(next, first[q])
      BY <1>1 DEF Chain
    <2> QED BY <1>5, <1>6, <2>1
  <1>8. \A d \in Core : Chain(rest[d])' = Chain(rest[d])
    BY <1>1 DEF Chain
  <1>9. held'[c] = held[c] \cup {it[c]} /\ \A d \in Core \ {c} : held'[d] = held[d]
    BY <1>1 DEF LQInv, LQTypeOK
  <1>10. ListInv'
    <2>1. \A q \in Queue : IsList(next', first'[q], Chain(first[q])')
      BY <1>1, <1>5, <1>6, <1>7 DEF LQInv, ListInv
    <2>2. \A d \in Core : /\ IsList(next', rest'[d], Chain(rest[d])')
                          /\ Range(Chain(rest[d])') \subseteq held'[d]
      BY <1>1, <1>8, <1>9 DEF LQInv, ListInv
    <2>3. \A q \in Queue : Range(Chain(first[q])') =
                             IF q = t THEN Range(s) \ {it[c]} ELSE Range(Chain(first[q]))
      BY <1>5, <1>7
    <2>4. ASSUME NEW q \in Queue, NEW d \in Core PROVE Range(Chain(first[q])') \cap held'[d] = {}
      <3>1. Range(Chain(first[q])) \cap held[d] = {}
        BY DEF LQInv, ListInv
      <3>2. q # t => it[c] \notin Range(Chain(first[q]))
        BY <1>2, <1>4 DEF LQInv, ListInv, s
      <3> QED BY <1>9, <2>3, <3>1, <3>2 DEF s
    <2>5. ASSUME NEW q \in Queue, NEW r \in Queue, q # r
          PROVE  Range(Chain(first[q])') \cap Range(Chain(first[r])') = {}
      <3>1. Range(Chain(first[q])) \cap Range(Chain(first[r])) = {}
        BY <2>5 DEF LQInv, ListInv
      <3> QED BY <2>3, <2>5, <3>1 DEF s
    <2>6. ASSUME NEW d \in Core, NEW f \in Core, d # f PROVE held'[d] \cap held'[f] = {}
      <3>1. held[d] \cap held[f] = {} /\ it[c] \notin held[d] /\ it[c] \notin held[f]
        BY <1>2, <1>4, <2>6 DEF LQInv, ListInv, s
      <3> QED BY <1>9, <2>6, <3>1
    <2> QED BY <2>1, <2>2, <2>4, <2>5, <2>6 DEF ListInv
  <1>11. LQTypeOK'
    <2>1. next[it[c]] \in Ptr
      BY <1>4 DEF LQInv, LQTypeOK
    <2> QED BY <1>1, <1>4, <2>1 DEF LQInv, LQTypeOK
  <1>12. LockInv'
    BY <1>1 DEF LQInv, LQTypeOK, LockInv, Locked
  <1>13. StepBy(c)
    BY <1>1, <1>6, <1>7, <1>8, <1>9 DEF StepBy, LQInv, LQTypeOK, Locked
  <1>14. CoreInv(c)'
    <2>1. /\ size'[t] = Len(Tail(s)) + 1 /\ k'[c] = t
          /\ Tail(s) # <<>> => last'[t] = LastOf(Tail(s))
      BY <1>1, <1>2, <1>4, <1>5
    <2>2. Chain(first[k[c]])' = Tail(s)
      BY <1>1, <1>2, <1>7
    <2> QED BY <1>1, <1>2, <2>1, <2>2 DEF CoreInv
  <1>15. LQInv'
    BY <1>1, <1>10, <1>11, <1>12, <1>13, <1>14, StepInv
  <1> QED BY <1>1, <1>2, <1>3, <1>4, <1>7, <1>15 DEF s

\* remove_all takes the whole list.
LEMMA AllFirstInv ==
    ASSUME LQInv, NEW c \in Core, AllFirst(c)
    PROVE  /\ LQInv' /\ k[c] \in Queue
           /\ held' = [held EXCEPT ![c] = @ \cup Range(Chain(first[k[c]]))]
           /\ \A q \in Queue : Chain(first[q])' = IF q = k[c] THEN <<>> ELSE Chain(first[q])
  <1> DEFINE t == k[c]
             s == Chain(first[t])
  <1>1. /\ qpc[c] = "all_first" /\ qpc' = [qpc EXCEPT ![c] = "all_last"]
        /\ rest' = [rest EXCEPT ![c] = first[t]]
        /\ first' = [first EXCEPT ![t] = NoItem]
        /\ held' = [held EXCEPT ![c] = @ \cup Range(s)]
        /\ UNCHANGED <<last, size, lock, next, k, it>>
    BY DEF AllFirst, QGoto
  <1>2. /\ t \in Queue /\ qpc'[c] = "all_last" /\ IsList(next, first[t], s)
        /\ first[t] \in Ptr
    BY <1>1 DEF LQInv, LQTypeOK, ListInv
  <1>3. Range(s) \subseteq Item
    BY <1>2 DEF IsList, Range
  <1>4. /\ \A q \in Queue : first'[q] = IF q = t THEN NoItem ELSE first[q]
        /\ \A d \in Core : rest'[d] = IF d = c THEN first[t] ELSE rest[d]
        /\ \A d \in Core : held'[d] = IF d = c THEN held[c] \cup Range(s) ELSE held[d]
    BY <1>1, <1>2 DEF LQInv, LQTypeOK
  <1>5. \A q \in Queue : Chain(first[q])' = IF q = t THEN <<>> ELSE Chain(first[q])
    BY <1>1, <1>4, ListEmpty DEF Chain
  <1>6. \A d \in Core : Chain(rest[d])' = IF d = c THEN s ELSE Chain(rest[d])
    BY <1>1, <1>4 DEF Chain
  <1>7. Range(<<>>) = {}
    BY DEF Range
  <1> HIDE DEF s
  <1>8. ListInv'
    <2>1. \A q \in Queue : IsList(next', first'[q], Chain(first[q])')
      BY <1>1, <1>4, <1>5, ListEmpty DEF LQInv, ListInv
    <2>2. \A d \in Core : /\ IsList(next', rest'[d], Chain(rest[d])')
                          /\ Range(Chain(rest[d])') \subseteq held'[d]
      BY <1>1, <1>2, <1>4, <1>6 DEF LQInv, ListInv
    <2>3. \A q \in Queue : Range(Chain(first[q])') = IF q = t THEN {} ELSE Range(Chain(first[q]))
      BY <1>5, <1>7
    <2>4. ASSUME NEW q \in Queue, NEW d \in Core PROVE Range(Chain(first[q])') \cap held'[d] = {}
      <3>1. Range(Chain(first[q])) \cap held[d] = {}
        BY DEF LQInv, ListInv
      <3>2. q # t => Range(Chain(first[q])) \cap Range(s) = {}
        BY <1>2 DEF LQInv, ListInv, s
      <3> QED BY <1>4, <2>3, <3>1, <3>2
    <2>5. ASSUME NEW q \in Queue, NEW r \in Queue, q # r
          PROVE  Range(Chain(first[q])') \cap Range(Chain(first[r])') = {}
      <3>1. Range(Chain(first[q])) \cap Range(Chain(first[r])) = {}
        BY <2>5 DEF LQInv, ListInv
      <3> QED BY <2>3, <3>1
    <2>6. ASSUME NEW d \in Core, NEW f \in Core, d # f PROVE held'[d] \cap held'[f] = {}
      <3>1. held[d] \cap held[f] = {} /\ Range(s) \cap held[d] = {} /\ Range(s) \cap held[f] = {}
        BY <1>2, <2>6 DEF LQInv, ListInv, s
      <3> QED BY <1>4, <2>6, <3>1
    <2> QED BY <2>1, <2>2, <2>4, <2>5, <2>6 DEF ListInv
  <1>9. LQTypeOK'
    BY <1>1, <1>2, <1>3 DEF LQInv, LQTypeOK, Ptr
  <1>10. LockInv'
    BY <1>1 DEF LQInv, LQTypeOK, LockInv, Locked
  <1>11. StepBy(c)
    BY <1>1, <1>4, <1>5, <1>6 DEF StepBy, LQInv, LQTypeOK, Locked
  <1>12. CoreInv(c)'
    <2>1. Chain(first[k[c]])' = <<>>
      BY <1>1, <1>2, <1>5
    <2> QED BY <1>2, <2>1 DEF CoreInv
  <1>13. LQInv'
    BY <1>1, <1>8, <1>9, <1>10, <1>11, <1>12, StepInv
  <1> QED BY <1>1, <1>2, <1>5, <1>13 DEF s

\* notify_all reads the successor and goes on to add the item: the chain that is left
\* does not have it.
LEMMA NotifyWalkInv ==
    ASSUME LQInv, NEW c \in Core, NotifyWalk(c)
    PROVE  LQInv' /\ \A q \in Queue : Chain(first[q])' = Chain(first[q])
  <1> DEFINE s == Chain(rest[c])
  <1>1. PICK r \in Queue :
          /\ qpc[c] = "walk" /\ qpc' = [qpc EXCEPT ![c] = "add_lock"]
          /\ k' = [k EXCEPT ![c] = r]
          /\ it' = [it EXCEPT ![c] = rest[c]]
          /\ rest' = [rest EXCEPT ![c] = next[rest[c]]]
          /\ UNCHANGED <<first, last, size, lock, next, held>>
    BY DEF NotifyWalk, QGoto
  <1>2. /\ qpc'[c] = "add_lock" /\ IsList(next, rest[c], s) /\ Range(s) \subseteq held[c]
        /\ rest[c] # NoItem
    BY <1>1 DEF LQInv, LQTypeOK, ListInv, CoreInv
  <1>3. s # <<>>
    BY <1>2, ListEmpty
  <1>4. rest[c] \in Item /\ rest[c] \in Range(s)
    BY <1>2, <1>3, ListEnds
  <1> HIDE DEF s
  <1>5. /\ IsList(next, next[rest[c]], Tail(s)) /\ ChainIn(next, next[rest[c]]) = Tail(s)
        /\ Range(Tail(s)) = Range(s) \ {rest[c]}
    BY <1>2, <1>3, ListTail
  <1>6. /\ \A d \in Core : rest'[d] = IF d = c THEN next[rest[c]] ELSE rest[d]
        /\ it'[c] = rest[c]
    BY <1>1 DEF LQInv, LQTypeOK
  <1>7. \A q \in Queue : Chain(first[q])' = Chain(first[q])
    BY <1>1 DEF Chain
  <1>8. ASSUME NEW d \in Core
        PROVE  Chain(rest[d])' = IF d = c THEN Tail(s) ELSE Chain(rest[d])
    <2>1. Chain(rest[d])' = ChainIn(next, rest'[d]) /\ Chain(rest[d]) = ChainIn(next, rest[d])
      BY <1>1 DEF Chain
    <2> QED BY <1>5, <1>6, <2>1
  <1>9. ListInv'
    <2>1. \A q \in Queue : IsList(next', first'[q], Chain(first[q])')
      BY <1>1, <1>7 DEF LQInv, ListInv
    <2>2. \A d \in Core : /\ IsList(next', rest'[d], Chain(rest[d])')
                          /\ Range(Chain(rest[d])') \subseteq held'[d]
      BY <1>1, <1>2, <1>5, <1>6, <1>8 DEF LQInv, ListInv
    <2>3. \A q \in Queue : Range(Chain(first[q])') = Range(Chain(first[q]))
      BY <1>7
    <2>4. \A d \in Core : held'[d] = held[d]
      BY <1>1
    <2> QED BY <2>1, <2>2, <2>3, <2>4 DEF LQInv, ListInv
  <1>10. LQTypeOK'
    <2>1. next[rest[c]] \in Ptr /\ rest[c] \in Ptr
      BY <1>4 DEF LQInv, LQTypeOK
    <2> QED BY <1>1, <2>1 DEF LQInv, LQTypeOK
  <1>11. LockInv'
    BY <1>1 DEF LQInv, LQTypeOK, LockInv, Locked
  <1>12. StepBy(c)
    BY <1>1, <1>6, <1>7, <1>8 DEF StepBy, LQInv, LQTypeOK
  <1>13. CoreInv(c)'
    <2>1. it'[c] \in held'[c] /\ it'[c] \notin Range(Chain(rest[c])')
      BY <1>1, <1>2, <1>4, <1>5, <1>6, <1>8
    <2> QED BY <1>2, <2>1 DEF CoreInv
  <1>14. LQInv'
    BY <1>1, <1>9, <1>10, <1>11, <1>12, <1>13, StepInv
  <1> QED BY <1>7, <1>14

\* All queues are empty at the start.
LEMMA LQInitInv == LQInit => LQInv /\ \A q \in Queue : Chain(first[q]) = <<>>
  <1> SUFFICES ASSUME LQInit PROVE LQInv /\ \A q \in Queue : Chain(first[q]) = <<>>
    OBVIOUS
  <1>1. /\ \A q \in Queue : first[q] = NoItem /\ lock[q] = NoItem /\ size[q] = 0 /\ last[q] = NoItem
        /\ \A c \in Core : rest[c] = NoItem /\ held[c] = {} /\ qpc[c] = "out"
    BY DEF LQInit
  <1>2. /\ \A q \in Queue : Chain(first[q]) = <<>> /\ IsList(next, first[q], Chain(first[q]))
        /\ \A c \in Core : Chain(rest[c]) = <<>> /\ IsList(next, rest[c], Chain(rest[c]))
    BY <1>1, ListEmpty DEF Chain
  <1>3. Range(<<>>) = {}
    BY DEF Range
  <1>4. ListInv
    BY <1>1, <1>2, <1>3 DEF ListInv
  <1>5. LQTypeOK
    <2>1. 0 \in 0..Cardinality(Item)
      BY QueueAssumption, FS_CardinalityType
    <2> QED BY <2>1 DEF LQInit, LQTypeOK, Ptr
  <1>6. LockInv
    BY <1>1, QueueAssumption DEF LockInv, Locked
  <1>7. \A q \in Queue : Exact(q)
    BY <1>1, <1>2 DEF Exact, LastOf
  <1>8. \A c \in Core : CoreInv(c)
    BY <1>1 DEF CoreInv
  <1> QED BY <1>2, <1>4, <1>5, <1>6, <1>7, <1>8 DEF LQInv

\* Every step preserves the invariant.
LEMMA LQNextInv == LQInv /\ [LQNext]_lqVars => LQInv'
  <1> SUFFICES ASSUME LQInv, [LQNext]_lqVars PROVE LQInv'
    OBVIOUS
  <1>1. CASE UNCHANGED lqVars
    <2>1. /\ \A q \in Queue : Chain(first[q])' = Chain(first[q])
          /\ \A d \in Core : Chain(rest[d])' = Chain(rest[d])
      BY <1>1 DEF lqVars, Chain
    <2>2. LQTypeOK' /\ LockInv'
      BY <1>1 DEF lqVars, LQInv, LQTypeOK, LockInv
    <2>3. ListInv'
      BY <1>1, <2>1 DEF lqVars, LQInv, ListInv
    <2>4. \A q \in Queue : Exact(q)' <=> Exact(q)
      BY <1>1, <2>1 DEF lqVars, Exact
    <2>5. ASSUME NEW c \in Core PROVE CoreInv(c)'
      <3>1. CoreInv(c) /\ k[c] \in Queue
        BY DEF LQInv, LQTypeOK
      <3> QED BY <1>1, <2>1, <2>4, <3>1 DEF lqVars, CoreInv, Exact
    <2>6. \A q \in Queue : lock'[q] = NoItem => Exact(q)'
      BY <1>1, <2>4 DEF lqVars, LQInv
    <2> QED BY <2>2, <2>3, <2>5, <2>6 DEF LQInv
  <1>2. CASE LQNext
    <2>1. PICK c \in Core : LQStep(c)
      BY <1>2 DEF LQNext
    <2> QED BY <2>1, MakeItemsInv, CallAddInv, AddLockInv, AddNextInv, AddLinkInv, AddLastInv,
               AddSizeInv, CallRemoveInv, RmLookInv, RmLockInv, RmTestInv, RmFirstInv, RmLastInv,
               RmSizeInv, CallRemoveAllInv, AllLockInv, AllFirstInv, AllLastInv, AllSizeInv,
               NotifyWalkInv DEF LQStep
  <1> QED BY <1>1, <1>2

\* The invariant says what the run checks.
LEMMA LQInvWellFormed == LQInv => WellFormed
  <1> SUFFICES ASSUME LQInv PROVE WellFormed
    OBVIOUS
  <1>1. ASSUME NEW q \in Queue
        PROVE  LET s == Chain(first[q]) IN
               /\ lock[q] = NoItem =>
                    /\ size[q] = Len(s)
                    /\ last[q] = IF s = <<>> THEN NoItem ELSE s[Len(s)]
               /\ IsInjective(s)
               /\ \A c \in Core : Range(s) \cap held[c] = {}
    <2>1. lock[q] = NoItem => Exact(q)
      BY DEF LQInv
    <2>2. IsInjective(Chain(first[q]))
      BY DEF LQInv, ListInv, IsList
    <2>3. \A c \in Core : Range(Chain(first[q])) \cap held[c] = {}
      BY DEF LQInv, ListInv
    <2> QED BY <2>1, <2>2, <2>3 DEF Exact, LastOf
  <1>2. \A c \in Core : Range(Chain(rest[c])) \subseteq held[c]
    BY DEF LQInv, ListInv
  <1> QED BY <1>1, <1>2 DEF WellFormed

\* Every state of kernel/queue.h under any interleaving of its loads and stores has the
\* invariant, from which the rest follows.
THEOREM LQInvariant == LQSpec => []LQInv
  <1>1. LQInit => LQInv
    BY LQInitInv
  <1> QED BY <1>1, LQNextInv, PTL DEF LQSpec

\* last and the counter of an unlocked queue agree with its list, no list shares an item
\* with another or with a core or runs in a circle, and the chain of a notifier is its own,
\* for any number of cores, queues and items.
THEOREM LQWellFormed == LQSpec => []WellFormed
  BY LQInvariant, LQInvWellFormed, PTL

\* A step of the linked list is a step of the atomic queue or none.
LEMMA LQStepFifo ==
    ASSUME LQInv, NEW c \in Core, LQStep(c)
    PROVE  [Fifo!FifoNext]_(Fifo!fifoVars)
  <1> DEFINE Items == [q \in Queue |-> Chain(first[q])]
  <1> USE DEF Fifo!fifoVars
  <1>1. k[c] \in Queue
    BY DEF LQInv, LQTypeOK
  <1>2. CASE MakeItems(c)
    <2>1. \A q \in Queue : Chain(first[q])' = Chain(first[q]) /\ Chain(first[q]) = <<>>
      BY <1>2, MakeItemsInv
    <2>2. /\ Items' = Items /\ \A q \in Queue : Items[q] = <<>>
          /\ \A d \in Core : held[d] = {} /\ held' = [held EXCEPT ![c] = Item]
      BY <1>2, <2>1 DEF MakeItems
    <2>3. Fifo!Create(c)
      BY <2>2 DEF Fifo!Create
    <2> QED BY <1>1, <2>3 DEF Fifo!FifoNext
  <1>3. CASE AddLink(c)
    <2>1. /\ it[c] \in held[c] /\ it[c] \in Item /\ held' = [held EXCEPT ![c] = @ \ {it[c]}]
          /\ \A q \in Queue : Chain(first[q])' =
               IF q = k[c] THEN Append(Chain(first[q]), it[c]) ELSE Chain(first[q])
      BY <1>3, AddLinkInv
    <2>2. Items' = [Items EXCEPT ![k[c]] = Append(@, it[c])]
      BY <1>1, <2>1
    <2>3. Fifo!Add(c, k[c], it[c])
      BY <2>1, <2>2 DEF Fifo!Add
    <2> QED BY <1>1, <2>1, <2>3 DEF Fifo!FifoNext
  <1>4. CASE RmFirst(c)
    <2>1. /\ Chain(first[k[c]]) # <<>>
          /\ held' = [held EXCEPT ![c] = @ \cup {Head(Chain(first[k[c]]))}]
          /\ \A q \in Queue : Chain(first[q])' =
               IF q = k[c] THEN Tail(Chain(first[q])) ELSE Chain(first[q])
      BY <1>4, RmFirstInv
    <2>2. /\ Items' = [Items EXCEPT ![k[c]] = Tail(@)]
          /\ Items[k[c]] = Chain(first[k[c]])
      BY <1>1, <2>1
    <2>3. Fifo!Remove(c, k[c])
      BY <2>1, <2>2 DEF Fifo!Remove
    <2> QED BY <1>1, <2>3 DEF Fifo!FifoNext
  <1>5. CASE AllFirst(c)
    <2>1. /\ held' = [held EXCEPT ![c] = @ \cup Range(Chain(first[k[c]]))]
          /\ \A q \in Queue : Chain(first[q])' = IF q = k[c] THEN <<>> ELSE Chain(first[q])
      BY <1>5, AllFirstInv
    <2>2. /\ Items' = [Items EXCEPT ![k[c]] = <<>>]
          /\ Items[k[c]] = Chain(first[k[c]])
      BY <1>1, <2>1
    <2>3. Fifo!RemoveAll(c, k[c])
      <3> HIDE DEF Items
      <3>1. Fifo!Range(Items[k[c]]) = Range(Items[k[c]])
        BY DEF Fifo!Range, Range
      <3>2. held' = [held EXCEPT ![c] = @ \cup Fifo!Range(Items[k[c]])]
        BY <2>1, <2>2, <3>1
      <3> USE DEF Items
      <3> QED BY <2>2, <3>2 DEF Fifo!RemoveAll
    <2> QED BY <1>1, <2>3 DEF Fifo!FifoNext
  <1>6. CASE AddNext(c) \/ NotifyWalk(c)
    <2>1. \A q \in Queue : Chain(first[q])' = Chain(first[q])
      BY <1>6, AddNextInv, NotifyWalkInv
    <2>2. Items' = Items /\ held' = held
      BY <1>6, <2>1 DEF AddNext, NotifyWalk
    <2> QED BY <2>2
  <1>7. CASE UNCHANGED <<first, next, held>>
    <2>1. \A q \in Queue : Chain(first[q])' = Chain(first[q])
      BY <1>7 DEF Chain
    <2>2. Items' = Items /\ held' = held
      BY <1>7, <2>1
    <2> QED BY <2>2
  <1>8. \/ MakeItems(c) \/ AddLink(c) \/ RmFirst(c) \/ AllFirst(c) \/ AddNext(c) \/ NotifyWalk(c)
        \/ UNCHANGED <<first, next, held>>
    BY DEF LQStep, CallAdd, AddLock, AddLast, AddSize, CallRemove, RmLook, RmLock, RmTest, RmLast,
           RmSize, CallRemoveAll, AllLock, AllLast, AllSize
  <1> QED BY <1>2, <1>3, <1>4, <1>5, <1>6, <1>7, <1>8

\* The linked list implements the atomic queue: add takes effect when the item is linked,
\* remove and remove_all when first is overwritten, whatever the other cores do between
\* the loads and stores of an operation.
THEOREM LQImplementsFifo == LQSpec => ImplementsFifo
  <1>1. LQInit => Fifo!FifoInit
    BY LQInitInv DEF Fifo!FifoInit, LQInit
  <1>2. LQInv /\ [LQNext]_lqVars => [Fifo!FifoNext]_(Fifo!fifoVars)
    <2>1. ASSUME LQInv, LQNext PROVE [Fifo!FifoNext]_(Fifo!fifoVars)
      BY <2>1, LQStepFifo DEF LQNext
    <2>2. ASSUME UNCHANGED lqVars PROVE UNCHANGED Fifo!fifoVars
      BY <2>2 DEF lqVars, Fifo!fifoVars, Chain
    <2> QED BY <2>1, <2>2
  <1> QED BY <1>1, <1>2, LQInvariant, PTL DEF LQSpec, ImplementsFifo, Fifo!FifoSpec
=============================================================================
