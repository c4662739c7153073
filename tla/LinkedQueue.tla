---------------------------- MODULE LinkedQueue ----------------------------
(***************************************************************************)
(* Queue (kernel/queue.h): a singly linked list with first, last and a     *)
(* counter, under a lock, at the granularity of its loads and stores.  The *)
(* queues share the next field of the items, as the ready queue, the       *)
(* reaper queue and the queues of the conditions share TCB::next.  remove  *)
(* looks at first before it takes the lock.  A core that calls remove_all  *)
(* then adds the items of the chain to another queue, one by one, as       *)
(* Condition::notify_all does.  The lock is a SpinLock, or for the queue   *)
(* of a condition the spin lock its callers hold.                          *)
(***************************************************************************)
EXTENDS Naturals, Sequences, FiniteSets, Functions

CONSTANTS
    Core,
    Item,       \* what is linked: TCBs
    Queue,
    NoItem        \* nullptr

ASSUME QueueAssumption == IsFiniteSet(Item) /\ NoItem \notin Core \cup Item

VARIABLES
    first, last, size,  \* of each queue
    lock,               \* the core that holds the lock of a queue, or NoItem
    next,               \* of each item
    held,               \* the items a core owns and may add to a queue
    qpc, k,              \* where a core is, and the queue it works on
    it,                 \* the item it adds or removes
    rest                \* the chain notify_all still has to add

lqVars == <<first, last, size, lock, next, held, qpc, k, it, rest>>

Ptr == Item \cup {NoItem}

LQTypeOK ==
    /\ first \in [Queue -> Ptr]
    /\ last \in [Queue -> Ptr]
    /\ size \in [Queue -> 0..Cardinality(Item)]
    /\ lock \in [Queue -> Core \cup {NoItem}]
    /\ next \in [Item -> Ptr]
    /\ held \in [Core -> SUBSET Item]
    /\ qpc \in [Core -> {"out", "add_lock", "add_next", "add_link", "add_last",
                        "add_size", "rm_look", "rm_lock", "rm_test", "rm_first",
                        "rm_last", "rm_size", "all_lock", "all_first", "all_last",
                        "all_size", "walk"}]
    /\ k \in [Core -> Queue]
    /\ it \in [Core -> Ptr]
    /\ rest \in [Core -> Ptr]

LQInit ==
    /\ first = [q \in Queue |-> NoItem]
    /\ last = [q \in Queue |-> NoItem]
    /\ size = [q \in Queue |-> 0]
    /\ lock = [q \in Queue |-> NoItem]
    /\ next = [i \in Item |-> NoItem]
    /\ held = [c \in Core |-> {}]
    /\ qpc = [c \in Core |-> "out"]
    /\ k \in {[c \in Core |-> q] : q \in Queue}
    /\ it = [c \in Core |-> NoItem]
    /\ rest = [c \in Core |-> NoItem]

QGoto(c, p, q) == qpc[c] = p /\ qpc' = [qpc EXCEPT ![c] = q]

\* Seeded fault: the lock is entered while it is taken.
LockAlways(c) == lock' = [lock EXCEPT ![k[c]] = c]

Lock(c) ==
    /\ lock[k[c]] = NoItem
    /\ lock' = [lock EXCEPT ![k[c]] = c]

Unlock(c) == lock' = [lock EXCEPT ![k[c]] = NoItem]

-----------------------------------------------------------------------------
\* One core makes the items.
MakeItems(c) ==
    /\ \A d \in Core : held[d] = {}
    /\ \A q \in Queue : first[q] = NoItem
    /\ held' = [held EXCEPT ![c] = Item]
    /\ UNCHANGED <<first, last, size, lock, next, qpc, k, it, rest>>

\* add
CallAdd(c) == \E q \in Queue, i \in held[c] :
    /\ QGoto(c, "out", "add_lock")
    /\ k' = [k EXCEPT ![c] = q]
    /\ it' = [it EXCEPT ![c] = i]
    /\ UNCHANGED <<first, last, size, lock, next, held, rest>>

AddLock(c) ==
    /\ QGoto(c, "add_lock", "add_next")
    /\ Lock(c)
    /\ UNCHANGED <<first, last, size, next, held, k, it, rest>>

AddNext(c) ==
    /\ QGoto(c, "add_next", "add_link")
    /\ next' = [next EXCEPT ![it[c]] = NoItem]
    /\ UNCHANGED <<first, last, size, lock, held, k, it, rest>>

\* The item becomes reachable, and is the queue's from here on.
AddLink(c) ==
    /\ QGoto(c, "add_link", "add_last")
    /\ IF first[k[c]] = NoItem
       THEN first' = [first EXCEPT ![k[c]] = it[c]] /\ UNCHANGED next
       ELSE next' = [next EXCEPT ![last[k[c]]] = it[c]] /\ UNCHANGED first
    /\ held' = [held EXCEPT ![c] = @ \ {it[c]}]
    /\ UNCHANGED <<last, size, lock, k, it, rest>>

AddLast(c) ==
    /\ QGoto(c, "add_last", "add_size")
    /\ last' = [last EXCEPT ![k[c]] = it[c]]
    /\ UNCHANGED <<first, size, lock, next, held, k, it, rest>>

AddSize(c) ==
    /\ QGoto(c, "add_size", IF rest[c] = NoItem THEN "out" ELSE "walk")
    /\ size' = [size EXCEPT ![k[c]] = @ + 1]
    /\ Unlock(c)
    /\ UNCHANGED <<first, last, next, held, k, it, rest>>

\* remove: the look without the lock, ...
CallRemove(c) == \E q \in Queue :
    /\ QGoto(c, "out", "rm_look")
    /\ k' = [k EXCEPT ![c] = q]
    /\ UNCHANGED <<first, last, size, lock, next, held, it, rest>>

RmLook(c) ==
    /\ QGoto(c, "rm_look", IF first[k[c]] = NoItem THEN "out" ELSE "rm_lock")
    /\ UNCHANGED <<first, last, size, lock, next, held, k, it, rest>>

RmLock(c) ==
    /\ QGoto(c, "rm_lock", "rm_test")
    /\ Lock(c)
    /\ UNCHANGED <<first, last, size, next, held, k, it, rest>>

\* ... the look with the lock held, ...
RmTest(c) ==
    /\ \/ /\ first[k[c]] = NoItem
          /\ QGoto(c, "rm_test", "out")
          /\ Unlock(c)
          /\ UNCHANGED it
       \/ /\ first[k[c]] # NoItem
          /\ QGoto(c, "rm_test", "rm_first")
          /\ it' = [it EXCEPT ![c] = first[k[c]]]
          /\ UNCHANGED lock
    /\ UNCHANGED <<first, last, size, next, held, k, rest>>

\* ... and the unlinking.
RmFirst(c) ==
    /\ QGoto(c, "rm_first", "rm_last")
    /\ first' = [first EXCEPT ![k[c]] = next[it[c]]]
    /\ held' = [held EXCEPT ![c] = @ \cup {it[c]}]
    /\ UNCHANGED <<last, size, lock, next, k, it, rest>>

\* Seeded fault: last is not reset when the list becomes empty.
RmLastKept(c) ==
    /\ QGoto(c, "rm_last", "rm_size")
    /\ UNCHANGED <<first, last, size, lock, next, held, k, it, rest>>

RmLast(c) ==
    /\ QGoto(c, "rm_last", "rm_size")
    /\ last' = IF first[k[c]] = NoItem THEN [last EXCEPT ![k[c]] = NoItem] ELSE last
    /\ UNCHANGED <<first, size, lock, next, held, k, it, rest>>

RmSize(c) ==
    /\ QGoto(c, "rm_size", "out")
    /\ size' = [size EXCEPT ![k[c]] = @ - 1]
    /\ Unlock(c)
    /\ UNCHANGED <<first, last, next, held, k, it, rest>>

-----------------------------------------------------------------------------
\* The list that starts at p when the items are linked as link says: its n-th item,
\* and all of them in order.
Walk(link, p) ==
    LET node[n \in 1..(Cardinality(Item) + 1)] ==
          IF n = 1 THEN p
          ELSE IF node[n - 1] = NoItem THEN NoItem ELSE link[node[n - 1]]
    IN  node

ChainIn(link, p) ==
    LET node == Walk(link, p) IN
    [n \in 1..Cardinality({m \in DOMAIN node : node[m] # NoItem}) |-> node[n]]

Chain(p) == ChainIn(next, p)

\* remove_all
CallRemoveAll(c) == \E q \in Queue :
    /\ QGoto(c, "out", "all_lock")
    /\ k' = [k EXCEPT ![c] = q]
    /\ UNCHANGED <<first, last, size, lock, next, held, it, rest>>

AllLock(c) ==
    /\ QGoto(c, "all_lock", "all_first")
    /\ Lock(c)
    /\ UNCHANGED <<first, last, size, next, held, k, it, rest>>

AllFirst(c) ==
    /\ QGoto(c, "all_first", "all_last")
    /\ rest' = [rest EXCEPT ![c] = first[k[c]]]
    /\ first' = [first EXCEPT ![k[c]] = NoItem]
    /\ held' = [held EXCEPT ![c] = @ \cup Range(Chain(first[k[c]]))]
    /\ UNCHANGED <<last, size, lock, next, k, it>>

AllLast(c) ==
    /\ QGoto(c, "all_last", "all_size")
    /\ last' = [last EXCEPT ![k[c]] = NoItem]
    /\ UNCHANGED <<first, size, lock, next, held, k, it, rest>>

AllSize(c) ==
    /\ QGoto(c, "all_size", IF rest[c] = NoItem THEN "out" ELSE "walk")
    /\ size' = [size EXCEPT ![k[c]] = 0]
    /\ Unlock(c)
    /\ UNCHANGED <<first, last, next, held, k, it, rest>>

\* notify_all: the successor is read before the item is added to the next queue.
NotifyWalk(c) == \E q \in Queue :
    /\ QGoto(c, "walk", "add_lock")
    /\ k' = [k EXCEPT ![c] = q]
    /\ it' = [it EXCEPT ![c] = rest[c]]
    /\ rest' = [rest EXCEPT ![c] = next[rest[c]]]
    /\ UNCHANGED <<first, last, size, lock, next, held>>

LQStep(c) ==
    \/ MakeItems(c)
    \/ CallAdd(c) \/ AddLock(c) \/ AddNext(c) \/ AddLink(c) \/ AddLast(c) \/ AddSize(c)
    \/ CallRemove(c) \/ RmLook(c) \/ RmLock(c) \/ RmTest(c) \/ RmFirst(c)
    \/ RmLast(c) \/ RmSize(c)
    \/ CallRemoveAll(c) \/ AllLock(c) \/ AllFirst(c) \/ AllLast(c) \/ AllSize(c)
    \/ NotifyWalk(c)

LQNext == \E c \in Core : LQStep(c)

LQSpec == LQInit /\ [][LQNext]_lqVars

-----------------------------------------------------------------------------
\* The linked list implements an atomic sequence: add takes effect when the item
\* is linked, remove and remove_all when first is overwritten.
Fifo == INSTANCE FifoQueue WITH items <- [q \in Queue |-> Chain(first[q])]
ImplementsFifo == Fifo!FifoSpec

\* While nobody holds the lock of a queue, last is its last item and the counter
\* its length; the chain a notifier still has to add is its own, and no list
\* shares an item with another or runs in a circle.
WellFormed ==
    /\ \A q \in Queue :
         LET s == Chain(first[q]) IN
         /\ lock[q] = NoItem =>
              /\ size[q] = Len(s)
              /\ last[q] = IF s = <<>> THEN NoItem ELSE s[Len(s)]
         /\ IsInjective(s)
         /\ \A c \in Core : Range(s) \cap held[c] = {}
    /\ \A c \in Core :
         qpc[c] = "walk" => Range(Chain(rest[c])) \subseteq held[c]
=============================================================================
