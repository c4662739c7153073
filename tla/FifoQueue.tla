----------------------------- MODULE FifoQueue -----------------------------
(***************************************************************************)
(* What kernel/queue.h promises: add, remove and remove_all act at one     *)
(* instant on a sequence, and an item is in one queue or in the hands of   *)
(* one core.                                                               *)
(***************************************************************************)
EXTENDS Sequences, Functions

CONSTANTS Core, Item, Queue

VARIABLES
    items,  \* the contents of each queue
    held    \* the items each core owns

fifoVars == <<items, held>>

FifoInit ==
    /\ items = [k \in Queue |-> <<>>]
    /\ held = [c \in Core |-> {}]

\* One core makes the items.
Create(c) ==
    /\ \A d \in Core : held[d] = {}
    /\ \A k \in Queue : items[k] = <<>>
    /\ held' = [held EXCEPT ![c] = Item]
    /\ UNCHANGED items

Add(c, k, i) ==
    /\ i \in held[c]
    /\ items' = [items EXCEPT ![k] = Append(@, i)]
    /\ held' = [held EXCEPT ![c] = @ \ {i}]

Remove(c, k) ==
    /\ items[k] # <<>>
    /\ items' = [items EXCEPT ![k] = Tail(@)]
    /\ held' = [held EXCEPT ![c] = @ \cup {Head(items[k])}]

RemoveAll(c, k) ==
    /\ items' = [items EXCEPT ![k] = <<>>]
    /\ held' = [held EXCEPT ![c] = @ \cup Range(items[k])]

FifoNext ==
    \E c \in Core, k \in Queue :
      \/ Create(c)
      \/ \E i \in Item : Add(c, k, i)
      \/ Remove(c, k)
      \/ RemoveAll(c, k)

FifoSpec == FifoInit /\ [][FifoNext]_fifoVars
=============================================================================
