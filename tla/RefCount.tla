------------------------------ MODULE RefCount ------------------------------
(***************************************************************************)
(* Reference counts, shared.h: StrongRef and WeakRef over a Middle that    *)
(* holds the counts, and UniqueRef, which has no Middle.  A reference      *)
(* belongs to one thread at a time, which may pass it on; the Middle is    *)
(* shared.  Every critical section of Middle::lock and every delete after  *)
(* it is a step.                                                           *)
(***************************************************************************)
EXTENDS Integers, FiniteSets

CONSTANTS
  User,       \* threads
  StrongVar,  \* variables of type StrongRef
  WeakVar,    \* variables of type WeakRef
  UniqueVar,  \* variables of type UniqueRef
  Obj,        \* the objects, each with its Middle; memory is reused
  Null

Ref == StrongVar \cup WeakVar

\* A variable has one type, and there are finitely many of those that count.
ASSUME RefCountAssumption ==
  /\ IsFiniteSet(StrongVar) /\ IsFiniteSet(WeakVar)
  /\ StrongVar \cap WeakVar = {} /\ Ref \cap UniqueVar = {}
  /\ Null \notin Ref \cup UniqueVar \cup Obj

VARIABLES
  middle,     \* the Middle a reference points to
  unique,     \* the object a UniqueRef points to
  owner,      \* the thread whose variable it is
  live,       \* the objects that exist
  mid,        \* the Middles: counts, the ptr field, and whether they exist
  job         \* the assignment a thread is in the middle of

refVars == <<middle, unique, owner, live, mid, job>>

NoMiddle == [strong |-> 0, weak |-> 0, ptr |-> FALSE, exists |-> FALSE]

\* Middle(T *).
NewMiddle == [strong |-> 1, weak |-> 0, ptr |-> TRUE, exists |-> TRUE]

\* An assignment to the variable `to` from `from`, or of nullptr.  del_ptr and
\* delete_m are what remove_strong or remove_weak still has to delete.
Job == [to: Ref, from: Ref \cup UniqueVar \cup {Null}, del_ptr: Obj \cup {Null}, delete_m: Obj \cup {Null}]

Idle == [to |-> Null, from |-> Null, del_ptr |-> Null, delete_m |-> Null]

RefInit ==
  /\ middle = [r \in Ref |-> Null]
  /\ unique = [x \in UniqueVar |-> Null]
  /\ \E u \in User : owner = [r \in Ref \cup UniqueVar |-> u]
  /\ live = {}
  /\ mid = [o \in Obj |-> NoMiddle]
  /\ job = [u \in User |-> Idle]

\* StrongRef(T *), with a new object.
Make(u, r) ==
  /\ job[u] = Idle
  /\ owner[r] = u /\ middle[r] = Null
  /\ \E o \in Obj \ live :
        /\ ~mid[o].exists
        /\ live' = live \cup {o}
        /\ mid' = [mid EXCEPT ![o] = NewMiddle]
        /\ middle' = [middle EXCEPT ![r] = o]
  /\ UNCHANGED <<unique, owner, job>>

\* UniqueRef::make.
MakeUnique(u, x) ==
  /\ job[u] = Idle
  /\ owner[x] = u /\ unique[x] = Null
  /\ \E o \in Obj \ live :
        /\ ~mid[o].exists
        /\ live' = live \cup {o}
        /\ unique' = [unique EXCEPT ![x] = o]
  /\ UNCHANGED <<middle, owner, mid, job>>

\* UniqueRef: operator=, which takes the pointer from the other side, and the
\* destructor and nullptr, where y is Null.
MoveUnique(u, x, y) ==
  LET to == IF y = Null THEN Null ELSE unique[y] IN
  /\ job[u] = Idle
  /\ owner[x] = u
  /\ y # Null => owner[y] = u
  /\ unique[x] # to
  /\ live' = live \ {unique[x]}
  /\ unique' = [z \in UniqueVar |-> IF z = x THEN to ELSE IF z = y THEN Null ELSE unique[z]]
  /\ UNCHANGED <<middle, owner, mid, job>>

\* A reference is passed to another thread, as in the work of a new one.
Pass(u, r) ==
  /\ job[u] = Idle
  /\ owner[r] = u
  /\ \E v \in User : owner' = [owner EXCEPT ![r] = v]
  /\ UNCHANGED <<middle, unique, live, mid, job>>

\* The critical section of remove_strong or remove_weak on the old target.
RemoveStrong(m) ==
  LET n == m.strong - 1
  IN  [m EXCEPT !.strong = n, !.ptr = @ /\ n > 0]

RemoveWeak(m) == [m EXCEPT !.weak = @ - 1]

Removed(r) ==
  IF r \in StrongVar THEN RemoveStrong(mid[middle[r]]) ELSE RemoveWeak(mid[middle[r]])

\* Seeded fault: the last weak reference deletes the Middle.
UnreferencedByKind(r, m) == IF r \in StrongVar THEN m.strong = 0 /\ m.weak = 0
                                               ELSE m.weak = 0

\* The drop that leaves no reference of either kind deletes the Middle.
Unreferenced(r, m) == m.strong = 0 /\ m.weak = 0

\* operator=, the destructor and the assignment of nullptr start by dropping the
\* old target, unless the two sides have the same.  A UniqueRef never has.
Assign(u, r, s) ==
  /\ job[u] = Idle
  /\ owner[r] = u
  /\ s = Null => middle[r] # Null
  /\ s # Null => owner[s] = u
  /\ s \in Ref => middle[r] # middle[s]
  /\ IF middle[r] = Null
     THEN /\ job' = [job EXCEPT ![u] = [Idle EXCEPT !.to = r, !.from = s]]
          /\ UNCHANGED mid
     ELSE LET o == middle[r]
              m == Removed(r)
          IN  /\ mid' = [mid EXCEPT ![o] = m]
              /\ job' = [job EXCEPT ![u] =
                   [to       |-> r,
                    from     |-> s,
                    del_ptr  |-> IF mid[o].ptr /\ ~m.ptr THEN o ELSE Null,
                    delete_m |-> IF Unreferenced(r, m) THEN o ELSE Null]]
  /\ UNCHANGED <<middle, unique, owner, live>>

DeleteObject(u) ==
  /\ job[u].del_ptr # Null
  /\ live' = live \ {job[u].del_ptr}
  /\ job' = [job EXCEPT ![u].del_ptr = Null]
  /\ UNCHANGED <<middle, unique, owner, mid>>

DeleteMiddle(u) ==
  /\ job[u].del_ptr = Null
  /\ job[u].delete_m # Null
  /\ mid' = [mid EXCEPT ![job[u].delete_m] = NoMiddle]
  /\ job' = [job EXCEPT ![u].delete_m = Null]
  /\ UNCHANGED <<middle, unique, owner, live>>

\* Seeded fault: the count is not tested.
CanAddAlways(o) == mid[o].exists

\* add_strong and add_weak refuse a target whose object is gone or going.
CanAddStrong(o) == mid[o].strong > 0

CanAddWeak(o) == mid[o].ptr

Target(u) ==
  IF job[u].from = Null THEN Null ELSE middle[job[u].from]

Dropped(u) == job[u].to # Null /\ job[u].del_ptr = Null /\ job[u].delete_m = Null

\* The critical section of add_strong or add_weak, and the store of the result.
Add(u) ==
  /\ Dropped(u) /\ job[u].from \notin UniqueVar
  /\ LET r == job[u].to
         o == Target(u)
         strong == r \in StrongVar
         ok == o # Null /\ (IF strong THEN CanAddStrong(o) ELSE CanAddWeak(o))
     IN  /\ middle' = [middle EXCEPT ![r] = IF ok THEN o ELSE Null]
         /\ mid' = IF ~ok THEN mid
                   ELSE IF strong THEN [mid EXCEPT ![o].strong = @ + 1]
                   ELSE [mid EXCEPT ![o].weak = @ + 1]
  /\ job' = [job EXCEPT ![u] = Idle]
  /\ UNCHANGED <<unique, owner, live>>

\* From a UniqueRef: a StrongRef takes the object and makes its Middle, a WeakRef
\* deletes it.
TakeUnique(u) ==
  /\ Dropped(u) /\ job[u].from \in UniqueVar
  /\ LET r == job[u].to
         o == unique[job[u].from]
         kept == o # Null /\ r \in StrongVar
     IN  /\ middle' = [middle EXCEPT ![r] = IF kept THEN o ELSE Null]
         /\ mid' = IF kept THEN [mid EXCEPT ![o] = NewMiddle] ELSE mid
         /\ live' = IF kept THEN live ELSE live \ {o}
  /\ unique' = [unique EXCEPT ![job[u].from] = Null]
  /\ job' = [job EXCEPT ![u] = Idle]
  /\ UNCHANGED owner

RefNext ==
  \E u \in User :
     \/ \E r \in StrongVar : Make(u, r)
     \/ \E x \in UniqueVar : MakeUnique(u, x)
     \/ \E x \in UniqueVar, y \in UniqueVar \cup {Null} : MoveUnique(u, x, y)
     \/ \E r \in Ref \cup UniqueVar : Pass(u, r)
     \/ \E r \in Ref, s \in Ref \cup UniqueVar \cup {Null} : Assign(u, r, s)
     \/ DeleteObject(u)
     \/ DeleteMiddle(u)
     \/ Add(u)
     \/ TakeUnique(u)

RefSpec == RefInit /\ [][RefNext]_refVars

-----------------------------------------------------------------------------
(* Properties.                                                             *)

\* The references that count: those no assignment has dropped.
Counted(o) ==
  {r \in Ref : middle[r] = o /\ \A u \in User : job[u].to # r}

Owning(o) == {x \in UniqueVar : unique[x] = o}

\* A reference leads to an existing Middle, and a StrongRef to a living object,
\* although the last drop, the deletes after it and the promotion of a WeakRef are
\* steps of different threads.  A UniqueRef is the only reference to a living object.
NothingDangles ==
  \A o \in Obj :
     /\ \A r \in Counted(o) : mid[o].exists /\ (r \in StrongVar => o \in live)
     /\ Owning(o) # {} =>
          o \in live /\ ~mid[o].exists /\ Cardinality(Owning(o)) = 1

\* The counts are the numbers of references, every delete happens once, and nothing
\* is leaked: an object without a StrongRef or UniqueRef, and a Middle without any reference, is
\* about to be deleted or gone.
CountsExact ==
  \A o \in Obj :
     /\ mid[o].strong = Cardinality(Counted(o) \cap StrongVar)
     /\ mid[o].weak = Cardinality(Counted(o) \cap WeakVar)
     /\ Cardinality({u \in User : job[u].del_ptr = o}) <= 1
     /\ Cardinality({u \in User : job[u].delete_m = o}) <= 1
     /\ \A u \in User : job[u].delete_m = o => Counted(o) = {}
     /\ o \in live => \/ Counted(o) \cap StrongVar # {} \/ Owning(o) # {}
                     \/ \E u \in User : job[u].del_ptr = o
     /\ mid[o].exists => Counted(o) # {} \/ \E u \in User : job[u].delete_m = o
=============================================================================
