--------------------------- MODULE SharingProofs ---------------------------
(***************************************************************************)
(* What threads, processes and cores share is kept right, for every number *)
(* of them: objects behind counted references, the semaphores of user      *)
(* programs, and the spin lock.                                            *)
(***************************************************************************)
EXTENDS RefCount, SysSem, SpinLock, FiniteSetTheorems, WellFoundedInduction, TLAPS

-----------------------------------------------------------------------------
(***************************************************************************)
(* Reference counting, for every number of threads, references and objects. *)
(***************************************************************************)

RefTypeOK ==
  /\ middle \in [Ref -> Obj \cup {Null}]
  /\ unique \in [UniqueVar -> Obj \cup {Null}]
  /\ owner \in [Ref \cup UniqueVar -> User]
  /\ live \in SUBSET Obj
  /\ mid \in [Obj -> [strong : Nat, weak : Nat, ptr : BOOLEAN, exists : BOOLEAN]]
  /\ job \in [User -> Job \cup {Idle}]

\* A thread keeps both sides of an assignment until it is done.
JobInv ==
  \A u \in User : job[u].to # Null =>
     /\ owner[job[u].to] = u
     /\ job[u].from # job[u].to
     /\ job[u].from # Null => owner[job[u].from] = u

Deleting(o) == \E u \in User : job[u].del_ptr = o
Freeing(o) == \E u \in User : job[u].delete_m = o
Owned(o) == \E x \in UniqueVar : unique[x] = o

\* The counts of an object are exact; the object lives as long as a StrongRef counts,
\* a UniqueRef has it or its delete is pending, and only one of the three is the case;
\* the Middle exists as long as a reference counts or its delete is pending, and not
\* both; nothing is pending twice.
ObjInv(o) ==
  /\ mid[o].strong = Cardinality(Counted(o) \cap StrongVar)
  /\ mid[o].weak = Cardinality(Counted(o) \cap WeakVar)
  /\ mid[o].ptr <=> mid[o].strong > 0
  /\ o \in live <=> mid[o].strong > 0 \/ Owned(o) \/ Deleting(o)
  /\ mid[o].strong > 0 => ~Owned(o) /\ ~Deleting(o)
  /\ mid[o].exists <=> mid[o].strong > 0 \/ mid[o].weak > 0 \/ Freeing(o)
  /\ mid[o].strong > 0 \/ mid[o].weak > 0 => ~Freeing(o)
  /\ Owned(o) => ~mid[o].exists /\ ~Deleting(o)
  /\ \A x, y \in UniqueVar : unique[x] = o /\ unique[y] = o => x = y
  /\ \A u, v \in User : job[u].del_ptr = o /\ job[v].del_ptr = o => u = v
  /\ \A u, v \in User : job[u].delete_m = o /\ job[v].delete_m = o => u = v

RefInv == RefTypeOK /\ JobInv /\ \A o \in Obj : ObjInv(o)
-----------------------------------------------------------------------------
\* A set of references is finite, and counts 0 exactly when it is empty.
LEMMA CountFacts ==
  ASSUME NEW o
  PROVE  /\ IsFiniteSet(Counted(o) \cap StrongVar)
         /\ IsFiniteSet(Counted(o) \cap WeakVar)
         /\ Cardinality(Counted(o) \cap StrongVar) \in Nat
         /\ Cardinality(Counted(o) \cap WeakVar) \in Nat
         /\ Cardinality(Counted(o) \cap StrongVar) = 0 <=> Counted(o) \cap StrongVar = {}
         /\ Cardinality(Counted(o) \cap WeakVar) = 0 <=> Counted(o) \cap WeakVar = {}
  <1>1. IsFiniteSet(Counted(o) \cap StrongVar) /\ IsFiniteSet(Counted(o) \cap WeakVar)
    BY RefCountAssumption, FS_Intersection
  <1> QED BY <1>1, FS_CardinalityType, FS_EmptySet

\* A count that is not positive belongs to no reference.
LEMMA NoCount ==
  ASSUME RefInv, NEW o \in Obj
  PROVE  /\ mid[o].strong \in Nat /\ mid[o].weak \in Nat
         /\ mid[o].strong > 0 <=> Counted(o) \cap StrongVar # {}
         /\ mid[o].weak > 0 <=> Counted(o) \cap WeakVar # {}
         /\ ~(mid[o].strong > 0) /\ ~(mid[o].weak > 0) => Counted(o) = {}
  <1>1. /\ mid[o].strong = Cardinality(Counted(o) \cap StrongVar)
        /\ mid[o].weak = Cardinality(Counted(o) \cap WeakVar)
    BY DEF RefInv, ObjInv
  <1>2. Counted(o) = (Counted(o) \cap StrongVar) \cup (Counted(o) \cap WeakVar)
    BY DEF Counted, Ref
  <1>3. /\ Cardinality(Counted(o) \cap StrongVar) \in Nat
        /\ Cardinality(Counted(o) \cap WeakVar) \in Nat
        /\ Cardinality(Counted(o) \cap StrongVar) = 0 <=> Counted(o) \cap StrongVar = {}
        /\ Cardinality(Counted(o) \cap WeakVar) = 0 <=> Counted(o) \cap WeakVar = {}
    BY CountFacts
  <1>4. /\ mid[o].strong \in Nat /\ mid[o].weak \in Nat
        /\ mid[o].strong > 0 <=> Counted(o) \cap StrongVar # {}
        /\ mid[o].weak > 0 <=> Counted(o) \cap WeakVar # {}
    BY <1>1, <1>3
  <1> QED BY <1>2, <1>4

\* A reference of a thread that is in no assignment is not the target of one.
LEMMA NotAssigned ==
  ASSUME RefInv, NEW u \in User, job[u] = Idle,
         NEW r \in Ref, owner[r] = u, NEW v \in User
  PROVE  job[v].to # r
  <1>1. r # Null
    BY RefCountAssumption
  <1> QED BY <1>1 DEF RefInv, JobInv, Idle

\* A step that leaves an object's references, counts and pending deletes alone leaves
\* its invariant alone.
LEMMA Untouched ==
  ASSUME NEW o \in Obj, ObjInv(o),
         mid'[o] = mid[o],
         o \in live' <=> o \in live,
         Counted(o)' = Counted(o),
         \A x \in UniqueVar : unique'[x] = o <=> unique[x] = o,
         \A u \in User : job'[u].del_ptr = o <=> job[u].del_ptr = o,
         \A u \in User : job'[u].delete_m = o <=> job[u].delete_m = o
  PROVE  ObjInv(o)'
  BY DEF ObjInv, Owned, Deleting, Freeing

\* The same references count for an object when each of them points to it, and is
\* dropped, exactly when it was before.
LEMMA SameCounted ==
  ASSUME NEW o,
         \A r \in Ref : (middle'[r] = o /\ \A u \in User : job'[u].to # r)
                          <=> (middle[r] = o /\ \A u \in User : job[u].to # r)
  PROVE  Counted(o)' = Counted(o)
  BY DEF Counted

\* Nothing exists and nothing is assigned at first.
LEMMA RefInitInv == RefInit => RefInv
  <1> SUFFICES ASSUME RefInit PROVE RefInv
    OBVIOUS
  <1>1. RefTypeOK
    BY DEF RefInit, RefTypeOK, NoMiddle
  <1>2. JobInv
    BY DEF RefInit, JobInv, Idle
  <1>3. ASSUME NEW o \in Obj PROVE ObjInv(o)
    <2>1. Counted(o) = {}
      BY RefCountAssumption DEF RefInit, Counted
    <2>2. Cardinality(Counted(o) \cap StrongVar) = 0 /\ Cardinality(Counted(o) \cap WeakVar) = 0
      BY <2>1, CountFacts
    <2>3. /\ mid[o] = NoMiddle /\ o \notin live
          /\ \A u \in User : job[u].del_ptr # o /\ job[u].delete_m # o
          /\ \A x \in UniqueVar : unique[x] # o
      BY RefCountAssumption DEF RefInit, Idle
    <2> QED BY <2>2, <2>3 DEF ObjInv, NoMiddle, Owned, Deleting, Freeing
  <1> QED BY <1>1, <1>2, <1>3 DEF RefInv

\* StrongRef(T *): a new object has one StrongRef and nothing else.
LEMMA MakeInv ==
  ASSUME RefInv, NEW u \in User, NEW r \in StrongVar, Make(u, r)
  PROVE  RefInv'
  <1>1. r \in Ref /\ owner[r] = u /\ middle[r] = Null /\ job[u] = Idle
    BY DEF Make, Ref
  <1>2. PICK p \in Obj \ live :
           /\ ~mid[p].exists
           /\ live' = live \cup {p}
           /\ mid' = [mid EXCEPT ![p] = NewMiddle]
           /\ middle' = [middle EXCEPT ![r] = p]
           /\ UNCHANGED <<unique, owner, job>>
    BY DEF Make
  <1>3. \A v \in User : job[v].to # r
    BY <1>1, NotAssigned
  <1>4. RefTypeOK'
    BY <1>1, <1>2 DEF RefInv, RefTypeOK, NewMiddle
  <1>5. JobInv'
    BY <1>2 DEF RefInv, JobInv
  <1>6. ASSUME NEW o \in Obj PROVE ObjInv(o)'
    <2>1. ObjInv(o)
      BY DEF RefInv
    <2>2. CASE o # p
      <3>1. Counted(o)' = Counted(o)
        BY <1>1, <1>2, <2>2, SameCounted, RefCountAssumption DEF RefInv, RefTypeOK
      <3>2. mid'[o] = mid[o] /\ (o \in live' <=> o \in live)
        BY <1>2, <2>2 DEF RefInv, RefTypeOK
      <3> QED BY <1>2, <2>1, <3>1, <3>2, Untouched
    <2>3. CASE o = p
      <3>1. ~Owned(o) /\ ~Deleting(o) /\ ~Freeing(o)
        BY <1>2, <2>1, <2>3 DEF ObjInv
      <3>2. ~(mid[o].strong > 0) /\ ~(mid[o].weak > 0)
        BY <1>2, <2>1, <2>3 DEF ObjInv
      <3>3. Counted(o) = {}
        BY <3>2, NoCount
      <3>4. Counted(o)' = {r}
        <4>1. \A z \in Ref \ {r} : middle'[z] = middle[z]
          BY <1>1, <1>2 DEF RefInv, RefTypeOK
        <4>2. middle'[r] = o /\ \A v \in User : job'[v].to # r
          BY <1>1, <1>2, <1>3, <2>3 DEF RefInv, RefTypeOK
        <4> QED BY <1>1, <1>2, <3>3, <4>1, <4>2 DEF Counted
      <3>5. (Counted(o) \cap StrongVar)' = {r} /\ (Counted(o) \cap WeakVar)' = {}
        BY <3>4, RefCountAssumption
      <3>6. Cardinality(Counted(o) \cap StrongVar)' = 1 /\ Cardinality(Counted(o) \cap WeakVar)' = 0
        BY <3>5, FS_Singleton, FS_EmptySet
      <3>7. mid'[o] = NewMiddle /\ o \in live'
        BY <1>2, <2>3 DEF RefInv, RefTypeOK
      <3>8. Owned(o)' = Owned(o) /\ Deleting(o)' = Deleting(o) /\ Freeing(o)' = Freeing(o)
        BY <1>2 DEF Owned, Deleting, Freeing
      <3> QED BY <1>2, <2>1, <3>1, <3>6, <3>7, <3>8 DEF ObjInv, NewMiddle
    <2> QED BY <2>2, <2>3
  <1> QED BY <1>4, <1>5, <1>6 DEF RefInv

\* UniqueRef::make: a new object has one UniqueRef and nothing else.
LEMMA MakeUniqueInv ==
  ASSUME RefInv, NEW u \in User, NEW x \in UniqueVar, MakeUnique(u, x)
  PROVE  RefInv'
  <1>1. unique[x] = Null /\ job[u] = Idle
    BY DEF MakeUnique
  <1>2. PICK p \in Obj \ live :
           /\ ~mid[p].exists
           /\ live' = live \cup {p}
           /\ unique' = [unique EXCEPT ![x] = p]
           /\ UNCHANGED <<middle, owner, mid, job>>
    BY DEF MakeUnique
  <1>3. RefTypeOK'
    BY <1>2 DEF RefInv, RefTypeOK
  <1>4. JobInv'
    BY <1>2 DEF RefInv, JobInv
  <1>5. unique'[x] = p /\ \A z \in UniqueVar \ {x} : unique'[z] = unique[z]
    BY <1>2 DEF RefInv, RefTypeOK
  <1>6. ASSUME NEW o \in Obj PROVE ObjInv(o)'
    <2>1. ObjInv(o)
      BY DEF RefInv
    <2>2. Counted(o)' = Counted(o)
      BY <1>2, SameCounted
    <2>3. CASE o # p
      <3>1. \A z \in UniqueVar : unique'[z] = o <=> unique[z] = o
        BY <1>1, <1>5, <2>3, RefCountAssumption
      <3> QED BY <1>2, <2>1, <2>2, <2>3, <3>1, Untouched
    <2>4. CASE o = p
      <3>1. ~Owned(o) /\ ~Deleting(o) /\ ~(mid[o].strong > 0)
        BY <1>2, <2>1, <2>4 DEF ObjInv
      <3>2. Deleting(o)' = Deleting(o) /\ Freeing(o)' = Freeing(o)
        BY <1>2 DEF Deleting, Freeing
      <3>3. Owned(o)' /\ \A y, z \in UniqueVar : unique'[y] = o /\ unique'[z] = o => y = z
        BY <1>5, <2>4, <3>1 DEF Owned
      <3> QED BY <1>2, <2>1, <2>2, <2>4, <3>1, <3>2, <3>3 DEF ObjInv
    <2> QED BY <2>3, <2>4
  <1> QED BY <1>3, <1>4, <1>6 DEF RefInv

\* UniqueRef: the object of the left side is deleted, that of the right side moves.
LEMMA MoveUniqueInv ==
  ASSUME RefInv, NEW u \in User, NEW x \in UniqueVar, NEW y \in UniqueVar \cup {Null},
         MoveUnique(u, x, y)
  PROVE  RefInv'
  <1> DEFINE to == IF y = Null THEN Null ELSE unique[y]
  <1>1. /\ unique[x] # to
        /\ live' = live \ {unique[x]}
        /\ unique' = [z \in UniqueVar |-> IF z = x THEN to ELSE IF z = y THEN Null ELSE unique[z]]
        /\ UNCHANGED <<middle, owner, mid, job>>
    BY DEF MoveUnique
  <1>2. to \in Obj \cup {Null} /\ x # y /\ Null \notin Obj
    BY <1>1, RefCountAssumption DEF RefInv, RefTypeOK
  <1>3. RefTypeOK'
    BY <1>1, <1>2 DEF RefInv, RefTypeOK
  <1>4. JobInv'
    BY <1>1 DEF RefInv, JobInv
  <1>5. ASSUME NEW o \in Obj PROVE ObjInv(o)'
    <2>1. ObjInv(o)
      BY DEF RefInv
    <2>2. Counted(o)' = Counted(o)
      BY <1>1, SameCounted
    <2>3. Deleting(o)' = Deleting(o) /\ Freeing(o)' = Freeing(o)
      BY <1>1 DEF Deleting, Freeing
    <2>4. \A z, w \in UniqueVar : unique[z] = o /\ unique[w] = o => z = w
      BY <2>1 DEF ObjInv
    <2>5. CASE o = unique[x]
      <3>1. Owned(o) /\ ~Deleting(o) /\ ~(mid[o].strong > 0)
        BY <2>1, <2>5 DEF Owned, ObjInv
      <3>2. \A z \in UniqueVar : unique'[z] # o
        BY <1>1, <1>2, <2>4, <2>5
      <3>3. ~Owned(o)' /\ o \notin live'
        BY <1>1, <2>5, <3>2 DEF Owned
      <3> QED BY <1>1, <2>1, <2>2, <2>3, <3>1, <3>2, <3>3 DEF ObjInv
    <2>6. CASE o # unique[x]
      <3>1. o \in live' <=> o \in live
        BY <1>1, <2>6
      <3>2. CASE o = to
        <4>1. y \in UniqueVar /\ unique[y] = o
          BY <1>2, <3>2
        <4>2. unique'[x] = o /\ \A z \in UniqueVar \ {x} : unique'[z] # o
          BY <1>1, <1>2, <2>4, <2>6, <3>2, <4>1
        <4>3. Owned(o)' /\ Owned(o) /\ \A z, w \in UniqueVar : unique'[z] = o /\ unique'[w] = o => z = w
          BY <4>1, <4>2 DEF Owned
        <4> QED BY <1>1, <2>1, <2>2, <2>3, <3>1, <4>3 DEF ObjInv
      <3>3. CASE o # to
        <4>1. \A z \in UniqueVar : unique'[z] = o <=> unique[z] = o
          BY <1>1, <1>2, <2>6, <3>3, RefCountAssumption
        <4> QED BY <1>1, <2>1, <2>2, <3>1, <4>1, Untouched
      <3> QED BY <3>2, <3>3
    <2> QED BY <2>5, <2>6
  <1> QED BY <1>3, <1>4, <1>5 DEF RefInv

\* A reference is passed on only by a thread that is in no assignment.
LEMMA PassInv ==
  ASSUME RefInv, NEW u \in User, NEW r \in Ref \cup UniqueVar, Pass(u, r)
  PROVE  RefInv'
  <1>1. PICK v \in User : owner' = [owner EXCEPT ![r] = v]
    BY DEF Pass
  <1>2. job[u] = Idle /\ owner[r] = u /\ UNCHANGED <<middle, unique, live, mid, job>>
    BY DEF Pass
  <1>3. RefTypeOK'
    BY <1>1, <1>2 DEF RefInv, RefTypeOK
  <1>4. JobInv'
    <2> SUFFICES ASSUME NEW w \in User, job'[w].to # Null
                 PROVE  /\ owner'[job'[w].to] = w
                        /\ job'[w].from # job'[w].to
                        /\ job'[w].from # Null => owner'[job'[w].from] = w
      BY DEF JobInv
    <2>1. job[w].to # Null /\ w # u
      BY <1>2 DEF Idle
    <2>2. /\ owner[job[w].to] = w /\ job[w].from # job[w].to
          /\ job[w].from # Null => owner[job[w].from] = w
      BY <2>1 DEF RefInv, JobInv
    <2>3. job[w] \in Job
      BY <2>1 DEF RefInv, RefTypeOK, Idle
    <2>4. /\ job[w].to \in Ref \cup UniqueVar
          /\ job[w].from # Null => job[w].from \in Ref \cup UniqueVar
      BY <2>3 DEF Job
    <2>5. \A s \in Ref \cup UniqueVar : owner[s] = w => owner'[s] = w
      BY <1>1, <1>2, <2>1 DEF RefInv, RefTypeOK
    <2> QED BY <1>2, <2>2, <2>4, <2>5
  <1>5. ASSUME NEW o \in Obj PROVE ObjInv(o)'
    <2>1. Counted(o)' = Counted(o)
      BY <1>2, SameCounted
    <2> QED BY <1>2, <2>1, Untouched DEF RefInv
  <1> QED BY <1>3, <1>4, <1>5 DEF RefInv

\* One more or one less reference of a kind.
LEMMA CountSteps ==
  ASSUME NEW S, IsFiniteSet(S), NEW r
  PROVE  /\ r \in S => Cardinality(S) > 0 /\ Cardinality(S \ {r}) = Cardinality(S) - 1
         /\ r \notin S => Cardinality(S \cup {r}) = Cardinality(S) + 1
  <1>1. Cardinality(S) \in Nat /\ (Cardinality(S) = 0 <=> S = {})
    BY FS_CardinalityType, FS_EmptySet
  <1>2. r \in S => Cardinality(S \ {r}) = Cardinality(S) - 1
    BY FS_RemoveElement
  <1>3. r \notin S => Cardinality(S \cup {r}) = Cardinality(S) + 1
    BY FS_AddElement
  <1> QED BY <1>1, <1>2, <1>3

\* The drop at the start of an assignment takes one reference out of the counts; it
\* leaves the deletes of the object and of the Middle to this thread exactly when it
\* was the last one that kept them.
LEMMA AssignInv ==
  ASSUME RefInv, NEW u \in User, NEW r \in Ref, NEW s \in Ref \cup UniqueVar \cup {Null},
         Assign(u, r, s)
  PROVE  RefInv'
  <1>1. /\ job[u] = Idle /\ owner[r] = u /\ (s # Null => owner[s] = u)
        /\ s \in Ref => middle[r] # middle[s]
        /\ UNCHANGED <<middle, unique, owner, live>>
    BY DEF Assign
  <1>2. r # Null /\ s # r /\ Null \notin Obj
    BY <1>1, RefCountAssumption
  <1>3. \A v \in User : job[v].to # r
    BY <1>1, NotAssigned
  <1>4. middle[r] \in Obj \cup {Null}
    BY DEF RefInv, RefTypeOK
  <1>5. ASSUME job'[u].to = r, \A v \in User \ {u} : job'[v] = job[v]
        PROVE  \A z \in Ref \ {r}, v \in User : job'[v].to = z <=> job[v].to = z
    BY <1>1, <1>5, RefCountAssumption DEF Idle
  <1>6. CASE middle[r] = Null
    <2>1. mid' = mid /\ job' = [job EXCEPT ![u] = [Idle EXCEPT !.to = r, !.from = s]]
      BY <1>6 DEF Assign
    <2>2. /\ job'[u] = [to |-> r, from |-> s, del_ptr |-> Null, delete_m |-> Null]
          /\ \A v \in User \ {u} : job'[v] = job[v]
      BY <2>1 DEF RefInv, RefTypeOK, Idle
    <2>3. RefTypeOK'
      <3>1. [Idle EXCEPT !.to = r, !.from = s] \in Job
        BY DEF Idle, Job
      <3> QED BY <1>1, <2>1, <3>1 DEF RefInv, RefTypeOK
    <2>4. JobInv'
      BY <1>1, <1>2, <2>2 DEF RefInv, JobInv
    <2>5. ASSUME NEW o \in Obj PROVE ObjInv(o)'
      <3>1. Counted(o)' = Counted(o)
        BY <1>1, <1>2, <1>5, <1>6, <2>2, SameCounted
      <3>2. \A v \in User : /\ job'[v].del_ptr = o <=> job[v].del_ptr = o
                            /\ job'[v].delete_m = o <=> job[v].delete_m = o
        BY <1>1, <1>2, <2>2 DEF Idle
      <3> QED BY <1>1, <2>1, <3>1, <3>2, Untouched DEF RefInv
    <2> QED BY <2>3, <2>4, <2>5 DEF RefInv
  <1>7. CASE middle[r] # Null
    <2>0. PICK p \in Obj : p = middle[r]
      BY <1>4, <1>7
    <2> DEFINE m == Removed(r)
               del == IF mid[p].ptr /\ ~m.ptr THEN p ELSE Null
               free == IF Unreferenced(r, m) THEN p ELSE Null
    <2>1. /\ mid' = [mid EXCEPT ![p] = m]
          /\ job' = [job EXCEPT ![u] = [to |-> r, from |-> s, del_ptr |-> del, delete_m |-> free]]
      BY <1>7, <2>0 DEF Assign
    <2>2. p \in Obj
      OBVIOUS
    <2>3. ObjInv(p)
      BY <2>2 DEF RefInv
    <2>4. mid[p] \in [strong : Nat, weak : Nat, ptr : BOOLEAN, exists : BOOLEAN]
      BY <2>2 DEF RefInv, RefTypeOK
    <2>5. r \in Counted(p) /\ (r \in StrongVar \/ r \in WeakVar) /\ ~(r \in StrongVar /\ r \in WeakVar)
      BY <1>3, <2>0, RefCountAssumption DEF Counted, Ref
    <2>6. /\ IsFiniteSet(Counted(p) \cap StrongVar) /\ IsFiniteSet(Counted(p) \cap WeakVar)
          /\ mid[p].strong = Cardinality(Counted(p) \cap StrongVar)
          /\ mid[p].weak = Cardinality(Counted(p) \cap WeakVar)
      BY <2>3, CountFacts DEF ObjInv
    <2>7. /\ r \in StrongVar => /\ mid[p].strong > 0
                                /\ m = [mid[p] EXCEPT !.strong = @ - 1, !.ptr = @ /\ mid[p].strong - 1 > 0]
          /\ r \notin StrongVar => mid[p].weak > 0 /\ m = [mid[p] EXCEPT !.weak = @ - 1]
      BY <2>0, <2>5, <2>6, CountSteps DEF Removed, RemoveStrong, RemoveWeak
    <2> HIDE DEF m
    <2>8. m \in [strong : Nat, weak : Nat, ptr : BOOLEAN, exists : BOOLEAN]
      <3>1. (mid[p].ptr /\ mid[p].strong - 1 > 0) \in BOOLEAN
        OBVIOUS
      <3>2. CASE r \in StrongVar
        <4>1. mid[p].strong - 1 \in Nat
          BY <2>4, <2>7, <3>2
        <4> QED BY <2>4, <2>7, <3>1, <3>2, <4>1
      <3>3. CASE r \notin StrongVar
        <4>1. mid[p].weak - 1 \in Nat
          BY <2>4, <2>7, <3>3
        <4> QED BY <2>4, <2>7, <3>3, <4>1
      <3> QED BY <3>2, <3>3
    <2>9. /\ m.exists = mid[p].exists
          /\ r \in StrongVar => /\ m.strong = mid[p].strong - 1 /\ m.weak = mid[p].weak
                                /\ m.ptr = (mid[p].ptr /\ mid[p].strong - 1 > 0)
          /\ r \notin StrongVar => /\ m.strong = mid[p].strong /\ m.weak = mid[p].weak - 1
                                   /\ m.ptr = mid[p].ptr
      BY <2>4, <2>7
    <2>10. /\ job'[u] = [to |-> r, from |-> s, del_ptr |-> del, delete_m |-> free]
           /\ \A v \in User \ {u} : job'[v] = job[v]
      BY <2>1 DEF RefInv, RefTypeOK
    <2>11. del \in Obj \cup {Null} /\ free \in Obj \cup {Null}
      BY <2>2
    <2> HIDE DEF del, free
    <2>12. RefTypeOK'
      <3>1. [to |-> r, from |-> s, del_ptr |-> del, delete_m |-> free] \in Job
        BY <2>11 DEF Job
      <3> QED BY <1>1, <2>1, <2>2, <2>8, <3>1 DEF RefInv, RefTypeOK
    <2>13. JobInv'
      BY <1>1, <1>2, <2>10 DEF RefInv, JobInv
    <2>14. mid'[p] = m /\ \A o \in Obj \ {p} : mid'[o] = mid[o]
      BY <2>1, <2>2 DEF RefInv, RefTypeOK
    <2>15. ASSUME NEW o \in Obj, o # p PROVE ObjInv(o)'
      <3>1. Counted(o)' = Counted(o)
        BY <1>1, <1>2, <1>5, <2>0, <2>10, <2>15, SameCounted
      <3>2. \A v \in User : /\ job'[v].del_ptr = o <=> job[v].del_ptr = o
                            /\ job'[v].delete_m = o <=> job[v].delete_m = o
        BY <1>1, <1>2, <2>10, <2>15 DEF Idle, del, free
      <3> QED BY <1>1, <2>14, <2>15, <3>1, <3>2, Untouched DEF RefInv
    <2>16. ObjInv(p)'
      <3>1. Counted(p)' = Counted(p) \ {r}
        BY <1>1, <1>2, <1>5, <2>0, <2>10 DEF Counted
      <3>2. /\ (Counted(p) \cap StrongVar)' = (Counted(p) \cap StrongVar) \ {r}
            /\ (Counted(p) \cap WeakVar)' = (Counted(p) \cap WeakVar) \ {r}
        BY <3>1
      <3>3. /\ r \in StrongVar => (Counted(p) \cap WeakVar)' = Counted(p) \cap WeakVar
            /\ r \notin StrongVar => (Counted(p) \cap StrongVar)' = Counted(p) \cap StrongVar
        BY <2>5, <3>2
      <3>4. /\ mid'[p].strong = Cardinality(Counted(p) \cap StrongVar)'
            /\ mid'[p].weak = Cardinality(Counted(p) \cap WeakVar)'
        <4>1. CASE r \in StrongVar
          <5>1. r \in Counted(p) \cap StrongVar
            BY <2>5, <4>1
          <5>2. Cardinality((Counted(p) \cap StrongVar) \ {r}) = Cardinality(Counted(p) \cap StrongVar) - 1
            BY <2>6, <5>1, CountSteps
          <5> QED BY <2>6, <2>9, <2>14, <3>2, <3>3, <4>1, <5>2
        <4>2. CASE r \notin StrongVar
          <5>1. r \in Counted(p) \cap WeakVar
            BY <2>5, <4>2
          <5>2. Cardinality((Counted(p) \cap WeakVar) \ {r}) = Cardinality(Counted(p) \cap WeakVar) - 1
            BY <2>6, <5>1, CountSteps
          <5> QED BY <2>6, <2>9, <2>14, <3>2, <3>3, <4>2, <5>2
        <4> QED BY <4>1, <4>2
      <3>5. /\ Owned(p)' <=> Owned(p)
            /\ Deleting(p)' <=> Deleting(p) \/ del = p
            /\ Freeing(p)' <=> Freeing(p) \/ free = p
        BY <1>1, <1>2, <2>2, <2>10 DEF Owned, Deleting, Freeing, Idle
      <3>6. /\ mid[p].strong \in Nat /\ mid[p].weak \in Nat
            /\ mid[p].strong > 0 \/ mid[p].weak > 0
        BY <2>4, <2>7
      <3>7. (del = p <=> r \in StrongVar /\ mid[p].strong = 1) /\ (m.ptr <=> m.strong > 0)
        <4>1. mid[p].ptr <=> mid[p].strong > 0
          BY <2>3 DEF ObjInv
        <4>2. del = p <=> mid[p].ptr /\ ~m.ptr
          BY <1>2, <2>2 DEF del
        <4>3. CASE r \in StrongVar
          <5>1. m.ptr <=> mid[p].strong - 1 > 0
            BY <2>7, <2>9, <4>1, <4>3
          <5> QED BY <2>7, <2>9, <3>6, <4>1, <4>2, <4>3, <5>1
        <4>4. CASE r \notin StrongVar
          <5>1. (m.ptr <=> mid[p].ptr) /\ m.strong = mid[p].strong
            BY <2>9, <4>4
          <5> QED BY <4>1, <4>2, <4>4, <5>1
        <4> QED BY <4>3, <4>4
      <3>8. free = p <=> m.strong = 0 /\ m.weak = 0
        BY <1>2, <2>2 DEF free, Unreferenced
      <3>9. ~Freeing(p) /\ (mid[p].strong > 0 => ~Owned(p) /\ ~Deleting(p) /\ p \in live) /\ mid[p].exists
        BY <2>3, <3>6 DEF ObjInv
      <3>10. ~Owned(p) /\ (p \in live <=> mid[p].strong > 0 \/ Deleting(p))
        BY <2>3, <3>9 DEF ObjInv
      <3>11. /\ \A v, w \in User : job'[v].del_ptr = p /\ job'[w].del_ptr = p => v = w
             /\ \A v, w \in User : job'[v].delete_m = p /\ job'[w].delete_m = p => v = w
        <4>1. ASSUME NEW v \in User, NEW w \in User, job'[v].del_ptr = p, job'[w].del_ptr = p
              PROVE  v = w
          <5>1. CASE del = p
            <6>1. ~Deleting(p)
              BY <3>7, <3>9, <5>1
            <6> QED BY <2>10, <4>1, <6>1 DEF Deleting
          <5>2. CASE del # p
            <6>1. v # u /\ w # u
              BY <2>10, <4>1, <5>2
            <6> QED BY <2>3, <2>10, <4>1, <6>1 DEF ObjInv
          <5> QED BY <5>1, <5>2
        <4>2. ASSUME NEW v \in User, NEW w \in User, job'[v].delete_m = p, job'[w].delete_m = p
              PROVE  v = w
          BY <2>10, <3>9, <4>2 DEF Freeing
        <4> QED BY <4>1, <4>2
      <3>12. \A x, y \in UniqueVar : unique'[x] = p /\ unique'[y] = p => x = y
        BY <1>1, <2>3 DEF ObjInv
      <3>13. /\ mid'[p].ptr <=> mid'[p].strong > 0
             /\ mid'[p].exists
             /\ mid'[p].strong > 0 => mid[p].strong > 0 /\ del # p
             /\ p \in live' <=> mid'[p].strong > 0 \/ Deleting(p) \/ del = p
             /\ mid'[p].strong > 0 \/ mid'[p].weak > 0 \/ free = p
             /\ mid'[p].strong > 0 \/ mid'[p].weak > 0 => free # p
        <4>1. mid'[p] = m /\ m.exists = mid[p].exists /\ live' = live
          BY <1>1, <2>9, <2>14
        <4>2. /\ m.strong \in Nat /\ m.weak \in Nat
              /\ m.strong > 0 => mid[p].strong > 0 /\ del # p
              /\ mid[p].strong > 0 => m.strong > 0 \/ del = p
              /\ del = p => mid[p].strong > 0
          BY <2>8, <2>9, <3>6, <3>7
        <4>3. /\ m.strong > 0 \/ m.weak > 0 \/ free = p
              /\ m.strong > 0 \/ m.weak > 0 => free # p
          BY <3>8, <4>2
        <4> QED BY <3>7, <3>9, <3>10, <4>1, <4>2, <4>3
      <3> QED BY <3>4, <3>5, <3>9, <3>10, <3>11, <3>12, <3>13 DEF ObjInv
    <2> QED BY <2>12, <2>13, <2>15, <2>16 DEF RefInv
  <1> QED BY <1>6, <1>7

\* The delete of an object that no StrongRef or UniqueRef has, done once.
LEMMA DeleteObjectInv ==
  ASSUME RefInv, NEW u \in User, DeleteObject(u)
  PROVE  RefInv'
  <1>1. /\ job[u].del_ptr # Null
        /\ live' = live \ {job[u].del_ptr}
        /\ job' = [job EXCEPT ![u].del_ptr = Null]
        /\ UNCHANGED <<middle, unique, owner, mid>>
    BY DEF DeleteObject
  <1>2. job[u] \in Job
    BY <1>1 DEF RefInv, RefTypeOK, Idle
  <1>3. PICK p \in Obj : p = job[u].del_ptr
    BY <1>1, <1>2 DEF Job
  <1>4. /\ job'[u] = [job[u] EXCEPT !.del_ptr = Null]
        /\ \A v \in User \ {u} : job'[v] = job[v]
    BY <1>1 DEF RefInv, RefTypeOK
  <1>5. /\ job'[u].del_ptr = Null
        /\ \A v \in User : /\ job'[v].to = job[v].to
                           /\ job'[v].from = job[v].from
                           /\ job'[v].delete_m = job[v].delete_m
    BY <1>2, <1>4 DEF Job
  <1>6. Null \notin Obj
    BY RefCountAssumption
  <1>7. RefTypeOK'
    <2>1. [job[u] EXCEPT !.del_ptr = Null] \in Job
      BY <1>2 DEF Job
    <2> QED BY <1>1, <2>1 DEF RefInv, RefTypeOK
  <1>8. JobInv'
    BY <1>1, <1>5 DEF RefInv, JobInv
  <1>9. ASSUME NEW o \in Obj PROVE ObjInv(o)'
    <2>1. ObjInv(o)
      BY DEF RefInv
    <2>2. Counted(o)' = Counted(o)
      BY <1>1, <1>5, SameCounted
    <2>3. CASE o # p
      <3>1. \A v \in User : job'[v].del_ptr = o <=> job[v].del_ptr = o
        BY <1>3, <1>4, <1>5, <1>6, <2>3
      <3>2. o \in live' <=> o \in live
        BY <1>1, <1>3, <2>3
      <3> QED BY <1>1, <1>5, <2>1, <2>2, <3>1, <3>2, Untouched
    <2>4. CASE o = p
      <3>1. Deleting(o) /\ ~Owned(o) /\ ~(mid[o].strong > 0)
        BY <1>3, <2>1, <2>4 DEF Deleting, ObjInv
      <3>2. \A v \in User : job'[v].del_ptr # o
        <4>1. \A v \in User : job[v].del_ptr = o => v = u
          BY <1>3, <2>1, <2>4 DEF ObjInv
        <4> QED BY <1>4, <1>5, <1>6, <4>1
      <3>3. o \notin live'
        BY <1>1, <1>3, <2>4
      <3>4. (Owned(o)' <=> Owned(o)) /\ (Freeing(o)' <=> Freeing(o)) /\ ~Deleting(o)'
        BY <1>1, <1>5, <3>2 DEF Owned, Freeing, Deleting
      <3>5. /\ \A x, y \in UniqueVar : unique'[x] = o /\ unique'[y] = o => x = y
            /\ \A v, w \in User : job'[v].delete_m = o /\ job'[w].delete_m = o => v = w
        BY <1>1, <1>5, <2>1 DEF ObjInv
      <3> QED BY <1>1, <2>1, <2>2, <3>1, <3>2, <3>3, <3>4, <3>5 DEF ObjInv
    <2> QED BY <2>3, <2>4
  <1> QED BY <1>7, <1>8, <1>9 DEF RefInv

\* The delete of a Middle that no reference counts in, done once.
LEMMA DeleteMiddleInv ==
  ASSUME RefInv, NEW u \in User, DeleteMiddle(u)
  PROVE  RefInv'
  <1>1. /\ job[u].delete_m # Null
        /\ mid' = [mid EXCEPT ![job[u].delete_m] = NoMiddle]
        /\ job' = [job EXCEPT ![u].delete_m = Null]
        /\ UNCHANGED <<middle, unique, owner, live>>
    BY DEF DeleteMiddle
  <1>2. job[u] \in Job
    BY <1>1 DEF RefInv, RefTypeOK, Idle
  <1>3. PICK p \in Obj : p = job[u].delete_m
    BY <1>1, <1>2 DEF Job
  <1>4. /\ job'[u] = [job[u] EXCEPT !.delete_m = Null]
        /\ \A v \in User \ {u} : job'[v] = job[v]
    BY <1>1 DEF RefInv, RefTypeOK
  <1>5. /\ job'[u].delete_m = Null
        /\ \A v \in User : /\ job'[v].to = job[v].to
                           /\ job'[v].from = job[v].from
                           /\ job'[v].del_ptr = job[v].del_ptr
    BY <1>2, <1>4 DEF Job
  <1>6. Null \notin Obj
    BY RefCountAssumption
  <1>7. RefTypeOK'
    <2>1. [job[u] EXCEPT !.delete_m = Null] \in Job
      BY <1>2 DEF Job
    <2> QED BY <1>1, <2>1 DEF RefInv, RefTypeOK, NoMiddle
  <1>8. JobInv'
    BY <1>1, <1>5 DEF RefInv, JobInv
  <1>9. mid'[p] = NoMiddle /\ \A o \in Obj \ {p} : mid'[o] = mid[o]
    BY <1>1, <1>3 DEF RefInv, RefTypeOK
  <1>10. ASSUME NEW o \in Obj PROVE ObjInv(o)'
    <2>1. ObjInv(o)
      BY DEF RefInv
    <2>2. Counted(o)' = Counted(o)
      BY <1>1, <1>5, SameCounted
    <2>3. CASE o # p
      <3>1. \A v \in User : job'[v].delete_m = o <=> job[v].delete_m = o
        BY <1>3, <1>4, <1>5, <1>6, <2>3
      <3> QED BY <1>1, <1>5, <1>9, <2>1, <2>2, <2>3, <3>1, Untouched
    <2>4. CASE o = p
      <3>1. Freeing(o) /\ ~(mid[o].strong > 0) /\ ~(mid[o].weak > 0) /\ ~Owned(o)
        BY <1>3, <2>1, <2>4 DEF Freeing, ObjInv
      <3>2. \A v \in User : job'[v].delete_m # o
        <4>1. \A v \in User : job[v].delete_m = o => v = u
          BY <1>3, <2>1, <2>4 DEF ObjInv
        <4> QED BY <1>4, <1>5, <1>6, <4>1
      <3>3. mid[o].strong = 0 /\ mid[o].weak = 0
        BY <3>1, NoCount
      <3>4. (Owned(o)' <=> Owned(o)) /\ (Deleting(o)' <=> Deleting(o)) /\ ~Freeing(o)'
        BY <1>1, <1>5, <3>2 DEF Owned, Freeing, Deleting
      <3>5. /\ \A x, y \in UniqueVar : unique'[x] = o /\ unique'[y] = o => x = y
            /\ \A v, w \in User : job'[v].del_ptr = o /\ job'[w].del_ptr = o => v = w
        BY <1>1, <1>5, <2>1 DEF ObjInv
      <3>6. mid'[o].strong = 0 /\ mid'[o].weak = 0 /\ ~mid'[o].ptr /\ ~mid'[o].exists
        BY <1>9, <2>4 DEF NoMiddle
      <3> QED BY <1>1, <2>1, <2>2, <3>1, <3>2, <3>3, <3>4, <3>5, <3>6 DEF ObjInv
    <2> QED BY <2>3, <2>4
  <1> QED BY <1>7, <1>8, <1>10 DEF RefInv

\* The end of an assignment: the thread is idle again, the left side counts if it
\* points anywhere, and everything else counts as before.
LEMMA AssignedFacts ==
  ASSUME RefInv, NEW u \in User, Dropped(u), job' = [job EXCEPT ![u] = Idle],
         NEW q \in Obj \cup {Null}, middle' = [middle EXCEPT ![job[u].to] = q],
         UNCHANGED owner
  PROVE  /\ job[u].to \in Ref /\ job[u].from \in Ref \cup UniqueVar \cup {Null}
         /\ middle' \in [Ref -> Obj \cup {Null}] /\ job' \in [User -> Job \cup {Idle}]
         /\ JobInv'
         /\ \A o \in Obj \ {q} : Counted(o)' = Counted(o)
         /\ q \in Obj => job[u].to \notin Counted(q) /\ Counted(q)' = Counted(q) \cup {job[u].to}
         /\ \A o \in Obj, v \in User : /\ job'[v].del_ptr = o <=> job[v].del_ptr = o
                                       /\ job'[v].delete_m = o <=> job[v].delete_m = o
  <1>1. job[u].to # Null /\ job[u].del_ptr = Null /\ job[u].delete_m = Null /\ Null \notin Obj
    BY RefCountAssumption DEF Dropped
  <1>2. job[u] \in Job
    BY <1>1 DEF RefInv, RefTypeOK, Idle
  <1>3. PICK r \in Ref : r = job[u].to
    BY <1>2 DEF Job
  <1>4. job[u].from \in Ref \cup UniqueVar \cup {Null}
    BY <1>2 DEF Job
  <1>5. job'[u] = Idle /\ \A v \in User \ {u} : job'[v] = job[v]
    BY DEF RefInv, RefTypeOK
  <1>6. middle' \in [Ref -> Obj \cup {Null}] /\ job' \in [User -> Job \cup {Idle}]
    BY <1>3 DEF RefInv, RefTypeOK
  <1>7. JobInv'
    BY <1>5 DEF RefInv, JobInv, Idle
  <1>8. middle'[r] = q /\ \A z \in Ref \ {r} : middle'[z] = middle[z]
    BY <1>3 DEF RefInv, RefTypeOK
  <1>9. /\ \A v \in User : job'[v].to # r
        /\ \A z \in Ref \ {r}, v \in User : job'[v].to = z <=> job[v].to = z
    <2>1. \A v \in User \ {u} : job[v].to # r
      BY <1>1, <1>3 DEF RefInv, JobInv
    <2> QED BY <1>3, <1>5, <2>1, RefCountAssumption DEF Idle
  <1>10. \A o \in Obj \ {q} : Counted(o)' = Counted(o)
    BY <1>3, <1>8, <1>9 DEF Counted
  <1>11. q \in Obj => r \notin Counted(q) /\ Counted(q)' = Counted(q) \cup {r}
    BY <1>3, <1>8, <1>9 DEF Counted
  <1>12. \A o \in Obj, v \in User : /\ job'[v].del_ptr = o <=> job[v].del_ptr = o
                                    /\ job'[v].delete_m = o <=> job[v].delete_m = o
    BY <1>1, <1>5 DEF Idle
  <1> QED BY <1>3, <1>4, <1>6, <1>7, <1>10, <1>11, <1>12

\* add_strong and add_weak: a reference is added only to an object that other
\* references keep, so no delete of it is pending.
LEMMA AddInv ==
  ASSUME RefInv, NEW u \in User, Add(u)
  PROVE  RefInv'
  <1> DEFINE t == Target(u)
             strong == job[u].to \in StrongVar
             ok == t # Null /\ (IF strong THEN CanAddStrong(t) ELSE CanAddWeak(t))
             val == IF ok THEN t ELSE Null
  <1>1. /\ Dropped(u) /\ job[u].from \notin UniqueVar
        /\ middle' = [middle EXCEPT ![job[u].to] = val]
        /\ mid' = IF ~ok THEN mid
                  ELSE IF strong THEN [mid EXCEPT ![t].strong = @ + 1]
                  ELSE [mid EXCEPT ![t].weak = @ + 1]
        /\ job' = [job EXCEPT ![u] = Idle]
        /\ UNCHANGED <<unique, owner, live>>
    BY DEF Add
  <1>2. job[u] \in Job
    BY <1>1 DEF Dropped, RefInv, RefTypeOK, Idle
  <1>3. t \in Obj \cup {Null}
    BY <1>1, <1>2 DEF Job, Target, RefInv, RefTypeOK
  <1>4. PICK q \in Obj \cup {Null} : q = val
    BY <1>3
  <1>5. PICK r \in Ref : r = job[u].to
    BY <1>2 DEF Job
  <1>6. /\ middle' \in [Ref -> Obj \cup {Null}] /\ job' \in [User -> Job \cup {Idle}]
        /\ JobInv'
        /\ \A o \in Obj \ {q} : Counted(o)' = Counted(o)
        /\ q \in Obj => r \notin Counted(q) /\ Counted(q)' = Counted(q) \cup {r}
        /\ \A o \in Obj, v \in User : /\ job'[v].del_ptr = o <=> job[v].del_ptr = o
                                      /\ job'[v].delete_m = o <=> job[v].delete_m = o
    BY <1>1, <1>4, <1>5, AssignedFacts
  <1>7. CASE q = Null
    <2>1. mid' = mid
      BY <1>1, <1>4, <1>7
    <2>2. RefTypeOK'
      BY <1>1, <1>6, <2>1 DEF RefInv, RefTypeOK
    <2>3. \A o \in Obj : ObjInv(o)'
      BY <1>1, <1>6, <1>7, <2>1, Untouched, RefCountAssumption DEF RefInv
    <2> QED BY <1>6, <2>2, <2>3 DEF RefInv
  <1>8. CASE q # Null
    <2>1. q \in Obj /\ ok /\ t = q /\ Null \notin Obj
      BY <1>4, <1>8, RefCountAssumption
    <2>2. ObjInv(q)
      BY <2>1 DEF RefInv
    <2>3. mid[q] \in [strong : Nat, weak : Nat, ptr : BOOLEAN, exists : BOOLEAN]
      BY <2>1 DEF RefInv, RefTypeOK
    <2>4. mid[q].strong > 0
      BY <1>5, <2>1, <2>2 DEF ObjInv, CanAddStrong, CanAddWeak
    <2>5. mid' = IF r \in StrongVar THEN [mid EXCEPT ![q].strong = @ + 1]
                                    ELSE [mid EXCEPT ![q].weak = @ + 1]
      BY <1>1, <1>5, <2>1
    <2>6. /\ \A o \in Obj \ {q} : mid'[o] = mid[o]
          /\ mid'[q] = IF r \in StrongVar THEN [mid[q] EXCEPT !.strong = @ + 1]
                                          ELSE [mid[q] EXCEPT !.weak = @ + 1]
      BY <2>1, <2>5 DEF RefInv, RefTypeOK
    <2>7. RefTypeOK'
      BY <1>1, <1>6, <2>1, <2>3, <2>5 DEF RefInv, RefTypeOK
    <2>8. \A o \in Obj \ {q} : ObjInv(o)'
      BY <1>1, <1>6, <2>6, Untouched DEF RefInv
    <2>9. ObjInv(q)'
      <3>1. /\ IsFiniteSet(Counted(q) \cap StrongVar) /\ IsFiniteSet(Counted(q) \cap WeakVar)
            /\ mid[q].strong = Cardinality(Counted(q) \cap StrongVar)
            /\ mid[q].weak = Cardinality(Counted(q) \cap WeakVar)
        BY <2>2, CountFacts DEF ObjInv
      <3>2. /\ mid'[q].strong = Cardinality(Counted(q) \cap StrongVar)'
            /\ mid'[q].weak = Cardinality(Counted(q) \cap WeakVar)'
        <4>1. CASE r \in StrongVar
          <5>1. /\ (Counted(q) \cap StrongVar)' = (Counted(q) \cap StrongVar) \cup {r}
                /\ (Counted(q) \cap WeakVar)' = Counted(q) \cap WeakVar
                /\ r \notin Counted(q) \cap StrongVar
            BY <1>6, <2>1, <4>1, RefCountAssumption
          <5>2. Cardinality((Counted(q) \cap StrongVar) \cup {r}) = mid[q].strong + 1
            BY <3>1, <5>1, CountSteps
          <5> QED BY <2>3, <2>6, <3>1, <4>1, <5>1, <5>2
        <4>2. CASE r \notin StrongVar
          <5>1. /\ (Counted(q) \cap WeakVar)' = (Counted(q) \cap WeakVar) \cup {r}
                /\ (Counted(q) \cap StrongVar)' = Counted(q) \cap StrongVar
                /\ r \notin Counted(q) \cap WeakVar
            BY <1>6, <2>1, <4>2 DEF Ref
          <5>2. Cardinality((Counted(q) \cap WeakVar) \cup {r}) = mid[q].weak + 1
            BY <3>1, <5>1, CountSteps
          <5> QED BY <2>3, <2>6, <3>1, <4>2, <5>1, <5>2
        <4> QED BY <4>1, <4>2
      <3>3. mid'[q].strong > 0 /\ mid'[q].ptr = mid[q].ptr /\ mid'[q].exists = mid[q].exists
        BY <2>3, <2>4, <2>6
      <3>4. /\ Owned(q)' <=> Owned(q)
            /\ Deleting(q)' <=> Deleting(q)
            /\ Freeing(q)' <=> Freeing(q)
        BY <1>1, <1>6, <2>1 DEF Owned, Deleting, Freeing
      <3>5. /\ \A x, y \in UniqueVar : unique'[x] = q /\ unique'[y] = q => x = y
            /\ \A v, w \in User : job'[v].del_ptr = q /\ job'[w].del_ptr = q => v = w
            /\ \A v, w \in User : job'[v].delete_m = q /\ job'[w].delete_m = q => v = w
        BY <1>1, <1>6, <2>1, <2>2 DEF ObjInv
      <3>6. ~Owned(q) /\ ~Deleting(q) /\ ~Freeing(q) /\ q \in live' /\ mid[q].ptr /\ mid[q].exists
        BY <1>1, <2>2, <2>4 DEF ObjInv
      <3> QED BY <3>2, <3>3, <3>4, <3>5, <3>6 DEF ObjInv
    <2> QED BY <1>6, <2>7, <2>8, <2>9 DEF RefInv
  <1> QED BY <1>7, <1>8

\* The object of a UniqueRef gets a Middle with one StrongRef, or is deleted.
LEMMA TakeUniqueInv ==
  ASSUME RefInv, NEW u \in User, TakeUnique(u)
  PROVE  RefInv'
  <1>1. job[u] \in Job /\ job[u].from \in UniqueVar /\ Dropped(u)
    BY DEF TakeUnique, Dropped, RefInv, RefTypeOK, Idle
  <1>2. PICK x \in UniqueVar : x = job[u].from
    BY <1>1
  <1>3. PICK r \in Ref : r = job[u].to
    BY <1>1 DEF Job
  <1>4. PICK p \in Obj \cup {Null} : p = unique[x]
    BY DEF RefInv, RefTypeOK
  <1>5. PICK q \in Obj \cup {Null} : q = IF p # Null /\ r \in StrongVar THEN p ELSE Null
    BY <1>4
  <1>6. Null \notin Obj
    BY RefCountAssumption
  <1>7. /\ middle' = [middle EXCEPT ![r] = q]
        /\ mid' = IF q # Null THEN [mid EXCEPT ![p] = NewMiddle] ELSE mid
        /\ live' = IF q # Null THEN live ELSE live \ {p}
        /\ unique' = [unique EXCEPT ![x] = Null]
        /\ job' = [job EXCEPT ![u] = Idle]
        /\ owner' = owner
    BY <1>2, <1>3, <1>4, <1>5 DEF TakeUnique
  <1>8. /\ middle' \in [Ref -> Obj \cup {Null}] /\ job' \in [User -> Job \cup {Idle}]
        /\ JobInv'
        /\ \A o \in Obj \ {q} : Counted(o)' = Counted(o)
        /\ q \in Obj => r \notin Counted(q) /\ Counted(q)' = Counted(q) \cup {r}
        /\ \A o \in Obj, v \in User : /\ job'[v].del_ptr = o <=> job[v].del_ptr = o
                                      /\ job'[v].delete_m = o <=> job[v].delete_m = o
    BY <1>1, <1>3, <1>7, AssignedFacts
  <1>9. RefTypeOK'
    BY <1>5, <1>7, <1>8 DEF RefInv, RefTypeOK, NewMiddle
  <1>10. unique'[x] = Null /\ \A z \in UniqueVar \ {x} : unique'[z] = unique[z]
    BY <1>7 DEF RefInv, RefTypeOK
  <1>11. ASSUME NEW o \in Obj, o # p PROVE ObjInv(o)'
    <2>1. \A z \in UniqueVar : unique'[z] = o <=> unique[z] = o
      BY <1>4, <1>6, <1>10, <1>11
    <2>2. mid'[o] = mid[o] /\ (o \in live' <=> o \in live) /\ o # q
      BY <1>5, <1>6, <1>7, <1>11 DEF RefInv, RefTypeOK
    <2> QED BY <1>8, <1>11, <2>1, <2>2, Untouched DEF RefInv
  <1>12. ASSUME NEW o \in Obj, o = p PROVE ObjInv(o)'
    <2>1. ObjInv(o)
      BY DEF RefInv
    <2>2. Owned(o) /\ ~Deleting(o) /\ ~mid[o].exists
      BY <1>4, <1>12, <2>1 DEF Owned, ObjInv
    <2>3. ~(mid[o].strong > 0) /\ ~(mid[o].weak > 0) /\ ~Freeing(o)
      BY <2>1, <2>2 DEF ObjInv
    <2>4. \A z \in UniqueVar : unique'[z] # o
      <3>1. \A z \in UniqueVar : unique[z] = o => z = x
        BY <1>4, <1>12, <2>1 DEF ObjInv
      <3> QED BY <1>6, <1>10, <3>1
    <2>5. ~Owned(o)' /\ ~Deleting(o)' /\ ~Freeing(o)'
      BY <1>8, <2>2, <2>3, <2>4 DEF Owned, Deleting, Freeing
    <2>6. /\ \A v, w \in User : job'[v].del_ptr = o /\ job'[w].del_ptr = o => v = w
          /\ \A v, w \in User : job'[v].delete_m = o /\ job'[w].delete_m = o => v = w
      BY <1>8, <2>1 DEF ObjInv
    <2>7. CASE q # Null
      <3>1. q = o /\ r \in StrongVar
        BY <1>5, <1>12, <2>7
      <3>2. Counted(o)' = {r}
        BY <1>8, <2>3, <3>1, NoCount
      <3>3. (Counted(o) \cap StrongVar)' = {r} /\ (Counted(o) \cap WeakVar)' = {}
        BY <3>1, <3>2, RefCountAssumption
      <3>4. Cardinality(Counted(o) \cap StrongVar)' = 1 /\ Cardinality(Counted(o) \cap WeakVar)' = 0
        BY <3>3, FS_Singleton, FS_EmptySet
      <3>5. mid'[o] = NewMiddle /\ o \in live'
        BY <1>7, <1>12, <2>1, <2>2, <2>7 DEF ObjInv, RefInv, RefTypeOK
      <3> QED BY <2>4, <2>5, <2>6, <3>4, <3>5 DEF ObjInv, NewMiddle
    <2>8. CASE q = Null
      <3>1. Counted(o)' = Counted(o) /\ mid' = mid /\ o \notin live'
        BY <1>6, <1>7, <1>8, <1>12, <2>8
      <3> QED BY <2>1, <2>2, <2>3, <2>4, <2>5, <2>6, <3>1 DEF ObjInv
    <2> QED BY <2>7, <2>8
  <1> QED BY <1>8, <1>9, <1>11, <1>12 DEF RefInv
-----------------------------------------------------------------------------
\* Every critical section of a Middle's lock and every delete after it preserves the
\* invariant.
LEMMA RefNextInv == RefInv /\ [RefNext]_refVars => RefInv'
  <1> SUFFICES ASSUME RefInv, [RefNext]_refVars PROVE RefInv'
    OBVIOUS
  <1>1. ASSUME NEW u \in User, NEW r \in StrongVar, Make(u, r) PROVE RefInv'
    BY <1>1, MakeInv
  <1>2. ASSUME NEW u \in User, NEW x \in UniqueVar, MakeUnique(u, x) PROVE RefInv'
    BY <1>2, MakeUniqueInv
  <1>3. ASSUME NEW u \in User, NEW x \in UniqueVar, NEW y \in UniqueVar \cup {Null},
               MoveUnique(u, x, y)
        PROVE  RefInv'
    BY <1>3, MoveUniqueInv
  <1>4. ASSUME NEW u \in User, NEW r \in Ref \cup UniqueVar, Pass(u, r) PROVE RefInv'
    BY <1>4, PassInv
  <1>5. ASSUME NEW u \in User, NEW r \in Ref, NEW s \in Ref \cup UniqueVar \cup {Null},
               Assign(u, r, s)
        PROVE  RefInv'
    BY <1>5, AssignInv
  <1>6. ASSUME NEW u \in User, DeleteObject(u) PROVE RefInv'
    BY <1>6, DeleteObjectInv
  <1>7. ASSUME NEW u \in User, DeleteMiddle(u) PROVE RefInv'
    BY <1>7, DeleteMiddleInv
  <1>8. ASSUME NEW u \in User, Add(u) PROVE RefInv'
    BY <1>8, AddInv
  <1>9. ASSUME NEW u \in User, TakeUnique(u) PROVE RefInv'
    BY <1>9, TakeUniqueInv
  <1>10. CASE UNCHANGED refVars
    <2>1. UNCHANGED <<middle, unique, owner, live, mid, job>>
      BY <1>10 DEF refVars
    <2>2. RefTypeOK' /\ JobInv'
      BY <2>1 DEF RefInv, RefTypeOK, JobInv
    <2>3. ASSUME NEW o \in Obj PROVE ObjInv(o)'
      <3>1. Counted(o)' = Counted(o)
        BY <2>1, SameCounted
      <3> QED BY <2>1, <3>1, Untouched DEF RefInv
    <2> QED BY <2>2, <2>3 DEF RefInv
  <1> QED BY <1>1, <1>2, <1>3, <1>4, <1>5, <1>6, <1>7, <1>8, <1>9, <1>10 DEF RefNext

\* The invariant holds in every reachable state of StrongRef, WeakRef and UniqueRef.
THEOREM RefInvariant == RefSpec => []RefInv
  BY RefInitInv, RefNextInv, PTL DEF RefSpec

\* No reference dangles: not after the last drop on another thread, not while a WeakRef
\* is promoted, not when the memory of an object or a Middle is used again.
THEOREM RefNothingDangles == RefSpec => []NothingDangles
  <1>1. RefInv => NothingDangles
    <2> SUFFICES ASSUME RefInv, NEW o \in Obj
                 PROVE  /\ \A r \in Counted(o) : mid[o].exists /\ (r \in StrongVar => o \in live)
                        /\ Owning(o) # {} =>
                             o \in live /\ ~mid[o].exists /\ Cardinality(Owning(o)) = 1
      BY DEF NothingDangles
    <2>1. ObjInv(o)
      BY DEF RefInv
    <2>2. ASSUME NEW r \in Counted(o) PROVE mid[o].exists /\ (r \in StrongVar => o \in live)
      <3>1. r \in Counted(o) \cap StrongVar \/ r \in Counted(o) \cap WeakVar
        BY <2>2 DEF Counted, Ref
      <3>2. mid[o].strong > 0 \/ mid[o].weak > 0
        BY <3>1, NoCount
      <3>3. r \in StrongVar => mid[o].strong > 0
        BY <2>2, NoCount
      <3> QED BY <2>1, <3>2, <3>3 DEF ObjInv
    <2>3. ASSUME Owning(o) # {}
          PROVE  o \in live /\ ~mid[o].exists /\ Cardinality(Owning(o)) = 1
      <3>1. PICK x \in UniqueVar : unique[x] = o
        BY <2>3 DEF Owning
      <3>2. Owning(o) = {x}
        BY <2>1, <3>1 DEF ObjInv, Owning
      <3>3. Owned(o) /\ o \in live /\ ~mid[o].exists
        BY <2>1, <3>1 DEF Owned, ObjInv
      <3> QED BY <3>2, <3>3, FS_Singleton
    <2> QED BY <2>2, <2>3
  <1> QED BY <1>1, RefInvariant, PTL

\* A set without two different elements has at most one.
LEMMA AtMostOne ==
  ASSUME NEW S, \A a, b \in S : a = b
  PROVE  Cardinality(S) <= 1
  <1>1. CASE S = {}
    BY <1>1, FS_EmptySet
  <1>2. CASE S # {}
    <2>1. PICK a \in S : S = {a}
      BY <1>2
    <2> QED BY <2>1, FS_Singleton
  <1> QED BY <1>1, <1>2

\* The counts are the numbers of references, every delete happens once and nothing is
\* leaked, whatever the threads do between the critical sections.
THEOREM RefCountsExact == RefSpec => []CountsExact
  <1>1. RefInv => CountsExact
    <2> SUFFICES ASSUME RefInv, NEW o \in Obj
                 PROVE  /\ mid[o].strong = Cardinality(Counted(o) \cap StrongVar)
                        /\ mid[o].weak = Cardinality(Counted(o) \cap WeakVar)
                        /\ Cardinality({u \in User : job[u].del_ptr = o}) <= 1
                        /\ Cardinality({u \in User : job[u].delete_m = o}) <= 1
                        /\ \A u \in User : job[u].delete_m = o => Counted(o) = {}
                        /\ o \in live => \/ Counted(o) \cap StrongVar # {} \/ Owning(o) # {}
                                         \/ \E u \in User : job[u].del_ptr = o
                        /\ mid[o].exists => Counted(o) # {} \/ \E u \in User : job[u].delete_m = o
      BY DEF CountsExact
    <2>1. ObjInv(o)
      BY DEF RefInv
    <2>2. Cardinality({u \in User : job[u].del_ptr = o}) <= 1
      <3>1. \A a, b \in {u \in User : job[u].del_ptr = o} : a = b
        BY <2>1 DEF ObjInv
      <3> QED BY <3>1, AtMostOne
    <2>3. Cardinality({u \in User : job[u].delete_m = o}) <= 1
      <3>1. \A a, b \in {u \in User : job[u].delete_m = o} : a = b
        BY <2>1 DEF ObjInv
      <3> QED BY <3>1, AtMostOne
    <2>4. \A u \in User : job[u].delete_m = o => Counted(o) = {}
      <3>1. (\E u \in User : job[u].delete_m = o) => ~(mid[o].strong > 0) /\ ~(mid[o].weak > 0)
        BY <2>1 DEF ObjInv, Freeing
      <3> QED BY <3>1, NoCount
    <2>5. o \in live => \/ Counted(o) \cap StrongVar # {} \/ Owning(o) # {}
                        \/ \E u \in User : job[u].del_ptr = o
      BY <2>1, NoCount DEF ObjInv, Owning, Owned, Deleting
    <2>6. mid[o].exists => Counted(o) # {} \/ \E u \in User : job[u].delete_m = o
      BY <2>1, NoCount DEF ObjInv, Freeing
    <2> QED BY <2>1, <2>2, <2>3, <2>4, <2>5, <2>6 DEF ObjInv
  <1> QED BY <1>1, RefInvariant, PTL

-----------------------------------------------------------------------------
(***************************************************************************)
(* The semaphores of user programs, for every number of processes, slots   *)
(* and keys and for every value of sem_op.                                 *)
(***************************************************************************)

\* The type invariant of the slots and of the history variables.  Nothing has to be
\* known of sleeping: a semop looks the semaphore up again in every round.
SemTypeOK ==
  /\ semaphores \in [SemId -> [used : BOOLEAN, key : Key \cup {0}, value : Int]]
  /\ units \in [SemId -> Int]
  /\ known \in SUBSET (SemId \X Key)

SemInv == SemTypeOK /\ KeysAgree /\ UnitsExact
-----------------------------------------------------------------------------
\* The search of find_or_create_sem_locked returns a slot of the set it looks for:
\* a set of slot numbers that is not empty has a smallest one.
LEMMA MinInSet ==
  ASSUME NEW S \in SUBSET Nat, S # {}
  PROVE  Min(S) \in S
  <1>1. PICK x \in S : \A y \in S : ~(<<y, x>> \in OpToRel(<, Nat))
    BY WFMin, NatLessThanWellFounded
  <1>2. \A y \in S : <<y, x>> \in Nat \X Nat
    OBVIOUS
  <1>3. \A y \in S : y < x => <<y, x>> \in OpToRel(<, Nat)
    BY <1>2 DEF OpToRel
  <1>4. \A y \in S : ~(y < x)
    BY <1>1, <1>3, Zenon
  <1>5. \A y \in S : x \in Nat /\ y \in Nat
    OBVIOUS
  <1>6. \A y \in S : x =< y
    BY <1>4, <1>5
  <1> QED BY <1>6 DEF Min

\* semget for a key returns the slot that has the key, or, when there is none, a
\* free slot.
LEMMA SlotOfSemget ==
  ASSUME NEW key, FindOrCreate(key) # {}
  PROVE  /\ Min(FindOrCreate(key)) \in SemId
         /\ \/ Min(FindOrCreate(key)) \in Found(key)
            \/ Min(FindOrCreate(key)) \in Free /\ Found(key) = {}
  <1>1. FindOrCreate(key) \subseteq SemId /\ SemId \subseteq Nat
    BY SysSemAssumption DEF FindOrCreate, Found, Free, SemId
  <1>2. Min(FindOrCreate(key)) \in FindOrCreate(key)
    BY <1>1, MinInSet
  <1> QED BY <1>1, <1>2 DEF FindOrCreate

\* All slots are unused before the first semget.
LEMMA SemInitInv == SemInit => SemInv
  <1> SUFFICES ASSUME SemInit PROVE SemInv
    OBVIOUS
  <1>1. \A i \in SemId : semaphores[i] = Unused
    BY DEF SemInit
  <1>2. SemTypeOK
    BY DEF SemInit, SemTypeOK, Unused
  <1>3. KeysAgree
    BY <1>1 DEF SemInit, KeysAgree, Unused
  <1>4. UnitsExact
    BY <1>1 DEF UnitsExact, Unused
  <1> QED BY <1>2, <1>3, <1>4 DEF SemInv

\* semget: a new semaphore is made only when no other has the key, and starts at 0.
LEMMA SemgetInv ==
  ASSUME SemInv, NEW u \in Caller, NEW key \in Key, Semget(u, key)
  PROVE  SemInv'
  <1> DEFINE i == Min(FindOrCreate(key))
  <1> USE DEF SemInv
  <1>1. /\ i \in SemId
        /\ i \in Found(key) \/ (i \in Free /\ Found(key) = {})
    BY SlotOfSemget DEF Semget
  <1>2. /\ semaphores' = [semaphores EXCEPT ![i] = Made(i, key)]
        /\ units' = [units EXCEPT ![i] = IF semaphores[i].used THEN @ ELSE 0]
        /\ known' = known \cup {<<i, key>>}
    BY DEF Semget
  <1> HIDE DEF i
  <1>3. Made(i, key) \in [used : BOOLEAN, key : Key \cup {0}, value : Int]
    BY <1>1 DEF Made, SemTypeOK
  <1>4. SemTypeOK'
    BY <1>1, <1>2, <1>3 DEF SemTypeOK
  <1>5. /\ semaphores'[i] = Made(i, key)
        /\ \A j \in SemId \ {i} : semaphores'[j] = semaphores[j] /\ units'[j] = units[j]
        /\ units'[i] = IF semaphores[i].used THEN units[i] ELSE 0
    BY <1>1, <1>2 DEF SemTypeOK
  <1>6. CASE i \in Found(key)
    <2>1. semaphores' = semaphores /\ units' = units
      BY <1>1, <1>2, <1>6 DEF Found, Made, SemTypeOK
    <2>2. semaphores[i].used /\ semaphores[i].key = key
      BY <1>6 DEF Found
    <2>3. UnitsExact'
      BY <2>1 DEF UnitsExact
    <2>4. KeysAgree'
      <3>1. ASSUME NEW k \in known' PROVE semaphores'[k[1]].used /\ semaphores'[k[1]].key = k[2]
        BY <1>2, <2>1, <2>2, <3>1 DEF KeysAgree
      <3> QED BY <2>1, <3>1 DEF KeysAgree
    <2> QED BY <1>4, <2>3, <2>4
  <1>7. CASE i \in Free /\ Found(key) = {}
    <2>1. /\ ~semaphores[i].used
          /\ Made(i, key) = [used |-> TRUE, key |-> key, value |-> 0]
          /\ \A j \in SemId : ~(semaphores[j].used /\ semaphores[j].key = key)
      BY <1>7 DEF Free, Found, Made
    <2>2. UnitsExact'
      BY <1>5, <2>1 DEF UnitsExact
    <2>3. \A j, h \in SemId :
             semaphores'[j].used /\ semaphores'[h].used /\ semaphores'[j].key = semaphores'[h].key
               => j = h
      BY <1>5, <2>1 DEF KeysAgree
    <2>4. ASSUME NEW k \in known' PROVE semaphores'[k[1]].used /\ semaphores'[k[1]].key = k[2]
      <3>1. CASE k \in known
        <4>1. k[1] \in SemId /\ semaphores[k[1]].used /\ semaphores[k[1]].key = k[2]
          BY <3>1 DEF KeysAgree, SemTypeOK
        <4> QED BY <4>1, <1>5, <2>1
      <3>2. CASE k = <<i, key>>
        BY <3>2, <1>5, <2>1
      <3> QED BY <1>2, <3>1, <3>2
    <2> QED BY <1>4, <2>2, <2>3, <2>4 DEF KeysAgree
  <1> QED BY <1>1, <1>6, <1>7

\* A semop that goes on changes the value and the history alike, and takes only what
\* is there.
LEMMA SemopInv ==
  ASSUME SemInv, NEW u \in Caller, NEW i \in SemId, NEW op \in SemOp,
         SemopTake(u, i, op) \/ SemopPost(u, i, op)
  PROVE  SemInv'
  <1> USE DEF SemInv
  <1>1. op \in Int
    BY SysSemAssumption
  <1>2. /\ semaphores' = [semaphores EXCEPT ![i].value = @ + op]
        /\ units' = [units EXCEPT ![i] = @ + op]
        /\ known' = known
        /\ semaphores[i].used
        /\ op < 0 => semaphores[i].value >= -op
    BY <1>1 DEF SemopTake, SemopPost, Enough
  <1>3. /\ semaphores[i].value \in Int
        /\ semaphores'[i].value = semaphores[i].value + op
        /\ semaphores'[i].used /\ semaphores'[i].key = semaphores[i].key
        /\ units'[i] = units[i] + op
        /\ units[i] = semaphores[i].value /\ units[i] >= 0
        /\ \A j \in SemId \ {i} : semaphores'[j] = semaphores[j] /\ units'[j] = units[j]
    BY <1>2 DEF SemTypeOK, UnitsExact
  <1>4. SemTypeOK'
    BY <1>1, <1>2, <1>3 DEF SemTypeOK
  <1>5. UnitsExact'
    BY <1>1, <1>2, <1>3 DEF UnitsExact
  <1>6. \A j \in SemId : semaphores'[j].used = semaphores[j].used
                         /\ semaphores'[j].key = semaphores[j].key
    BY <1>2, <1>3 DEF SemTypeOK
  <1>7. KeysAgree'
    BY <1>2, <1>6 DEF KeysAgree, SemTypeOK
  <1> QED BY <1>4, <1>5, <1>7

\* semctl forgets the id together with the semaphore.
LEMMA SemctlInv ==
  ASSUME SemInv, NEW u \in Caller, NEW i \in SemId, Semctl(u, i)
  PROVE  SemInv'
  <1> USE DEF SemInv
  <1>1. /\ semaphores' = [semaphores EXCEPT ![i] = Unused]
        /\ units' = units
        /\ known' = {k \in known : k[1] # i}
    BY DEF Semctl
  <1>2. SemTypeOK'
    BY <1>1 DEF SemTypeOK, Unused
  <1>3. /\ ~semaphores'[i].used
        /\ \A j \in SemId \ {i} : semaphores'[j] = semaphores[j]
    BY <1>1 DEF SemTypeOK, Unused
  <1>4. UnitsExact'
    BY <1>1, <1>3 DEF UnitsExact
  <1>5. KeysAgree'
    <2>1. ASSUME NEW k \in known' PROVE semaphores'[k[1]].used /\ semaphores'[k[1]].key = k[2]
      BY <1>1, <1>3, <2>1 DEF KeysAgree, SemTypeOK
    <2> QED BY <1>3, <2>1 DEF KeysAgree
  <1> QED BY <1>2, <1>4, <1>5

\* Every system call, and every round of one that sleeps, preserves the invariant.
LEMMA SemNextInv == SemInv /\ [SemNext]_semVars => SemInv'
  <1> SUFFICES ASSUME SemInv, [SemNext]_semVars PROVE SemInv'
    OBVIOUS
  <1>1. ASSUME NEW u \in Caller, NEW key \in Key, Semget(u, key) PROVE SemInv'
    BY <1>1, SemgetInv
  <1>2. ASSUME NEW u \in Caller, NEW i \in SemId, Semctl(u, i) PROVE SemInv'
    BY <1>2, SemctlInv
  <1>3. ASSUME NEW u \in Caller, NEW i \in SemId, NEW op \in SemOp,
               SemopTake(u, i, op) \/ SemopPost(u, i, op)
        PROVE  SemInv'
    BY <1>3, SemopInv
  <1>4. ASSUME UNCHANGED <<semaphores, known, units>> PROVE SemInv'
    BY <1>4 DEF SemInv, SemTypeOK, KeysAgree, UnitsExact
  <1> QED BY <1>1, <1>2, <1>3, <1>4 DEF SemNext, SemopFail, SemopYield, semVars

\* The invariant holds in every reachable state of semget, semop and semctl.
THEOREM SemInvariant == SemSpec => []SemInv
  BY SemInitInv, SemNextInv, PTL DEF SemSpec

\* Processes that name the same key always share one semaphore, and an id semget has
\* returned names its key until semctl removes it, for every order in which slots are
\* freed and taken again.
THEOREM SemKeysAgree == SemSpec => []KeysAgree
  BY SemInvariant, PTL DEF SemInv

\* A semaphore never holds anything but what was posted less what was taken since it
\* was made, and never less than nothing, removals under sleeping processes included.
THEOREM SemUnitsExact == SemSpec => []UnitsExact
  BY SemInvariant, PTL DEF SemInv

-----------------------------------------------------------------------------
(***************************************************************************)
(* SpinLock, for every number of cores.                                    *)
(***************************************************************************)

\* What holds at each place of lock() and unlock().  The lock word is set exactly
\* while some core owns the lock, owners are unique, and the caller's interrupt
\* flag is first in the local was, then in the lock, then in was again.
LockInv ==
    /\ \A c, d \in Cpu : Owns(c) /\ Owns(d) => c = d
    /\ \A c \in Cpu : Owns(c) => taken
    /\ taken => \E c \in Cpu : Owns(c)

FlagInv ==
    \A c \in Cpu :
      /\ stage[c] \in {"out", "disable", "get", "cas"}
           => disabled[c] = before[c]
      /\ stage[c] \in {"exchange", "save", "fail", "in", "read", "clear", "restore"}
           => disabled[c] = TRUE
      /\ stage[c] \in {"exchange", "save", "fail", "clear", "restore"}
           => was[c] = before[c]
      /\ stage[c] \in {"in", "read"} => was_disabled = before[c]

SpinInv == SpinTypeOK /\ LockInv /\ FlagInv

USE DEF Stage

-----------------------------------------------------------------------------
\* The initial state is well typed.
LEMMA InitType == SpinInit => SpinTypeOK
  <1> SUFFICES ASSUME SpinInit PROVE SpinTypeOK
    OBVIOUS
  <1>1. before \in [Cpu -> BOOLEAN]
    BY DEF SpinInit
  <1>2. recorded \subseteq Nat
    BY DEF SpinInit
  <1> QED BY <1>1, <1>2 DEF SpinInit, SpinTypeOK

\* Every step of lock(), unlock() and AtomicMax::update keeps the types.
LEMMA TypeStep == SpinTypeOK /\ [SpinNext]_spinVars => SpinTypeOK'
  <1> SUFFICES ASSUME SpinTypeOK, [SpinNext]_spinVars PROVE SpinTypeOK'
    OBVIOUS
  <1>1. CASE UNCHANGED spinVars
    BY <1>1 DEF spinVars, SpinTypeOK
  <1>2. ASSUME NEW c \in Cpu, SetInterrupts(c) PROVE SpinTypeOK'
    BY <1>2 DEF SpinTypeOK, SetInterrupts, lockVars
  <1>3. ASSUME NEW c \in Cpu, SpinStep(c) PROVE SpinTypeOK'
    <2> USE DEF SpinTypeOK, Advance, lockVars
    <2>1. CASE CallLock(c)   BY <2>1 DEF CallLock
    <2>2. CASE TurnOff(c)    BY <2>2 DEF TurnOff
    <2>3. CASE Exchange(c)   BY <2>3 DEF Exchange
    <2>4. CASE Save(c)       BY <2>4 DEF Save
    <2>5. CASE Fail(c)       BY <2>5 DEF Fail
    <2>6. CASE ReadFields(c) BY <2>6, SpinLockAssumption DEF ReadFields
    <2>7. CASE ReadWas(c)    BY <2>7 DEF ReadWas
    <2>8. CASE Clear(c)      BY <2>8 DEF Clear
    <2>9. CASE Restore(c)    BY <2>9 DEF Restore
    <2>10. CASE GetMax(c)
      <3>1. elapsed[c] \in Nat /\ maximum \in Nat
        OBVIOUS
      <3>2. recorded' \subseteq Nat /\ stage' \in [Cpu -> Stage]
        BY <2>10, <3>1 DEF GetMax
      <3>3. old' \in [Cpu -> Nat]
        BY <2>10, <3>1 DEF GetMax
      <3> QED BY <2>10, <3>2, <3>3 DEF GetMax
    <2>11. CASE CasMax(c)
      <3>1. recorded' \subseteq Nat /\ maximum' \in Nat
        <4>1. CASE maximum = old[c]
          <5>1. maximum' = elapsed[c] /\ recorded' = recorded \cup {elapsed[c]}
            BY <2>11, <4>1 DEF CasMax
          <5>2. elapsed[c] \in Nat
            OBVIOUS
          <5> QED BY <5>1, <5>2
        <4>2. CASE maximum # old[c]  BY <2>11, <4>2 DEF CasMax
        <4> QED BY <4>1, <4>2
      <3>2. stage' \in [Cpu -> Stage]
        BY <2>11 DEF CasMax
      <3> QED BY <2>11, <3>1, <3>2 DEF CasMax
    <2> QED
      BY <1>3, <2>1, <2>2, <2>3, <2>4, <2>5, <2>6, <2>7, <2>8, <2>9, <2>10,
         <2>11 DEF SpinStep
  <1> QED BY <1>1, <1>2, <1>3 DEF SpinNext

\* Only exchange makes an owner, and only when there is none; only set(false)
\* clears the word, and only the owner does it.
LEMMA LockStep == SpinInv /\ [SpinNext]_spinVars => LockInv'
  <1> SUFFICES ASSUME SpinInv, [SpinNext]_spinVars PROVE LockInv'
    OBVIOUS
  <1> USE DEF SpinInv, SpinTypeOK, LockInv, Owns, Advance, lockVars
  <1>1. CASE UNCHANGED spinVars
    BY <1>1 DEF spinVars
  <1>2. ASSUME NEW c \in Cpu, SetInterrupts(c) PROVE LockInv'
    BY <1>2 DEF SetInterrupts
  <1>3. ASSUME NEW c \in Cpu, SpinStep(c) PROVE LockInv'
    <2>1. CASE CallLock(c)   BY <2>1 DEF CallLock
    <2>2. CASE TurnOff(c)    BY <2>2 DEF TurnOff
    <2>3. CASE Exchange(c)   BY <2>3 DEF Exchange
    <2>4. CASE Save(c)       BY <2>4 DEF Save
    <2>5. CASE Fail(c)       BY <2>5 DEF Fail
    <2>6. CASE ReadFields(c) BY <2>6 DEF ReadFields
    <2>7. CASE ReadWas(c)    BY <2>7 DEF ReadWas
    <2>8. CASE Clear(c)      BY <2>8 DEF Clear
    <2>9. CASE Restore(c)    BY <2>9 DEF Restore
    <2>10. CASE GetMax(c)    BY <2>10 DEF GetMax
    <2>11. CASE CasMax(c)    BY <2>11 DEF CasMax
    <2> QED
      BY <1>3, <2>1, <2>2, <2>3, <2>4, <2>5, <2>6, <2>7, <2>8, <2>9, <2>10,
         <2>11 DEF SpinStep
  <1> QED BY <1>1, <1>2, <1>3 DEF SpinNext

\* was_disabled is written and read only by the owner, so it holds the owner's
\* flag from the write in tryLock to the read in unlock.
LEMMA FlagStep == SpinInv /\ [SpinNext]_spinVars => FlagInv'
  <1> SUFFICES ASSUME SpinInv, [SpinNext]_spinVars PROVE FlagInv'
    OBVIOUS
  <1> USE DEF SpinInv, SpinTypeOK, FlagInv, Advance, lockVars
  <1>1. CASE UNCHANGED spinVars
    BY <1>1 DEF spinVars
  <1>2. ASSUME NEW c \in Cpu, SetInterrupts(c) PROVE FlagInv'
    BY <1>2 DEF SetInterrupts
  <1>3. ASSUME NEW c \in Cpu, SpinStep(c) PROVE FlagInv'
    <2>1. CASE CallLock(c)   BY <2>1 DEF CallLock
    <2>2. CASE TurnOff(c)    BY <2>2 DEF TurnOff
    <2>3. CASE Exchange(c)   BY <2>3 DEF Exchange
    <2>4. CASE Save(c)       BY <2>4 DEF Save, LockInv, Owns
    <2>5. CASE Fail(c)       BY <2>5 DEF Fail
    <2>6. CASE ReadFields(c) BY <2>6 DEF ReadFields
    <2>7. CASE ReadWas(c)    BY <2>7 DEF ReadWas
    <2>8. CASE Clear(c)      BY <2>8 DEF Clear
    <2>9. CASE Restore(c)    BY <2>9 DEF Restore
    <2>10. CASE GetMax(c)    BY <2>10 DEF GetMax
    <2>11. CASE CasMax(c)    BY <2>11 DEF CasMax
    <2> QED
      BY <1>3, <2>1, <2>2, <2>3, <2>4, <2>5, <2>6, <2>7, <2>8, <2>9, <2>10,
         <2>11 DEF SpinStep
  <1> QED BY <1>1, <1>2, <1>3 DEF SpinNext

\* The invariant holds in every reachable state.
LEMMA Invariant == SpinSpec => []SpinInv
  <1>1. SpinInit => SpinInv
    BY InitType DEF SpinInit, SpinInv, LockInv, FlagInv, Owns
  <1>2. SpinInv /\ [SpinNext]_spinVars => SpinInv'
    BY TypeStep, LockStep, FlagStep DEF SpinInv
  <1> QED BY <1>1, <1>2, PTL DEF SpinSpec

\* At most one core is inside, with interrupts off.
THEOREM SpinMutualExclusion == SpinSpec => []LockExcludes
  <1>1. SpinInv => LockExcludes
    BY DEF SpinInv, LockInv, FlagInv, LockExcludes, Owns
  <1> QED BY <1>1, Invariant, PTL

\* Every core gets its interrupt flag back.
THEOREM SpinInterruptsRestored == SpinSpec => []InterruptsRestored
  <1>1. SpinInv => InterruptsRestored
    BY DEF SpinInv, FlagInv, InterruptsRestored
  <1> QED BY <1>1, Invariant, PTL

\* The statistics' maximum only grows, and a value is recorded only when it is
\* below or stored in it.
THEOREM SpinMaximum == SpinSpec => []MaximumIsMaximum
  <1> DEFINE MaxInv ==
        /\ SpinTypeOK
        /\ MaximumIsMaximum
        /\ \A c \in Cpu : stage[c] = "cas" => old[c] < elapsed[c]
  <1>1. SpinInit => MaxInv
    BY InitType DEF SpinInit, MaximumIsMaximum
  <1>2. MaxInv /\ [SpinNext]_spinVars => MaxInv'
    <2> SUFFICES ASSUME MaxInv, [SpinNext]_spinVars
                 PROVE  /\ MaximumIsMaximum'
                        /\ \A c \in Cpu : stage'[c] = "cas" => old'[c] < elapsed'[c]
      BY TypeStep
    <2> USE DEF MaximumIsMaximum, SpinTypeOK, Advance, lockVars
    <2>1. CASE UNCHANGED spinVars
      BY <2>1 DEF spinVars
    <2>2. ASSUME NEW c \in Cpu, SpinStep(c) \/ SetInterrupts(c),
                 ~GetMax(c), ~CasMax(c)
          PROVE  UNCHANGED <<maximum, recorded, old>>
      BY <2>2 DEF SpinStep, SetInterrupts, CallLock, TurnOff, Exchange, Save,
                  Fail, ReadFields, ReadWas, Clear, Restore
    <2>3. ASSUME NEW c \in Cpu, SpinStep(c) \/ SetInterrupts(c),
                 ~GetMax(c), ~CasMax(c)
          PROVE  \A d \in Cpu : stage'[d] = "cas" => stage[d] = "cas" /\ elapsed'[d] = elapsed[d]
      BY <2>3 DEF SpinStep, SetInterrupts, CallLock, TurnOff, Exchange, Save,
                  Fail, ReadFields, ReadWas, Clear, Restore
    <2>4. ASSUME NEW c \in Cpu, GetMax(c)
          PROVE  /\ MaximumIsMaximum'
                 /\ \A d \in Cpu : stage'[d] = "cas" => old'[d] < elapsed'[d]
      BY <2>4 DEF GetMax
    <2>5. ASSUME NEW c \in Cpu, CasMax(c)
          PROVE  /\ MaximumIsMaximum'
                 /\ \A d \in Cpu : stage'[d] = "cas" => old'[d] < elapsed'[d]
      <3>1. CASE maximum = old[c]
        <4>1. elapsed[c] \in Nat /\ old[c] < elapsed[c]
          BY <2>5 DEF CasMax
        <4>2. /\ maximum' = elapsed[c] /\ recorded' = recorded \cup {elapsed[c]}
              /\ UNCHANGED <<old, elapsed>>
          BY <2>5, <3>1 DEF CasMax
        <4>3. MaximumIsMaximum'
          BY <3>1, <4>1, <4>2
        <4>4. stage' = [stage EXCEPT ![c] = "out"]
          BY <2>5, <3>1 DEF CasMax
        <4> QED BY <4>2, <4>3, <4>4
      <3>2. CASE maximum # old[c]
        BY <2>5, <3>2 DEF CasMax
      <3> QED BY <3>1, <3>2
    <2>6. ASSUME NEW c \in Cpu, SpinStep(c) \/ SetInterrupts(c)
          PROVE  /\ MaximumIsMaximum'
                 /\ \A d \in Cpu : stage'[d] = "cas" => old'[d] < elapsed'[d]
      <3>1. CASE ~GetMax(c) /\ ~CasMax(c)
        BY <2>2, <2>3, <2>6, <3>1
      <3> QED BY <2>4, <2>5, <3>1
    <2> QED BY <2>1, <2>6 DEF SpinNext
  <1> QED BY <1>1, <1>2, PTL DEF SpinSpec
=============================================================================
