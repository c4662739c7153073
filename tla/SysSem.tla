------------------------------- MODULE SysSem -------------------------------
(***************************************************************************)
(* The semaphores of user programs, syscall.cc: semget, semop and semctl.  *)
(* Each critical section of semLock is a step.  A semop that cannot go on  *)
(* unlocks, yields and starts its loop again; in between the semaphore may *)
(* be removed and its slot given to another key.  Calls that are refused   *)
(* for their arguments change nothing and are left out.                    *)
(***************************************************************************)
EXTENDS Integers, FiniteSets, FiniteSetsExt

CONSTANTS
  Caller,        \* processes
  maxSemaphores,
  Key,
  SemOp,         \* the values of sem_op
  MaxValue       \* bound: no semaphore is raised above it

ASSUME SysSemAssumption ==
  /\ maxSemaphores \in Nat \ {0}
  /\ SemOp \subseteq Int
  /\ MaxValue \in Nat

SemId == 0 .. maxSemaphores - 1

VARIABLES
  semaphores,
  sleeping,   \* the semop a process has begun and not finished, or the empty set
  known,      \* history: the ids semget has returned for a key, until they are removed
  units       \* history: the sum of the operations done on a semaphore since it was made

semVars == <<semaphores, sleeping, known, units>>

Unused == [used |-> FALSE, key |-> 0, value |-> 0]

SemInit ==
  /\ semaphores = [i \in SemId |-> Unused]
  /\ sleeping = [u \in Caller |-> {}]
  /\ known = {}
  /\ units = [i \in SemId |-> 0]

Found(key) == {i \in SemId : semaphores[i].used /\ semaphores[i].key = key}

Free == {i \in SemId : ~semaphores[i].used}

\* Seeded fault: one pass, which takes the first slot that has the key or is free.
FindOrCreateOnePass(key) == Found(key) \cup Free

\* find_or_create_sem_locked: a semaphore with the key, else a free slot.
FindOrCreate(key) == IF Found(key) # {} THEN Found(key) ELSE Free

\* The semaphore in a slot once semget has chosen it.
Made(i, key) ==
  IF semaphores[i].used THEN semaphores[i]
                        ELSE [used |-> TRUE, key |-> key, value |-> 0]

\* semget; with all slots taken by other keys it returns -1.
Semget(u, key) ==
  /\ sleeping[u] = {}
  /\ FindOrCreate(key) # {}
  /\ LET i == Min(FindOrCreate(key))
     IN  /\ semaphores' = [semaphores EXCEPT ![i] = Made(i, key)]
         /\ units' = [units EXCEPT ![i] = IF semaphores[i].used THEN @ ELSE 0]
         /\ known' = known \cup {<<i, key>>}
  /\ UNCHANGED sleeping

-----------------------------------------------------------------------------
(* semop: a round of its loop, the first one or a later one.               *)

Round(u, i, op) == sleeping[u] \in {{}, {<<i, op>>}}

Return(u) == sleeping' = [sleeping EXCEPT ![u] = {}]

\* The semaphore does not exist, or does not exist any more: -1.
SemopFail(u, i, op) ==
  /\ Round(u, i, op)
  /\ ~semaphores[i].used
  /\ Return(u)
  /\ UNCHANGED <<semaphores, known, units>>

\* Seeded fault: any unit will do.
EnoughForOne(i, op) == semaphores[i].value > 0

Enough(i, op) == semaphores[i].value >= -op

SemopTake(u, i, op) ==
  /\ Round(u, i, op)
  /\ semaphores[i].used
  /\ op < 0
  /\ Enough(i, op)
  /\ semaphores' = [semaphores EXCEPT ![i].value = @ + op]
  /\ units' = [units EXCEPT ![i] = @ + op]
  /\ Return(u)
  /\ UNCHANGED known

SemopYield(u, i, op) ==
  /\ Round(u, i, op)
  /\ semaphores[i].used
  /\ op < 0
  /\ ~Enough(i, op)
  /\ sleeping' = [sleeping EXCEPT ![u] = {<<i, op>>}]
  /\ UNCHANGED <<semaphores, known, units>>

\* An operation of 0 returns at once.
SemopPost(u, i, op) ==
  /\ Round(u, i, op)
  /\ semaphores[i].used
  /\ op >= 0
  /\ semaphores[i].value + op <= MaxValue
  /\ semaphores' = [semaphores EXCEPT ![i].value = @ + op]
  /\ units' = [units EXCEPT ![i] = @ + op]
  /\ Return(u)
  /\ UNCHANGED known

\* semctl removes a semaphore, whoever sleeps on it.
Semctl(u, i) ==
  /\ sleeping[u] = {}
  /\ semaphores[i].used
  /\ semaphores' = [semaphores EXCEPT ![i] = Unused]
  /\ known' = {k \in known : k[1] # i}
  /\ UNCHANGED <<sleeping, units>>

SemNext ==
  \E u \in Caller :
     \/ \E key \in Key : Semget(u, key)
     \/ \E i \in SemId :
          \/ Semctl(u, i)
          \/ \E op \in SemOp : \/ SemopFail(u, i, op) \/ SemopTake(u, i, op)
                               \/ SemopYield(u, i, op) \/ SemopPost(u, i, op)

SemSpec == SemInit /\ [][SemNext]_semVars

-----------------------------------------------------------------------------
(* Properties.                                                             *)

\* Processes that name the same key share one semaphore, in whatever order slots
\* were freed and taken again; and an id names the key it was returned for until
\* semctl removes it.
KeysAgree ==
  /\ \A i, j \in SemId :
        semaphores[i].used /\ semaphores[j].used /\ semaphores[i].key = semaphores[j].key
           => i = j
  /\ \A k \in known : semaphores[k[1]].used /\ semaphores[k[1]].key = k[2]

\* A semaphore holds what was posted less what was taken since it was made, and
\* never less than nothing: a process that slept through a removal takes units of
\* the new semaphore only if they are there.
UnitsExact ==
  \A i \in SemId : semaphores[i].used =>
     semaphores[i].value = units[i] /\ units[i] >= 0
=============================================================================
