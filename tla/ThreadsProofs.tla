--------------------------- MODULE ThreadsProofs ---------------------------
(***************************************************************************)
(* The thread system is correct for every number of cores, threads and     *)
(* conditions, under the most general client.                              *)
(***************************************************************************)
EXTENDS Threads, FiniteSetTheorems, SequenceTheorems, TLAPS

(***************************************************************************)
(* The inductive invariant.                                                *)
(***************************************************************************)
Kind == {"free", "current", "prev", "ready", "reaper", "waiting", "woken", "victim"}

\* TCB t is in exactly the place described by kind k and holder w, and its fields
\* are what that place requires: a thread that is switched out has preemption
\* disabled once and is not inside wait; only a stopped one is on its way to the
\* heap; what the next post_switch will do fits where the thread stands.
PlacedAt(t, k, w) ==
    /\ (k = "free") <=> (pc[t] = "free")
    /\ \A c \in Core : (current[c] = t) <=> (k = "current" /\ w = c)
    /\ \A c \in Core : (prev[c] = t) <=> (k = "prev" /\ w = c)
    /\ (t \in Range(ready)) <=> (k = "ready")
    /\ (t \in Range(reaper)) <=> (k = "reaper")
    /\ \A cd \in Cond : (t \in Range(waiting[cd])) <=> (k = "waiting" /\ w = cd)
    /\ \A x \in Ctx : (t \in Range(woken[x])) <=> (k = "woken" /\ w = x)
    /\ \A x \in Ctx : (victim[x] = t) <=> (k = "victim" /\ w = x)
    /\ k = "current" => w \in Core
    /\ k = "prev" => w \in Core
    /\ k = "waiting" => w \in Cond
    /\ k \in {"woken", "victim"} => w \in Ctx
    /\ k \in {"reaper", "victim"} => pc[t] = "stopped"
    /\ k \in {"current", "ready", "waiting", "woken"} => pc[t] # "stopped"
    /\ k = "prev" => ((action[t] = "Stop") <=> (pc[t] = "stopped"))
    /\ k \in {"prev", "ready", "waiting", "woken"} => dpc[t] = 1
    /\ k # "current" => waitOn[t] = Null

Placed(t) == \E k \in Kind, w \in Ctx \cup Cond : PlacedAt(t, k, w)

\* No queue links a thread twice.
QueueInv ==
    /\ IsInjective(ready)
    /\ IsInjective(reaper)
    /\ \A cd \in Cond : IsInjective(waiting[cd])
    /\ \A x \in Ctx : IsInjective(woken[x])

\* A core runs its own idle thread or a thread, and the disable_preemption_count
\* of what it runs says whether post_switch or wait still has to enable.
CoreInv(c) ==
    /\ current[c] \in Core => current[c] = c
    /\ prev[c] \in Core => prev[c] = c /\ current[c] # c
    /\ prev[c] # Null => /\ (action[prev[c]] = "None") <=> (prev[c] \in Core)
                         /\ waitOn[current[c]] = Null
                         /\ action[prev[c]] = "Wait" => cond[prev[c]] \in Cond
    /\ current[c] \in Thread /\ prev[c] = Null => rsp0[c] = current[c]
    /\ current[c] \in Thread =>
         dpc[current[c]] =
           IF prev[c] # Null \/ waitOn[current[c]] # Null THEN 1 ELSE 0
    /\ waitOn[c] = Null
    /\ current[c] # c \/ prev[c] # Null => pc[c] = "loop_reap" /\ dpc[c] = 3
    /\ current[c] = c /\ prev[c] = Null =>
         dpc[c] = IF pc[c] \in {"loop_reap", "loop_get"} THEN 2 ELSE 1

\* n_active counts the TCBs that are in use and the calls of make_thread that
\* have not allocated theirs yet.
Live == {t \in Thread : pc[t] # "free"}
Making == {x \in Ctx : pc[x] \in {"mk_reap", "mk_alloc"}}

CountInv ==
    /\ nActive = Cardinality(Live) + Cardinality(Making)
    /\ halted => nActive = 0

ThreadsInv ==
    /\ ThreadsTypeOK
    /\ QueueInv
    /\ \A t \in Thread : Placed(t)
    /\ \A c \in Core : CoreInv(c)
    /\ CountInv
-----------------------------------------------------------------------------
(***************************************************************************)
(* Facts about queues.                                                     *)
(***************************************************************************)

\* Adding an item at the end of a queue.
LEMMA AppendFacts ==
    ASSUME NEW S, NEW s \in Seq(S), NEW e \in S
    PROVE  /\ Append(s, e) \in Seq(S)
           /\ Range(Append(s, e)) = Range(s) \cup {e}
           /\ IsInjective(s) /\ e \notin Range(s) => IsInjective(Append(s, e))
  <1>1. /\ Append(s, e) \in Seq(S)
        /\ Len(s) \in Nat
        /\ DOMAIN s = 1..Len(s)
        /\ DOMAIN Append(s, e) = 1..(Len(s) + 1)
        /\ \A i \in 1..Len(s) : Append(s, e)[i] = s[i]
        /\ Append(s, e)[Len(s) + 1] = e
    BY AppendProperties, LenProperties
  <1>2. 1..(Len(s) + 1) = 1..Len(s) \cup {Len(s) + 1}
    BY <1>1
  <1>3. Range(Append(s, e)) = Range(s) \cup {e}
    BY <1>1, <1>2 DEF Range
  <1>4. ASSUME IsInjective(s), e \notin Range(s) PROVE IsInjective(Append(s, e))
    BY <1>1, <1>2, <1>4 DEF IsInjective, Range
  <1> QED BY <1>1, <1>3, <1>4

\* Removing the item at the front.
LEMMA TailFacts ==
    ASSUME NEW S, NEW s \in Seq(S), s # <<>>
    PROVE  /\ Head(s) \in S
           /\ Head(s) \in Range(s)
           /\ Tail(s) \in Seq(S)
           /\ IsInjective(s) => /\ IsInjective(Tail(s))
                                /\ Range(Tail(s)) = Range(s) \ {Head(s)}
  <1>1. /\ Len(s) \in Nat \ {0}
        /\ DOMAIN s = 1..Len(s)
        /\ Head(s) = s[1]
        /\ Head(s) \in S
        /\ Tail(s) \in Seq(S)
        /\ Len(Tail(s)) = Len(s) - 1
        /\ \A i \in 1..Len(Tail(s)) : Tail(s)[i] = s[i + 1]
    BY HeadTailProperties, LenProperties, EmptySeq
  <1>2. DOMAIN Tail(s) = 1..(Len(s) - 1)
    BY <1>1, LenProperties
  <1>3. Head(s) \in Range(s)
    BY <1>1 DEF Range
  <1>4. ASSUME IsInjective(s)
        PROVE  IsInjective(Tail(s)) /\ Range(Tail(s)) = Range(s) \ {Head(s)}
    <2>1. IsInjective(Tail(s))
      BY <1>1, <1>2, <1>4 DEF IsInjective
    <2>2. ASSUME NEW v \in Range(Tail(s)) PROVE v \in Range(s) \ {Head(s)}
      <3>1. PICK i \in 1..(Len(s) - 1) : v = s[i + 1]
        BY <1>1, <1>2, <2>2 DEF Range
      <3>2. i + 1 \in 1..Len(s) /\ i + 1 # 1
        BY <1>1
      <3> QED BY <1>1, <1>4, <3>1, <3>2 DEF Range, IsInjective
    <2>3. ASSUME NEW v \in Range(s) \ {Head(s)} PROVE v \in Range(Tail(s))
      <3>1. PICK i \in 1..Len(s) : v = s[i]
        BY <1>1, <2>3 DEF Range
      <3>2. i # 1 /\ i - 1 \in 1..(Len(s) - 1) /\ (i - 1) + 1 = i
        BY <1>1, <2>3, <3>1
      <3> QED BY <1>1, <1>2, <3>1, <3>2 DEF Range
    <2> QED BY <2>1, <2>2, <2>3
  <1> QED BY <1>1, <1>3, <1>4

\* Queues of no and of one item.
LEMMA ShortFacts ==
    /\ Range(<<>>) = {} /\ IsInjective(<<>>)
    /\ \A e : Range(<<e>>) = {e} /\ IsInjective(<<e>>)
  BY DEF Range, IsInjective

-----------------------------------------------------------------------------
(***************************************************************************)
(* Every step preserves the invariant: one lemma per action.               *)
(***************************************************************************)

\* The sets of names are disjoint.
LEMMA Names ==
    /\ Core \subseteq Ctx /\ Thread \subseteq Ctx /\ Ctx = Core \cup Thread
    /\ \A x : x \in Core => x \notin Thread
    /\ Null \notin Ctx /\ Null \notin Cond
    /\ Bsp \in Core
    /\ IsFiniteSet(Thread) /\ IsFiniteSet(Ctx)
  BY ThreadsAssumption, FS_Union DEF Ctx

\* Steps that leave pc, n_active and the power alone keep the count.
LEMMA CountFrame ==
    ASSUME CountInv, UNCHANGED <<pc, nActive, halted>> PROVE CountInv'
  BY DEF CountInv, Live, Making

\* TCB::post_switch hands the context that was left on to its next place.
LEMMA PostSwitchStep ==
    ASSUME ThreadsInv, NEW c \in Core, PostSwitch(c)
    PROVE  ThreadsInv'
  <1> DEFINE p == prev[c]
             x == current[c]
  <1>1. /\ p # Null /\ p \in Ctx /\ x \in Ctx /\ ~halted
        /\ prev' = [prev EXCEPT ![c] = Null]
        /\ dpc' = [dpc EXCEPT ![x] = @ - 1]
        /\ rsp0' = IF x \in Thread THEN [rsp0 EXCEPT ![c] = x] ELSE rsp0
        /\ UNCHANGED <<current, pc, epoch, action, cond, condEpoch, waitOn, woken,
                       victim, nActive, halted>>
    BY DEF PostSwitch, SetRsp0, Enable, Me, ThreadsInv, ThreadsTypeOK
  <1>2. CoreInv(c) /\ (x \in Thread => dpc[x] = 1) /\ (x \in Core => x = c /\ dpc[x] = 3)
    BY <1>1, Names DEF ThreadsInv, CoreInv
  <1>3. dpc[x] \in Nat \ {0} /\ dpc[x] - 1 \in Nat
    BY <1>1, <1>2, Names
  <1>4. p \in Thread =>
          /\ PlacedAt(p, "prev", c)
          /\ action[p] \in {"Ready", "Stop", "Wait"}
          /\ action[p] = "Wait" => cond[p] \in Cond
    <2> SUFFICES ASSUME p \in Thread
                 PROVE  /\ PlacedAt(p, "prev", c)
                        /\ action[p] \in {"Ready", "Stop", "Wait"}
                        /\ action[p] = "Wait" => cond[p] \in Cond
      OBVIOUS
    <2>1. PICK k \in Kind, w \in Ctx \cup Cond : PlacedAt(p, k, w)
      BY DEF ThreadsInv, Placed
    <2>2. k = "prev" /\ w = c
      BY <2>1 DEF PlacedAt
    <2>3. action[p] \in Action /\ action[p] # "None"
      BY <1>1, <1>2, Names DEF CoreInv, ThreadsInv, ThreadsTypeOK
    <2> QED BY <1>1, <1>2, <2>1, <2>2, <2>3 DEF CoreInv, Action
  <1>5. \/ /\ p \in Core
           /\ UNCHANGED <<ready, reaper, waiting>>
        \/ /\ p \in Thread /\ action[p] # "Stop"
           /\ ready' = Append(ready, p)
           /\ UNCHANGED <<reaper, waiting>>
        \/ /\ p \in Thread /\ action[p] = "Stop"
           /\ reaper' = Append(reaper, p)
           /\ UNCHANGED <<ready, waiting>>
        \/ /\ p \in Thread /\ action[p] = "Wait" /\ cond[p] \in Cond
           /\ waiting' = [waiting EXCEPT ![cond[p]] = Append(@, p)]
           /\ UNCHANGED <<ready, reaper>>
    BY <1>1, <1>2, <1>4, Names DEF PostSwitch, CoreInv
  <1>6. p \in Thread =>
          /\ p \notin Range(ready) /\ p \notin Range(reaper)
          /\ \A cd \in Cond : p \notin Range(waiting[cd])
    BY <1>4 DEF PlacedAt
  <1>7. /\ ready' \in Seq(Thread) /\ reaper' \in Seq(Thread)
        /\ waiting' \in [Cond -> Seq(Thread)]
        /\ QueueInv'
    <2> USE DEF ThreadsInv, ThreadsTypeOK, QueueInv
    <2>1. CASE p \in Core /\ UNCHANGED <<ready, reaper, waiting>>
      BY <1>1, <2>1
    <2>2. CASE /\ p \in Thread /\ ready' = Append(ready, p)
               /\ UNCHANGED <<reaper, waiting>>
      BY <1>1, <1>6, <2>2, AppendFacts
    <2>3. CASE /\ p \in Thread /\ reaper' = Append(reaper, p)
               /\ UNCHANGED <<ready, waiting>>
      BY <1>1, <1>6, <2>3, AppendFacts
    <2>4. CASE /\ p \in Thread /\ cond[p] \in Cond
               /\ waiting' = [waiting EXCEPT ![cond[p]] = Append(@, p)]
               /\ UNCHANGED <<ready, reaper>>
      <3>1. /\ Append(waiting[cond[p]], p) \in Seq(Thread)
            /\ IsInjective(Append(waiting[cond[p]], p))
        BY <1>6, <2>4, AppendFacts
      <3> QED BY <1>1, <2>4, <3>1
    <2> QED BY <1>5, <2>1, <2>2, <2>3, <2>4
  <1>8. ThreadsTypeOK'
    BY <1>1, <1>3, <1>7 DEF ThreadsInv, ThreadsTypeOK
  <1>9. ASSUME NEW t \in Thread PROVE Placed(t)'
    <2>1. PICK k \in Kind, w \in Ctx \cup Cond : PlacedAt(t, k, w)
      BY DEF ThreadsInv, Placed
    <2>2. CASE t # p
      <3>1. /\ (t \in Range(ready')) <=> (t \in Range(ready))
            /\ (t \in Range(reaper')) <=> (t \in Range(reaper))
            /\ \A cd \in Cond : (t \in Range(waiting'[cd])) <=> (t \in Range(waiting[cd]))
        <4> USE DEF ThreadsInv, ThreadsTypeOK
        <4>1. CASE p \in Core /\ UNCHANGED <<ready, reaper, waiting>>
          BY <4>1
        <4>2. CASE /\ p \in Thread /\ ready' = Append(ready, p)
                   /\ UNCHANGED <<reaper, waiting>>
          BY <2>2, <4>2, AppendFacts
        <4>3. CASE /\ p \in Thread /\ reaper' = Append(reaper, p)
                   /\ UNCHANGED <<ready, waiting>>
          BY <2>2, <4>3, AppendFacts
        <4>4. CASE /\ p \in Thread /\ cond[p] \in Cond
                   /\ waiting' = [waiting EXCEPT ![cond[p]] = Append(@, p)]
                   /\ UNCHANGED <<ready, reaper>>
          <5>1. Range(Append(waiting[cond[p]], p)) = Range(waiting[cond[p]]) \cup {p}
            BY <4>4, AppendFacts
          <5> QED BY <2>2, <4>4, <5>1
        <4> QED BY <1>5, <4>1, <4>2, <4>3, <4>4
      <3>2. k # "current" => dpc'[t] = dpc[t]
        BY <1>1, <2>1 DEF PlacedAt, ThreadsInv, ThreadsTypeOK
      <3>3. \A d \in Core : (prev'[d] = t) <=> (prev[d] = t)
        BY <1>1, <2>2, Names DEF ThreadsInv, ThreadsTypeOK
      <3>4. PlacedAt(t, k, w)'
        BY <1>1, <2>1, <3>1, <3>2, <3>3 DEF PlacedAt
      <3> QED BY <3>4 DEF Placed
    <2>3. CASE t = p
      <3>1. PlacedAt(t, "prev", c) /\ t # x
        BY <1>4, <2>3 DEF PlacedAt
      <3>2. /\ dpc'[t] = 1 /\ waitOn'[t] = Null
            /\ \A d \in Core : prev'[d] # t
        BY <1>1, <2>3, <3>1, Names DEF PlacedAt, ThreadsInv, ThreadsTypeOK
      <3>3. CASE action[p] # "Stop" /\ ready' = Append(ready, p) /\ UNCHANGED <<reaper, waiting>>
        <4>1. t \in Range(ready')
          BY <2>3, <3>3, AppendFacts DEF ThreadsInv, ThreadsTypeOK
        <4>2. PlacedAt(t, "ready", c)'
          BY <1>1, <2>3, <3>1, <3>2, <3>3, <4>1 DEF PlacedAt
        <4> QED BY <4>2, Names DEF Placed, Kind
      <3>4. CASE action[p] = "Stop" /\ reaper' = Append(reaper, p) /\ UNCHANGED <<ready, waiting>>
        <4>1. t \in Range(reaper')
          BY <2>3, <3>4, AppendFacts DEF ThreadsInv, ThreadsTypeOK
        <4>2. PlacedAt(t, "reaper", c)'
          BY <1>1, <2>3, <3>1, <3>2, <3>4, <4>1 DEF PlacedAt
        <4> QED BY <4>2, Names DEF Placed, Kind
      <3>5. CASE /\ action[p] = "Wait" /\ cond[p] \in Cond
                 /\ waiting' = [waiting EXCEPT ![cond[p]] = Append(@, p)]
                 /\ UNCHANGED <<ready, reaper>>
        <4>1. PICK q \in Cond : q = cond[p]
          BY <3>5
        <4>2. Range(Append(waiting[q], p)) = Range(waiting[q]) \cup {p}
          BY <2>3, AppendFacts DEF ThreadsInv, ThreadsTypeOK
        <4>3. \A cd \in Cond : (t \in Range(waiting'[cd])) <=> (cd = q)
          BY <1>6, <2>3, <3>5, <4>1, <4>2 DEF ThreadsInv, ThreadsTypeOK
        <4>4. PlacedAt(t, "waiting", q)'
          BY <1>1, <2>3, <3>1, <3>2, <3>5, <4>3 DEF PlacedAt
        <4> QED BY <4>4 DEF Placed, Kind
      <3>6. t \in Thread /\ p \notin Core
        BY <2>3, Names
      <3> QED BY <1>5, <3>3, <3>4, <3>5, <3>6
    <2> QED BY <2>2, <2>3
  <1>10. ASSUME NEW d \in Core PROVE CoreInv(d)'
    <2>1. CoreInv(d)
      BY DEF ThreadsInv
    <2>2. d # c => current[d] # x
      <3>1. CASE x \in Core
        BY <1>2, <3>1, <2>1, Names DEF CoreInv
      <3>2. CASE x \in Thread
        BY <3>2 DEF ThreadsInv, Placed, PlacedAt
      <3> QED BY <1>1, <3>1, <3>2, Names
    <2>3. CASE d = c
      BY <1>1, <1>2, <1>3, <2>1, <2>3, Names DEF CoreInv, ThreadsInv, ThreadsTypeOK
    <2>4. CASE d # c
      <3>1. d # x /\ current[d] # x
        BY <1>2, <2>2, <2>4, Names
      <3> QED BY <1>1, <2>1, <2>4, <3>1, Names DEF CoreInv, ThreadsInv, ThreadsTypeOK
    <2> QED BY <2>3, <2>4
  <1>11. CountInv'
    BY <1>1, CountFrame DEF ThreadsInv
  <1> QED BY <1>7, <1>8, <1>9, <1>10, <1>11 DEF ThreadsInv

\* The thread a core runs is nowhere else.
LEMMA Running ==
    ASSUME ThreadsInv, NEW c \in Core, current[c] \in Thread
    PROVE  PlacedAt(current[c], "current", c)
  <1>1. PICK k \in Kind, w \in Ctx \cup Cond : PlacedAt(current[c], k, w)
    BY DEF ThreadsInv, Placed
  <1>2. k = "current" /\ w = c
    BY <1>1 DEF PlacedAt
  <1> QED BY <1>1, <1>2

\* Two cores never run the same context, and run only their own idle thread.
LEMMA Apart ==
    ASSUME ThreadsInv, NEW c \in Core, NEW d \in Core, d # c
    PROVE  current[d] # current[c] /\ d # current[c]
  <1>1. current[c] \in Ctx /\ CoreInv(c) /\ CoreInv(d)
    BY DEF ThreadsInv, ThreadsTypeOK
  <1>2. CASE current[c] \in Core
    BY <1>1, <1>2, Names DEF CoreInv
  <1>3. CASE current[c] \in Thread
    BY <1>3, Running, Names DEF PlacedAt
  <1> QED BY <1>1, <1>2, <1>3, Names

\* The head of the ready queue is nowhere else, and is ready to run.
LEMMA FromReady ==
    ASSUME ThreadsInv, ready # <<>>
    PROVE  /\ Head(ready) \in Thread
           /\ \E w \in Ctx \cup Cond : PlacedAt(Head(ready), "ready", w)
           /\ Tail(ready) \in Seq(Thread)
           /\ IsInjective(Tail(ready))
           /\ Range(Tail(ready)) = Range(ready) \ {Head(ready)}
  <1>1. /\ Head(ready) \in Thread /\ Head(ready) \in Range(ready)
        /\ Tail(ready) \in Seq(Thread) /\ IsInjective(Tail(ready))
        /\ Range(Tail(ready)) = Range(ready) \ {Head(ready)}
    BY TailFacts DEF ThreadsInv, ThreadsTypeOK, QueueInv
  <1>2. PICK k \in Kind, w \in Ctx \cup Cond : PlacedAt(Head(ready), k, w)
    BY <1>1 DEF ThreadsInv, Placed
  <1>3. k = "ready"
    BY <1>1, <1>2 DEF PlacedAt
  <1> QED BY <1>1, <1>2, <1>3

\* A switch of core c from the context me to h, the head of the ready queue or
\* the idle thread: what the actions that switch have in common.
LEMMA SwitchInv ==
    ASSUME ThreadsInv, NEW c \in Core, NEW me \in Ctx, NEW h \in Ctx,
           me = current[c], prev[c] = Null,
           current' = [current EXCEPT ![c] = h],
           prev' = [prev EXCEPT ![c] = me],
           \/ h = c /\ me \in Thread /\ ready' = ready
           \/ ready # <<>> /\ h = Head(ready) /\ ready' = Tail(ready),
           UNCHANGED <<reaper, waiting, woken, victim, rsp0>>,
           \A y \in Ctx \ {me} : /\ pc'[y] = pc[y] /\ action'[y] = action[y]
                                 /\ dpc'[y] = dpc[y] /\ waitOn'[y] = waitOn[y],
           \A y \in Thread \ {me} : cond'[y] = cond[y],
           (action'[me] = "None") <=> (me \in Core),
           action'[me] = "Wait" => cond'[me] \in Cond,
           waitOn'[me] = Null,
           me \in Thread => /\ dpc'[me] = 1 /\ pc'[me] # "free"
                            /\ (action'[me] = "Stop") <=> (pc'[me] = "stopped"),
           me \in Core => pc'[me] = "loop_reap" /\ dpc'[me] = 3
    PROVE  /\ current' \in [Core -> Ctx] /\ prev' \in [Core -> Ctx \cup {Null}]
           /\ ready' \in Seq(Thread)
           /\ QueueInv'
           /\ \A t \in Thread : Placed(t)'
           /\ \A d \in Core : CoreInv(d)'
  <1>1. current \in [Core -> Ctx] /\ prev \in [Core -> Ctx \cup {Null}]
    BY DEF ThreadsInv, ThreadsTypeOK
  <1>2. ready' \in Seq(Thread) /\ QueueInv'
    BY FromReady DEF ThreadsInv, ThreadsTypeOK, QueueInv
  <1>3. /\ h \in Thread => \E w \in Ctx \cup Cond : PlacedAt(h, "ready", w)
        /\ h \in Core => h = c /\ me \in Thread
        /\ \A t \in Thread : (t \in Range(ready')) <=> (t \in Range(ready) /\ t # h)
    <2>1. CASE h = c /\ me \in Thread /\ ready' = ready
      BY <2>1, Names
    <2>2. CASE ready # <<>> /\ h = Head(ready) /\ ready' = Tail(ready)
      BY <2>2, FromReady, Names
    <2> QED BY <2>1, <2>2
  <1>4. me \in Thread => PlacedAt(me, "current", c)
    BY Running
  <1>5. h # me
    BY <1>3, <1>4, Names DEF PlacedAt
  <1>6. ASSUME NEW t \in Thread PROVE Placed(t)'
    <2>1. CASE t = h
      <3>1. PICK w \in Ctx \cup Cond : PlacedAt(t, "ready", w)
        BY <1>3, <2>1
      <3>2. PlacedAt(t, "current", c)'
        BY <1>1, <1>3, <1>5, <2>1, <3>1, Names DEF PlacedAt
      <3> QED BY <3>2, Names DEF Placed, Kind
    <2>2. CASE t = me
      <3>1. PlacedAt(t, "current", c)
        BY <1>4, <2>2
      <3>2. PlacedAt(t, "prev", c)'
        BY <1>1, <1>3, <1>5, <2>2, <3>1, Names DEF PlacedAt
      <3> QED BY <3>2, Names DEF Placed, Kind
    <2>3. CASE t # h /\ t # me
      <3>1. PICK k \in Kind, w \in Ctx \cup Cond : PlacedAt(t, k, w)
        BY DEF ThreadsInv, Placed
      <3>2. PlacedAt(t, k, w)'
        <4>1. \A d \in Core : /\ (current'[d] = t) <=> (current[d] = t)
                              /\ (prev'[d] = t) <=> (prev[d] = t)
          BY <1>1, <2>3, Names
        <4> QED BY <1>3, <2>3, <3>1, <4>1, Names DEF PlacedAt
      <3> QED BY <3>2 DEF Placed
    <2> QED BY <2>1, <2>2, <2>3
  <1>7. ASSUME NEW d \in Core PROVE CoreInv(d)'
    <2>1. CoreInv(d) /\ CoreInv(c)
      BY DEF ThreadsInv
    <2>2. CASE d # c
      <3>1. /\ current[d] # me /\ d # me /\ current[d] \in Ctx
            /\ current'[d] = current[d] /\ prev'[d] = prev[d] /\ rsp0'[d] = rsp0[d]
        BY <1>1, <2>2, Apart
      <3>2. prev[d] # me
        BY <1>4, <2>1, <2>2, Names DEF PlacedAt, CoreInv, ThreadsInv
      <3>3. prev[d] # Null => prev[d] \in Ctx \ {me}
        BY <1>1, <3>2
      <3>4. /\ waitOn'[current[d]] = waitOn[current[d]] /\ dpc'[current[d]] = dpc[current[d]]
            /\ pc'[d] = pc[d] /\ dpc'[d] = dpc[d] /\ waitOn'[d] = waitOn[d]
        BY <3>1, Names
      <3>5. prev[d] # Null => /\ action'[prev[d]] = action[prev[d]]
                              /\ prev[d] \in Thread => cond'[prev[d]] = cond[prev[d]]
        BY <3>3
      <3>6. prev[d] # Null /\ action[prev[d]] = "Wait" => prev[d] \in Thread
        BY <1>1, <2>1, Names DEF CoreInv
      <3> QED BY <2>1, <3>1, <3>4, <3>5, <3>6 DEF CoreInv
    <2>3. CASE d = c
      <3>1. current'[c] = h /\ prev'[c] = me /\ me # Null
        BY <1>1, Names
      <3>2. waitOn'[c] = Null /\ pc'[c] = "loop_reap" /\ dpc'[c] = 3
        BY <2>1, Names DEF CoreInv
      <3>3. waitOn'[h] = Null
        BY <1>3, <1>5, <2>1, Names DEF PlacedAt, CoreInv
      <3>4. h \in Thread => dpc'[h] = 1
        BY <1>3, <1>5, Names DEF PlacedAt
      <3>5. me \in Core => me = c /\ h # c
        BY <1>5, <2>1 DEF CoreInv
      <3>6. h \in Core => h = c
        BY <1>3
      <3> QED BY <2>3, <3>1, <3>2, <3>3, <3>4, <3>5, <3>6, Names DEF CoreInv
    <2> QED BY <2>2, <2>3
  <1> QED BY <1>1, <1>2, <1>6, <1>7, Names

\* A step in which the context that core c runs changes only its own pc, its
\* disable_preemption_count and its waitOn.
LEMMA LocalInv ==
    ASSUME ThreadsInv, NEW c \in Core, NEW me \in Ctx,
           me = current[c], prev[c] = Null,
           UNCHANGED <<current, prev, ready, reaper, waiting, woken, victim, rsp0,
                       action, cond>>,
           \A y \in Ctx \ {me} : /\ pc'[y] = pc[y] /\ dpc'[y] = dpc[y]
                                 /\ waitOn'[y] = waitOn[y],
           me \in Thread => /\ pc'[me] \notin {"free", "stopped"}
                            /\ dpc'[me] = IF waitOn'[me] # Null THEN 1 ELSE 0,
           me \in Core => /\ waitOn'[me] = Null
                          /\ dpc'[me] = IF pc'[me] \in {"loop_reap", "loop_get"}
                                        THEN 2 ELSE 1
    PROVE  QueueInv' /\ (\A t \in Thread : Placed(t)') /\ \A d \in Core : CoreInv(d)'
  <1>1. QueueInv'
    BY DEF ThreadsInv, QueueInv
  <1>2. ASSUME NEW t \in Thread PROVE Placed(t)'
    <2>1. PICK k \in Kind, w \in Ctx \cup Cond : PlacedAt(t, k, w)
      BY DEF ThreadsInv, Placed
    <2>2. t = me => k = "current" /\ w = c
      BY <2>1 DEF PlacedAt
    <2>3. PlacedAt(t, k, w)'
      BY <2>1, <2>2, Names DEF PlacedAt
    <2> QED BY <2>3 DEF Placed
  <1>3. ASSUME NEW d \in Core PROVE CoreInv(d)'
    <2>1. CoreInv(d) /\ CoreInv(c) /\ current[d] \in Ctx
      BY DEF ThreadsInv, ThreadsTypeOK
    <2>2. CASE d = c
      BY <2>1, <2>2, Names DEF CoreInv
    <2>3. CASE d # c
      <3>1. current[d] # me /\ d # me
        BY <2>3, Apart
      <3> QED BY <2>1, <3>1, Names DEF CoreInv
    <2> QED BY <2>2, <2>3
  <1> QED BY <1>1, <1>2, <1>3
\* Steps that neither allocate nor free a TCB, nor begin or end a make_thread,
\* keep the count.
LEMMA CountSame ==
    ASSUME CountInv, UNCHANGED <<nActive, halted>>,
           \A x \in Ctx : /\ (pc'[x] = "free") <=> (pc[x] = "free")
                          /\ (pc'[x] \in {"mk_reap", "mk_alloc"})
                               <=> (pc[x] \in {"mk_reap", "mk_alloc"})
    PROVE  CountInv'
  <1>1. Live' = Live /\ Making' = Making
    BY Names DEF Live, Making
  <1> QED BY <1>1 DEF CountInv

\* What the caller of an operation knows of its own context.
LEMMA Caller ==
    ASSUME ThreadsInv, NEW c \in Core, prev[c] = Null
    PROVE  /\ current[c] \in Ctx
           /\ current[c] \in Core => /\ current[c] = c /\ waitOn[c] = Null
                                     /\ dpc[c] = IF pc[c] \in {"loop_reap", "loop_get"}
                                                 THEN 2 ELSE 1
                                     /\ pc[c] \in IdlePc
           /\ current[c] \in Thread =>
                /\ pc[current[c]] \in ThreadPc \ {"free", "stopped"}
                /\ dpc[current[c]] = IF waitOn[current[c]] # Null THEN 1 ELSE 0
  <1>1. current[c] \in Ctx /\ CoreInv(c)
    BY DEF ThreadsInv, ThreadsTypeOK
  <1>2. current[c] \in Thread => pc[current[c]] \in ThreadPc \ {"free", "stopped"}
    BY Running DEF ThreadsInv, ThreadsTypeOK, PlacedAt
  <1> QED BY <1>1, <1>2 DEF CoreInv, ThreadsInv, ThreadsTypeOK

\* event_loop() switches to a ready thread.
LEMMA LoopSwitchStep ==
    ASSUME ThreadsInv, NEW c \in Core, LoopSwitch(c)
    PROVE  ThreadsInv'
  <1> USE DEF Free, Me
  <1>1. /\ current[c] = c /\ prev[c] = Null /\ dpc[c] = 2
        /\ pc[c] = "loop_get" /\ ready # <<>>
    BY Caller, Names DEF LoopSwitch, ThreadPc
  <1>2. /\ ready' = Tail(ready)
        /\ action' = [action EXCEPT ![c] = "None"]
        /\ dpc' = [dpc EXCEPT ![c] = @ + 1]
        /\ pc' = [pc EXCEPT ![c] = "loop_reap"]
        /\ current' = [current EXCEPT ![c] = Head(ready)]
        /\ prev' = [prev EXCEPT ![c] = c]
        /\ UNCHANGED <<reaper, waiting, epoch, cond, condEpoch, waitOn, woken,
                       victim, nActive, rsp0, halted>>
    BY <1>1 DEF LoopSwitch, Switch, Disable
  <1>3. /\ Head(ready) \in Ctx /\ c \in Ctx /\ c \notin Thread /\ waitOn[c] = Null
        /\ dpc'[c] = 3 /\ pc'[c] = "loop_reap" /\ action'[c] = "None"
        /\ \A y \in Ctx \ {c} : /\ pc'[y] = pc[y] /\ action'[y] = action[y]
                                /\ dpc'[y] = dpc[y] /\ waitOn'[y] = waitOn[y]
    <2>1. Head(ready) \in Ctx /\ c \in Ctx /\ c \notin Thread /\ waitOn[c] = Null
      BY <1>1, FromReady, Caller, Names
    <2>2. /\ pc \in [Ctx -> ThreadPc \cup IdlePc] /\ action \in [Ctx -> Action]
          /\ dpc \in [Ctx -> Nat]
      BY DEF ThreadsInv, ThreadsTypeOK
    <2> QED BY <1>1, <1>2, <2>1, <2>2
  <1>4. /\ current' \in [Core -> Ctx] /\ prev' \in [Core -> Ctx \cup {Null}]
        /\ ready' \in Seq(Thread)
        /\ QueueInv'
        /\ \A t \in Thread : Placed(t)'
        /\ \A d \in Core : CoreInv(d)'
    BY <1>1, <1>2, <1>3, SwitchInv, Names
  <1>5. ThreadsTypeOK'
    <2>1. action' \in [Ctx -> Action] /\ dpc' \in [Ctx -> Nat]
      BY <1>1, <1>2, <1>3 DEF ThreadsInv, ThreadsTypeOK, Action
    <2>2. /\ pc' \in [Ctx -> ThreadPc \cup IdlePc]
          /\ \A d \in Core : pc'[d] \in IdlePc
          /\ \A t \in Thread : pc'[t] \in ThreadPc
      BY <1>2, <1>3, Names DEF ThreadsInv, ThreadsTypeOK, IdlePc
    <2> QED BY <1>2, <1>4, <2>1, <2>2 DEF ThreadsInv, ThreadsTypeOK
  <1>6. CountInv'
    BY <1>1, <1>2, CountSame DEF ThreadsInv, ThreadsTypeOK
  <1> QED BY <1>4, <1>5, <1>6 DEF ThreadsInv

\* Thread::yield.
LEMMA YieldStep ==
    ASSUME ThreadsInv, NEW c \in Core, Yield(c)
    PROVE  ThreadsInv'
  <1> USE DEF Free, Me
  <1>1. PICK me \in Ctx : me = current[c]
    BY DEF ThreadsInv, ThreadsTypeOK
  <1>2. /\ me \in Thread /\ prev[c] = Null /\ dpc[me] = 0
        /\ pc[me] = "body" /\ ready # <<>> /\ waitOn[me] = Null
    BY <1>1, Caller, Names DEF Yield, InBody, IdlePc
  <1>3. /\ ready' = Tail(ready)
        /\ action' = [action EXCEPT ![me] = "Ready"]
        /\ dpc' = [dpc EXCEPT ![me] = @ + 1]
        /\ current' = [current EXCEPT ![c] = Head(ready)]
        /\ prev' = [prev EXCEPT ![c] = me]
        /\ UNCHANGED <<pc, reaper, waiting, epoch, cond, condEpoch, waitOn, woken,
                       victim, nActive, rsp0, halted>>
    BY <1>1 DEF Yield, Switch, Disable
  <1>4. /\ Head(ready) \in Ctx /\ me \notin Core
        /\ dpc'[me] = 1 /\ action'[me] = "Ready"
        /\ \A y \in Ctx \ {me} : /\ pc'[y] = pc[y] /\ action'[y] = action[y]
                                 /\ dpc'[y] = dpc[y] /\ waitOn'[y] = waitOn[y]
    BY <1>2, <1>3, FromReady, Names DEF ThreadsInv, ThreadsTypeOK
  <1>5. /\ current' \in [Core -> Ctx] /\ prev' \in [Core -> Ctx \cup {Null}]
        /\ ready' \in Seq(Thread)
        /\ QueueInv'
        /\ \A t \in Thread : Placed(t)'
        /\ \A d \in Core : CoreInv(d)'
    BY <1>1, <1>2, <1>3, <1>4, SwitchInv, Names, ZenonT(40)
  <1>6. ThreadsTypeOK'
    <2>1. action' \in [Ctx -> Action] /\ dpc' \in [Ctx -> Nat]
      BY <1>2, <1>3 DEF ThreadsInv, ThreadsTypeOK, Action
    <2> QED BY <1>3, <1>5, <2>1 DEF ThreadsInv, ThreadsTypeOK
  <1>7. CountInv'
    BY <1>3, CountFrame DEF ThreadsInv
  <1> QED BY <1>5, <1>6, <1>7 DEF ThreadsInv

\* Condition::wait when it switches.
LEMMA WaitSwitchStep ==
    ASSUME ThreadsInv, NEW c \in Core, WaitSwitch(c)
    PROVE  ThreadsInv'
  <1> USE DEF Me
  <1>1. PICK me \in Ctx : me = current[c]
    BY DEF ThreadsInv, ThreadsTypeOK
  <1>2. /\ me \in Thread /\ prev[c] = Null /\ dpc[me] = 1 /\ waitOn[me] \in Cond
        /\ pc[me] \in ThreadPc \ {"free", "stopped"} /\ ready # <<>>
    <2>1. prev[c] = Null /\ waitOn[me] # Null /\ ready # <<>> /\ waitOn[me] \in Cond
      BY <1>1 DEF WaitSwitch, ThreadsInv, ThreadsTypeOK
    <2>2. me \notin Core
      BY <1>1, <2>1, Caller
    <2> QED BY <1>1, <2>1, <2>2, Caller, Names
  <1>3. /\ ready' = Tail(ready)
        /\ cond' = [cond EXCEPT ![me] = waitOn[me]]
        /\ action' = [action EXCEPT ![me] = "Wait"]
        /\ waitOn' = [waitOn EXCEPT ![me] = Null]
        /\ current' = [current EXCEPT ![c] = Head(ready)]
        /\ prev' = [prev EXCEPT ![c] = me]
        /\ UNCHANGED <<pc, reaper, waiting, epoch, condEpoch, dpc, woken, victim,
                       nActive, rsp0, halted>>
    BY <1>1 DEF WaitSwitch, Switch
  <1>4. /\ Head(ready) \in Ctx /\ me \notin Core
        /\ waitOn'[me] = Null /\ action'[me] = "Wait" /\ cond'[me] \in Cond
        /\ \A y \in Ctx \ {me} : /\ pc'[y] = pc[y] /\ action'[y] = action[y]
                                 /\ dpc'[y] = dpc[y] /\ waitOn'[y] = waitOn[y]
        /\ \A y \in Thread \ {me} : cond'[y] = cond[y]
    BY <1>2, <1>3, FromReady, Names DEF ThreadsInv, ThreadsTypeOK
  <1>5. /\ current' \in [Core -> Ctx] /\ prev' \in [Core -> Ctx \cup {Null}]
        /\ ready' \in Seq(Thread)
        /\ QueueInv'
        /\ \A t \in Thread : Placed(t)'
        /\ \A d \in Core : CoreInv(d)'
    BY <1>1, <1>2, <1>3, <1>4, SwitchInv, Names, ZenonT(30)
  <1>6. ThreadsTypeOK'
    BY <1>2, <1>3, <1>4, <1>5, Names DEF ThreadsInv, ThreadsTypeOK, Action
  <1>7. CountInv'
    BY <1>3, CountFrame DEF ThreadsInv
  <1> QED BY <1>5, <1>6, <1>7 DEF ThreadsInv

\* Thread::stop.
LEMMA StopStep ==
    ASSUME ThreadsInv, NEW c \in Core, Stop(c)
    PROVE  ThreadsInv'
  <1> USE DEF Free, Me
  <1>1. PICK me \in Ctx : me = current[c]
    BY DEF ThreadsInv, ThreadsTypeOK
  <1>2. /\ me \in Thread /\ prev[c] = Null /\ dpc[me] = 0
        /\ pc[me] = "body" /\ waitOn[me] = Null
    BY <1>1, Caller, Names DEF Stop, InBody, IdlePc
  <1>3. PICK h \in Ctx : \/ h = c /\ ready' = ready /\ Switch(c, h)
                         \/ ready # <<>> /\ h = Head(ready) /\ ready' = Tail(ready)
                              /\ Switch(c, h)
    <2>1. CASE ready = <<>>
      BY <2>1, Names DEF Stop
    <2>2. CASE ready # <<>>
      BY <2>2, FromReady, Names DEF Stop
    <2> QED BY <2>1, <2>2
  <1>4. /\ action' = [action EXCEPT ![me] = "Stop"]
        /\ dpc' = [dpc EXCEPT ![me] = @ + 1]
        /\ pc' = [pc EXCEPT ![me] = "stopped"]
        /\ current' = [current EXCEPT ![c] = h]
        /\ prev' = [prev EXCEPT ![c] = me]
        /\ UNCHANGED <<reaper, waiting, epoch, cond, condEpoch, waitOn, woken,
                       victim, nActive, rsp0, halted>>
    BY <1>1, <1>3 DEF Stop, Switch, Disable
  <1>5. /\ me \notin Core
        /\ dpc'[me] = 1 /\ action'[me] = "Stop" /\ pc'[me] = "stopped"
        /\ \A y \in Ctx \ {me} : /\ pc'[y] = pc[y] /\ action'[y] = action[y]
                                 /\ dpc'[y] = dpc[y] /\ waitOn'[y] = waitOn[y]
    BY <1>2, <1>4, Names DEF ThreadsInv, ThreadsTypeOK
  <1>6. /\ current' \in [Core -> Ctx] /\ prev' \in [Core -> Ctx \cup {Null}]
        /\ ready' \in Seq(Thread)
        /\ QueueInv'
        /\ \A t \in Thread : Placed(t)'
        /\ \A d \in Core : CoreInv(d)'
    <2>1. \/ h = c /\ me \in Thread /\ ready' = ready
          \/ ready # <<>> /\ h = Head(ready) /\ ready' = Tail(ready)
      BY <1>2, <1>3
    <2>2. /\ (action'[me] = "None") <=> (me \in Core)
          /\ action'[me] = "Wait" => cond'[me] \in Cond
          /\ waitOn'[me] = Null
          /\ me \in Thread => /\ dpc'[me] = 1 /\ pc'[me] # "free"
                              /\ (action'[me] = "Stop") <=> (pc'[me] = "stopped")
          /\ me \in Core => pc'[me] = "loop_reap" /\ dpc'[me] = 3
      BY <1>2, <1>4, <1>5
    <2>3. /\ UNCHANGED <<reaper, waiting, woken, victim, rsp0>>
          /\ \A y \in Thread \ {me} : cond'[y] = cond[y]
      BY <1>4
    <2> QED BY <1>1, <1>2, <1>4, <1>5, <2>1, <2>2, <2>3, SwitchInv
  <1>7. ThreadsTypeOK'
    BY <1>2, <1>4, <1>5, <1>6, Names DEF ThreadsInv, ThreadsTypeOK, Action, ThreadPc
  <1>8. CountInv'
    BY <1>2, <1>4, <1>5, CountSame DEF ThreadsInv, ThreadsTypeOK
  <1> QED BY <1>6, <1>7, <1>8 DEF ThreadsInv

\* reap() finds its queue empty.
LEMMA ReapDoneStep ==
    ASSUME ThreadsInv, NEW c \in Core, ReapDone(c)
    PROVE  ThreadsInv'
  <1> USE DEF Free, Me
  <1>1. PICK me \in Ctx : me = current[c]
    BY DEF ThreadsInv, ThreadsTypeOK
  <1>2. /\ prev[c] = Null /\ waitOn[me] = Null /\ pc[me] \in Reaping
        /\ pc' = [pc EXCEPT ![me] = AfterReap(pc[me])]
        /\ UNCHANGED <<current, prev, ready, reaper, waiting, epoch, action, cond,
                       condEpoch, dpc, waitOn, woken, victim, nActive, rsp0, halted>>
    BY <1>1 DEF ReapDone
  <1>3. /\ pc[me] = "entry_reap" => AfterReap(pc[me]) = "body"
        /\ pc[me] = "mk_reap" => AfterReap(pc[me]) = "mk_alloc"
        /\ pc[me] = "loop_reap" => AfterReap(pc[me]) = "loop_get"
    BY DEF AfterReap
  <1>4. /\ pc'[me] = AfterReap(pc[me])
        /\ \A y \in Ctx \ {me} : pc'[y] = pc[y]
    BY <1>2 DEF ThreadsInv, ThreadsTypeOK
  <1>5. /\ me \in Thread => pc'[me] \in ThreadPc \ {"free", "stopped"} /\ dpc[me] = 0
        /\ me \in Core => /\ pc'[me] \in IdlePc
                          /\ dpc[me] = IF pc'[me] \in {"loop_reap", "loop_get"} THEN 2 ELSE 1
    <2>1. CASE me \in Thread
      BY <1>1, <1>2, <1>3, <1>4, <2>1, Caller, Names DEF Reaping, ThreadPc
    <2>2. CASE me \in Core
      BY <1>1, <1>2, <1>3, <1>4, <2>2, Caller, Names DEF Reaping, IdlePc
    <2> QED BY <2>1, <2>2, Names
  <1>6. QueueInv' /\ (\A t \in Thread : Placed(t)') /\ \A d \in Core : CoreInv(d)'
    BY <1>1, <1>2, <1>4, <1>5, LocalInv, Names
  <1>7. ThreadsTypeOK'
    BY <1>2, <1>4, <1>5, Names DEF ThreadsInv, ThreadsTypeOK
  <1>8. CountInv'
    BY <1>2, <1>3, <1>4, CountSame DEF ThreadsInv, Reaping
  <1> QED BY <1>6, <1>7, <1>8 DEF ThreadsInv

\* Condition::wait with nothing else to run.
LEMMA WaitReturnStep ==
    ASSUME ThreadsInv, NEW c \in Core, WaitReturn(c)
    PROVE  ThreadsInv'
  <1> USE DEF Me
  <1>1. PICK me \in Ctx : me = current[c]
    BY DEF ThreadsInv, ThreadsTypeOK
  <1>2. /\ prev[c] = Null /\ waitOn[me] # Null
        /\ waitOn' = [waitOn EXCEPT ![me] = Null]
        /\ dpc' = [dpc EXCEPT ![me] = @ - 1]
        /\ UNCHANGED <<current, prev, pc, ready, reaper, waiting, epoch, action,
                       cond, condEpoch, woken, victim, nActive, rsp0, halted>>
    BY <1>1 DEF WaitReturn, Enable
  <1>3. /\ me \in Thread /\ me \notin Core /\ dpc[me] = 1
        /\ pc[me] \notin {"free", "stopped"}
    BY <1>1, <1>2, Caller, Names
  <1>4. /\ waitOn'[me] = Null /\ dpc'[me] = 0
        /\ \A y \in Ctx \ {me} : dpc'[y] = dpc[y] /\ waitOn'[y] = waitOn[y]
    BY <1>2, <1>3 DEF ThreadsInv, ThreadsTypeOK
  <1>5. QueueInv' /\ (\A t \in Thread : Placed(t)') /\ \A d \in Core : CoreInv(d)'
    BY <1>1, <1>2, <1>3, <1>4, LocalInv
  <1>6. ThreadsTypeOK'
    <2>1. dpc' \in [Ctx -> Nat] /\ waitOn' \in [Ctx -> Cond \cup {Null}]
      BY <1>2, <1>3 DEF ThreadsInv, ThreadsTypeOK
    <2> QED BY <1>2, <2>1 DEF ThreadsInv, ThreadsTypeOK
  <1>7. CountInv'
    BY <1>2, CountFrame DEF ThreadsInv
  <1> QED BY <1>5, <1>6, <1>7 DEF ThreadsInv

\* Condition::wait up to its unlock.
LEMMA WaitStep ==
    ASSUME ThreadsInv, NEW c \in Core, NEW cd \in Cond, Wait(c, cd)
    PROVE  ThreadsInv'
  <1> USE DEF Me
  <1>1. PICK me \in Ctx : me = current[c]
    BY DEF ThreadsInv, ThreadsTypeOK
  <1>2. /\ prev[c] = Null /\ waitOn[me] = Null /\ me \in Thread
        /\ condEpoch' = [condEpoch EXCEPT ![me] = epoch[cd]]
        /\ waitOn' = [waitOn EXCEPT ![me] = cd]
        /\ dpc' = [dpc EXCEPT ![me] = @ + 1]
        /\ UNCHANGED <<current, prev, pc, ready, reaper, waiting, epoch, action,
                       cond, woken, victim, nActive, rsp0, halted>>
    BY <1>1 DEF Wait, Disable, InClient, Free
  <1>3. me \notin Core /\ dpc[me] = 0 /\ pc[me] \notin {"free", "stopped"} /\ cd # Null
    BY <1>1, <1>2, Caller, Names
  <1>4. /\ waitOn'[me] = cd /\ dpc'[me] = 1
        /\ \A y \in Ctx \ {me} : dpc'[y] = dpc[y] /\ waitOn'[y] = waitOn[y]
    BY <1>2, <1>3 DEF ThreadsInv, ThreadsTypeOK
  <1>5. QueueInv' /\ (\A t \in Thread : Placed(t)') /\ \A d \in Core : CoreInv(d)'
    BY <1>1, <1>2, <1>3, <1>4, LocalInv
  <1>6. ThreadsTypeOK'
    <2>1. /\ dpc' \in [Ctx -> Nat] /\ waitOn' \in [Ctx -> Cond \cup {Null}]
          /\ condEpoch' \in [Thread -> Nat]
      BY <1>2, <1>3 DEF ThreadsInv, ThreadsTypeOK
    <2> QED BY <1>2, <2>1 DEF ThreadsInv, ThreadsTypeOK
  <1>7. CountInv'
    BY <1>2, CountFrame DEF ThreadsInv
  <1> QED BY <1>5, <1>6, <1>7 DEF ThreadsInv

\* A core enters event_loop().
LEMMA EnterLoopStep ==
    ASSUME ThreadsInv, NEW c \in Core, EnterLoop(c)
    PROVE  ThreadsInv'
  <1> USE DEF Free, Me
  <1>1. /\ prev[c] = Null /\ current[c] = c /\ waitOn[c] = Null
        /\ pc[c] \in {"booted", "start"}
        /\ pc' = [pc EXCEPT ![c] = "loop_reap"]
        /\ dpc' = [dpc EXCEPT ![c] = @ + 1]
        /\ UNCHANGED <<current, prev, ready, reaper, waiting, epoch, action, cond,
                       condEpoch, waitOn, woken, victim, nActive, rsp0, halted>>
    BY DEF EnterLoop, Disable
  <1>2. c \in Ctx /\ c \notin Thread /\ dpc[c] = 1
    BY <1>1, Caller, Names
  <1>3. /\ pc'[c] = "loop_reap" /\ dpc'[c] = 2
        /\ \A y \in Ctx \ {c} : pc'[y] = pc[y] /\ dpc'[y] = dpc[y]
    BY <1>1, <1>2 DEF ThreadsInv, ThreadsTypeOK
  <1>4. QueueInv' /\ (\A t \in Thread : Placed(t)') /\ \A d \in Core : CoreInv(d)'
    BY <1>1, <1>2, <1>3, LocalInv
  <1>5. ThreadsTypeOK'
    <2>1. /\ dpc' \in [Ctx -> Nat]
          /\ pc' \in [Ctx -> ThreadPc \cup IdlePc]
          /\ \A d \in Core : pc'[d] \in IdlePc
          /\ \A t \in Thread : pc'[t] \in ThreadPc
      BY <1>1, <1>2, <1>3, Names DEF ThreadsInv, ThreadsTypeOK, IdlePc
    <2> QED BY <1>1, <2>1 DEF ThreadsInv, ThreadsTypeOK
  <1>6. CountInv'
    BY <1>1, <1>3, CountSame DEF ThreadsInv
  <1> QED BY <1>4, <1>5, <1>6 DEF ThreadsInv

\* event_loop() finds nothing to run.
LEMMA LoopIdleStep ==
    ASSUME ThreadsInv, NEW c \in Core, LoopIdle(c)
    PROVE  ThreadsInv'
  <1> USE DEF Free, Me
  <1>1. /\ current[c] = c /\ prev[c] = Null /\ dpc[c] = 2 /\ waitOn[c] = Null
        /\ pc[c] = "loop_get" /\ c \in Ctx /\ c \notin Thread
    BY Caller, Names DEF LoopIdle, ThreadPc
  <1>2. /\ pc' = [pc EXCEPT ![c] = "loop_reap"]
        /\ UNCHANGED <<current, prev, ready, reaper, waiting, epoch, action, cond,
                       condEpoch, dpc, waitOn, woken, victim, nActive, rsp0, halted>>
    BY <1>1 DEF LoopIdle
  <1>3. pc'[c] = "loop_reap" /\ \A y \in Ctx \ {c} : pc'[y] = pc[y]
    BY <1>1, <1>2 DEF ThreadsInv, ThreadsTypeOK
  <1>4. QueueInv' /\ (\A t \in Thread : Placed(t)') /\ \A d \in Core : CoreInv(d)'
    BY <1>1, <1>2, <1>3, LocalInv
  <1>5. ThreadsTypeOK'
    BY <1>1, <1>2, <1>3, Names DEF ThreadsInv, ThreadsTypeOK, IdlePc
  <1>6. CountInv'
    BY <1>1, <1>2, <1>3, CountSame DEF ThreadsInv
  <1> QED BY <1>4, <1>5, <1>6 DEF ThreadsInv

\* make_thread() counts the thread it will create.
LEMMA MakeThreadStep ==
    ASSUME ThreadsInv, NEW c \in Core, MakeThread(c)
    PROVE  ThreadsInv'
  <1> USE DEF Free, Me
  <1>1. PICK me \in Ctx : me = current[c]
    BY DEF ThreadsInv, ThreadsTypeOK
  <1>2. /\ prev[c] = Null /\ waitOn[me] = Null /\ ~halted
        /\ pc[me] \in {"body", "start"}
        /\ nActive' = nActive + 1
        /\ pc' = [pc EXCEPT ![me] = "mk_reap"]
        /\ UNCHANGED <<current, prev, ready, reaper, waiting, epoch, action, cond,
                       condEpoch, dpc, waitOn, woken, victim, rsp0, halted>>
    BY <1>1 DEF MakeThread, Activate
  <1>3. pc'[me] = "mk_reap" /\ \A y \in Ctx \ {me} : pc'[y] = pc[y]
    BY <1>2 DEF ThreadsInv, ThreadsTypeOK
  <1>4. /\ me \in Thread => dpc[me] = 0
        /\ me \in Core => dpc[me] = 1
    BY <1>1, <1>2, Caller, Names
  <1>5. QueueInv' /\ (\A t \in Thread : Placed(t)') /\ \A d \in Core : CoreInv(d)'
    BY <1>1, <1>2, <1>3, <1>4, LocalInv
  <1>6. ThreadsTypeOK'
    <2>1. /\ pc' \in [Ctx -> ThreadPc \cup IdlePc]
          /\ \A d \in Core : pc'[d] \in IdlePc
          /\ \A t \in Thread : pc'[t] \in ThreadPc
      BY <1>2, <1>3, Names DEF ThreadsInv, ThreadsTypeOK, IdlePc, ThreadPc
    <2> QED BY <1>2, <2>1 DEF ThreadsInv, ThreadsTypeOK
  <1>7. CountInv'
    <2>1. Live' = Live
      BY <1>2, <1>3, Names DEF Live
    <2>2. Making' = Making \cup {me} /\ me \notin Making /\ IsFiniteSet(Making)
      BY <1>2, <1>3, Names, FS_Subset DEF Making
    <2>3. Cardinality(Making') = Cardinality(Making) + 1
      BY <2>2, FS_AddElement
    <2>4. Cardinality(Live) \in Nat /\ Cardinality(Making) \in Nat
      BY <2>2, Names, FS_Subset, FS_CardinalityType DEF Live
    <2> QED BY <1>2, <2>1, <2>3, <2>4 DEF CountInv, ThreadsInv
  <1> QED BY <1>5, <1>6, <1>7 DEF ThreadsInv

\* Steps that change neither what the cores run nor what the contexts they run
\* depend on.
LEMMA CoreFrame ==
    ASSUME ThreadsInv,
           UNCHANGED <<current, prev, action, cond, waitOn, rsp0>>,
           \A d \in Core : /\ dpc'[d] = dpc[d]
                           /\ dpc'[current[d]] = dpc[current[d]]
                           /\ \/ pc'[d] = pc[d]
                              \/ /\ current[d] = d /\ prev[d] = Null
                                 /\ pc[d] \notin {"loop_reap", "loop_get"}
                                 /\ pc'[d] \notin {"loop_reap", "loop_get"}
    PROVE  \A d \in Core : CoreInv(d)'
  <1> SUFFICES ASSUME NEW d \in Core PROVE CoreInv(d)'
    OBVIOUS
  <1>1. CoreInv(d)
    BY DEF ThreadsInv
  <1>2. CASE pc'[d] = pc[d]
    BY <1>1, <1>2 DEF CoreInv
  <1>3. CASE /\ current[d] = d /\ prev[d] = Null
             /\ pc[d] \notin {"loop_reap", "loop_get"}
             /\ pc'[d] \notin {"loop_reap", "loop_get"}
    BY <1>1, <1>3 DEF CoreInv
  <1> QED BY <1>2, <1>3

\* reap() takes a TCB off the reaper queue.
LEMMA ReapRemoveStep ==
    ASSUME ThreadsInv, NEW c \in Core, ReapRemove(c)
    PROVE  ThreadsInv'
  <1> USE DEF Free, Me
  <1>1. PICK me \in Ctx : me = current[c]
    BY DEF ThreadsInv, ThreadsTypeOK
  <1>2. /\ victim[me] = Null /\ reaper # <<>>
        /\ reaper' = Tail(reaper)
        /\ victim' = [victim EXCEPT ![me] = Head(reaper)]
        /\ UNCHANGED <<current, prev, pc, ready, waiting, epoch, action, cond,
                       condEpoch, dpc, waitOn, woken, nActive, rsp0, halted>>
    BY <1>1 DEF ReapRemove
  <1>3. PICK v \in Thread : v = Head(reaper)
    BY <1>2, TailFacts DEF ThreadsInv, ThreadsTypeOK
  <1>4. /\ v \in Range(reaper) /\ reaper' \in Seq(Thread) /\ IsInjective(reaper')
        /\ Range(reaper') = Range(reaper) \ {v}
    BY <1>2, <1>3, TailFacts DEF ThreadsInv, ThreadsTypeOK, QueueInv
  <1>5. ThreadsTypeOK' /\ QueueInv'
    BY <1>2, <1>3, <1>4 DEF ThreadsInv, ThreadsTypeOK, QueueInv
  <1>6. ASSUME NEW t \in Thread PROVE Placed(t)'
    <2>1. PICK k \in Kind, w \in Ctx \cup Cond : PlacedAt(t, k, w)
      BY DEF ThreadsInv, Placed
    <2>2. CASE t = v
      <3>1. k = "reaper"
        BY <1>4, <2>1, <2>2 DEF PlacedAt
      <3>2. \A x \in Ctx : (victim'[x] = t) <=> (x = me)
        BY <1>2, <1>3, <2>1, <2>2, <3>1 DEF PlacedAt, ThreadsInv, ThreadsTypeOK
      <3>3. PlacedAt(t, "victim", me)'
        BY <1>2, <1>4, <2>1, <2>2, <3>1, <3>2 DEF PlacedAt
      <3> QED BY <3>3 DEF Placed, Kind
    <2>3. CASE t # v
      <3>1. \A x \in Ctx : (victim'[x] = t) <=> (victim[x] = t)
        BY <1>2, <1>3, <2>3, Names DEF ThreadsInv, ThreadsTypeOK
      <3>2. PlacedAt(t, k, w)'
        BY <1>2, <1>4, <2>1, <2>3, <3>1 DEF PlacedAt
      <3> QED BY <3>2 DEF Placed
    <2> QED BY <2>2, <2>3
  <1>7. \A d \in Core : CoreInv(d)'
    BY <1>2, CoreFrame
  <1>8. CountInv'
    BY <1>2, CountFrame DEF ThreadsInv
  <1> QED BY <1>5, <1>6, <1>7, <1>8 DEF ThreadsInv

\* reap() returns a TCB to the heap.
LEMMA ReapFreeStep ==
    ASSUME ThreadsInv, NEW c \in Core, ReapFree(c)
    PROVE  ThreadsInv'
  <1> USE DEF Free, Me
  <1>1. PICK me \in Ctx : me = current[c]
    BY DEF ThreadsInv, ThreadsTypeOK
  <1>2. PICK v \in Thread : v = victim[me]
    BY <1>1, Names DEF ReapFree, ThreadsInv, ThreadsTypeOK
  <1>3. /\ pc' = [pc EXCEPT ![v] = "free"]
        /\ victim' = [victim EXCEPT ![me] = Null]
        /\ nActive' = nActive - 1
        /\ halted' = (nActive = 1)
        /\ UNCHANGED <<current, prev, ready, reaper, waiting, epoch, action, cond,
                       condEpoch, dpc, waitOn, woken, rsp0>>
    BY <1>1, <1>2 DEF ReapFree
  <1>4. PlacedAt(v, "victim", me)
    <2>1. PICK k \in Kind, w \in Ctx \cup Cond : PlacedAt(v, k, w)
      BY DEF ThreadsInv, Placed
    <2>2. k = "victim" /\ w = me
      BY <1>2, <2>1 DEF PlacedAt
    <2> QED BY <2>1, <2>2
  <1>5. /\ pc'[v] = "free" /\ pc[v] = "stopped"
        /\ \A y \in Ctx \ {v} : pc'[y] = pc[y]
    BY <1>3, <1>4, Names DEF PlacedAt, ThreadsInv, ThreadsTypeOK
  <1>6. CountInv' /\ nActive' \in Nat
    <2>1. Making' = Making /\ IsFiniteSet(Making)
      BY <1>5, Names, FS_Subset DEF Making
    <2>2. Live' = Live \ {v} /\ v \in Live /\ IsFiniteSet(Live)
      BY <1>5, Names, FS_Subset DEF Live
    <2>3. Cardinality(Live') = Cardinality(Live) - 1
      BY <2>2, FS_RemoveElement
    <2>4. /\ Cardinality(Live) \in Nat /\ Cardinality(Making) \in Nat
          /\ Cardinality(Live') \in Nat
      BY <2>1, <2>2, FS_CardinalityType, FS_RemoveElement
    <2>5. nActive' = Cardinality(Live') + Cardinality(Making')
      BY <1>3, <2>1, <2>3, <2>4 DEF CountInv, ThreadsInv
    <2>6. halted' => nActive' = 0
      <3>1. halted' => nActive = 1
        BY <1>3, Zenon
      <3> QED BY <1>3, <3>1
    <2> QED BY <2>1, <2>4, <2>5, <2>6 DEF CountInv
  <1>7. ThreadsTypeOK'
    <2>1. /\ pc' \in [Ctx -> ThreadPc \cup IdlePc]
          /\ \A d \in Core : pc'[d] \in IdlePc
          /\ \A t \in Thread : pc'[t] \in ThreadPc
      BY <1>3, <1>5, Names DEF ThreadsInv, ThreadsTypeOK, ThreadPc
    <2>2. victim' \in [Ctx -> Thread \cup {Null}] /\ halted' \in BOOLEAN
      BY <1>3 DEF ThreadsInv, ThreadsTypeOK
    <2> QED BY <1>3, <1>6, <2>1, <2>2 DEF ThreadsInv, ThreadsTypeOK
  <1>8. QueueInv'
    BY <1>3 DEF ThreadsInv, QueueInv
  <1>9. ASSUME NEW t \in Thread PROVE Placed(t)'
    <2>1. PICK k \in Kind, w \in Ctx \cup Cond : PlacedAt(t, k, w)
      BY DEF ThreadsInv, Placed
    <2>2. CASE t = v
      <3>1. \A x \in Ctx : victim'[x] # t
        BY <1>3, <1>4, <2>2, Names, SMTT(30) DEF PlacedAt, ThreadsInv, ThreadsTypeOK
      <3>2. PlacedAt(t, "free", me)'
        BY <1>3, <1>4, <1>5, <2>2, <3>1 DEF PlacedAt
      <3> QED BY <3>2 DEF Placed, Kind
    <2>3. CASE t # v
      <3>1. \A x \in Ctx : (victim'[x] = t) <=> (victim[x] = t)
        BY <1>2, <1>3, <2>3, Names DEF ThreadsInv, ThreadsTypeOK
      <3>2. pc'[t] = pc[t]
        BY <1>5, <2>3, Names
      <3>3. PlacedAt(t, k, w)'
        BY <1>3, <2>1, <3>1, <3>2 DEF PlacedAt
      <3> QED BY <3>3 DEF Placed
    <2> QED BY <2>2, <2>3
  <1>10. \A d \in Core : CoreInv(d)'
    BY <1>3, <1>5, CoreFrame, Names
  <1> QED BY <1>6, <1>7, <1>8, <1>9, <1>10 DEF ThreadsInv

\* make_thread() puts a new TCB on the ready queue.
LEMMA MakeThreadAddStep ==
    ASSUME ThreadsInv, NEW c \in Core, NEW n \in Thread, MakeThreadAdd(c, n)
    PROVE  ThreadsInv'
  <1> USE DEF Free, Me
  <1>1. PICK me \in Ctx : me = current[c]
    BY DEF ThreadsInv, ThreadsTypeOK
  <1>2. /\ prev[c] = Null /\ pc[me] = "mk_alloc" /\ pc[n] = "free" /\ me # n /\ ~halted
        /\ pc' = [pc EXCEPT ![n] = "entry_reap",
                            ![me] = IF me \in Core THEN "booted" ELSE "body"]
        /\ dpc' = [dpc EXCEPT ![n] = 1]
        /\ ready' = Append(ready, n)
        /\ UNCHANGED <<current, prev, reaper, waiting, epoch, action, cond,
                       condEpoch, waitOn, woken, victim, nActive, rsp0, halted>>
    BY <1>1 DEF MakeThreadAdd
  <1>3. PICK w0 \in Ctx \cup Cond : PlacedAt(n, "free", w0)
    BY <1>2 DEF ThreadsInv, Placed, PlacedAt
  <1>4. /\ pc'[n] = "entry_reap"
        /\ pc'[me] = IF me \in Core THEN "booted" ELSE "body"
        /\ \A y \in Ctx \ {n, me} : pc'[y] = pc[y]
        /\ \A y \in Ctx \ {n} : dpc'[y] = dpc[y]
        /\ dpc'[n] = 1
    BY <1>2, Names DEF ThreadsInv, ThreadsTypeOK
  <1>5. /\ ready' \in Seq(Thread) /\ IsInjective(ready')
        /\ Range(ready') = Range(ready) \cup {n}
    BY <1>2, <1>3, AppendFacts DEF PlacedAt, ThreadsInv, ThreadsTypeOK, QueueInv
  <1>6. QueueInv'
    BY <1>2, <1>5 DEF ThreadsInv, QueueInv
  <1>7. ThreadsTypeOK'
    <2>1. /\ pc' \in [Ctx -> ThreadPc \cup IdlePc]
          /\ \A d \in Core : pc'[d] \in IdlePc
          /\ \A t \in Thread : pc'[t] \in ThreadPc
      <3>1. pc'[me] \in ThreadPc \cup IdlePc /\ pc'[n] \in ThreadPc
        BY <1>4 DEF ThreadPc, IdlePc
      <3>2. /\ me \in Core => pc'[me] \in IdlePc
            /\ me \in Thread => pc'[me] \in ThreadPc
        BY <1>4, Names DEF ThreadPc, IdlePc
      <3>3. pc' \in [Ctx -> ThreadPc \cup IdlePc]
        BY <1>2, <1>4, <3>1 DEF ThreadsInv, ThreadsTypeOK
      <3>4. \A x \in Ctx \ {n, me} : pc'[x] = pc[x]
        BY <1>4
      <3> QED BY <3>1, <3>2, <3>3, <3>4, Names, ZenonT(40) DEF ThreadsInv, ThreadsTypeOK
    <2>2. dpc' \in [Ctx -> Nat]
      BY <1>2 DEF ThreadsInv, ThreadsTypeOK
    <2> QED BY <1>2, <1>5, <2>1, <2>2 DEF ThreadsInv, ThreadsTypeOK
  <1>8. ASSUME NEW t \in Thread PROVE Placed(t)'
    <2>1. CASE t = n
      <3>1. PlacedAt(t, "ready", me)'
        BY <1>2, <1>3, <1>4, <1>5, <2>1 DEF PlacedAt
      <3> QED BY <3>1 DEF Placed, Kind
    <2>2. CASE t # n
      <3>1. PICK k \in Kind, w \in Ctx \cup Cond : PlacedAt(t, k, w)
        BY DEF ThreadsInv, Placed
      <3>2. t = me => k = "current" /\ pc'[t] = "body"
        BY <1>1, <1>4, <3>1, Names DEF PlacedAt
      <3>3. dpc'[t] = dpc[t] /\ (t # me => pc'[t] = pc[t])
        BY <1>4, <2>2, Names
      <3>4. PlacedAt(t, k, w)'
        BY <1>2, <1>5, <2>2, <3>1, <3>2, <3>3 DEF PlacedAt
      <3> QED BY <3>4 DEF Placed
    <2> QED BY <2>1, <2>2
  <1>9. \A d \in Core : CoreInv(d)'
    <2>1. \A d \in Core : current[d] \in Ctx /\ current[d] # n /\ d # n
      BY <1>3, Names DEF PlacedAt, ThreadsInv, ThreadsTypeOK
    <2>2. ASSUME NEW d \in Core, d = me
          PROVE  /\ current[d] = d /\ prev[d] = Null
                 /\ pc[d] \notin {"loop_reap", "loop_get"}
                 /\ pc'[d] \notin {"loop_reap", "loop_get"}
      BY <1>1, <1>2, <1>4, <2>2, Caller
    <2>3. \A d \in Core : d # me => pc'[d] = pc[d]
      BY <1>4, <2>1, Names
    <2>4. \A d \in Core : dpc'[d] = dpc[d] /\ dpc'[current[d]] = dpc[current[d]]
      BY <1>4, <2>1, Names
    <2> QED BY <1>2, <2>2, <2>3, <2>4, CoreFrame
  <1>10. CountInv'
    <2>1. Live' = Live \cup {n} /\ n \notin Live /\ IsFiniteSet(Live)
      <3>1. me \in Thread => pc[me] # "free" /\ pc'[me] # "free"
        BY <1>2, <1>4
      <3>2. \A y \in Thread : (pc'[y] # "free") <=> (pc[y] # "free" \/ y = n)
        BY <1>4, <3>1, Names
      <3>3. Live \subseteq Thread /\ n \notin Live
        BY <1>2 DEF Live
      <3>4. Live' = Live \cup {n}
        BY <3>2 DEF Live
      <3> QED BY <3>3, <3>4, Names, FS_Subset
    <2>2. Making' = Making \ {me} /\ me \in Making /\ IsFiniteSet(Making)
      <3>1. \A y \in Ctx : (pc'[y] \in {"mk_reap", "mk_alloc"})
                              <=> (pc[y] \in {"mk_reap", "mk_alloc"} /\ y # me)
        <4> SUFFICES ASSUME NEW y \in Ctx
                     PROVE  (pc'[y] \in {"mk_reap", "mk_alloc"})
                              <=> (pc[y] \in {"mk_reap", "mk_alloc"} /\ y # me)
          OBVIOUS
        <4>1. CASE y = n
          BY <1>2, <1>4, <4>1
        <4>2. CASE y = me
          BY <1>4, <4>2
        <4>3. CASE y \notin {n, me}
          BY <1>4, <4>3
        <4> QED BY <4>1, <4>2, <4>3
      <3>2. Making \subseteq Ctx /\ me \in Making
        BY <1>2 DEF Making
      <3>3. Making' = Making \ {me}
        BY <3>1 DEF Making
      <3> QED BY <3>2, <3>3, Names, FS_Subset
    <2>3. Cardinality(Live') = Cardinality(Live) + 1
      BY <2>1, FS_AddElement
    <2>4. Cardinality(Making') = Cardinality(Making) - 1
      BY <2>2, FS_RemoveElement
    <2>5. Cardinality(Live) \in Nat /\ Cardinality(Making) \in Nat
      BY <2>1, <2>2, FS_CardinalityType
    <2> QED BY <1>2, <2>3, <2>4, <2>5 DEF CountInv, ThreadsInv
  <1> QED BY <1>6, <1>7, <1>8, <1>9, <1>10 DEF ThreadsInv

\* A notifier hands a thread to the ready queue.
LEMMA WakeStep ==
    ASSUME ThreadsInv, NEW c \in Core, Wake(c)
    PROVE  ThreadsInv'
  <1> USE DEF Me
  <1>1. PICK me \in Ctx : me = current[c]
    BY DEF ThreadsInv, ThreadsTypeOK
  <1>2. /\ woken[me] # <<>> /\ woken[me] \in Seq(Thread) /\ IsInjective(woken[me])
        /\ ready' = Append(ready, Head(woken[me]))
        /\ woken' = [woken EXCEPT ![me] = Tail(woken[me])]
        /\ UNCHANGED <<current, prev, pc, reaper, waiting, epoch, action, cond,
                       condEpoch, dpc, waitOn, victim, nActive, rsp0, halted>>
    BY <1>1 DEF Wake, ThreadsInv, ThreadsTypeOK, QueueInv
  <1>3. PICK h \in Thread : h = Head(woken[me])
    BY <1>2, TailFacts
  <1>4. /\ h \in Range(woken[me])
        /\ Tail(woken[me]) \in Seq(Thread) /\ IsInjective(Tail(woken[me]))
        /\ Range(Tail(woken[me])) = Range(woken[me]) \ {h}
    BY <1>2, <1>3, TailFacts
  <1>5. PlacedAt(h, "woken", me)
    <2>1. PICK k \in Kind, w \in Ctx \cup Cond : PlacedAt(h, k, w)
      BY DEF ThreadsInv, Placed
    <2>2. k = "woken" /\ w = me
      BY <1>4, <2>1 DEF PlacedAt
    <2> QED BY <2>1, <2>2
  <1>6. /\ ready' \in Seq(Thread) /\ IsInjective(ready')
        /\ Range(ready') = Range(ready) \cup {h}
    BY <1>2, <1>3, <1>5, AppendFacts DEF PlacedAt, ThreadsInv, ThreadsTypeOK, QueueInv
  <1>7. /\ woken' \in [Ctx -> Seq(Thread)]
        /\ woken'[me] = Tail(woken[me])
        /\ \A x \in Ctx \ {me} : woken'[x] = woken[x]
    BY <1>2, <1>4 DEF ThreadsInv, ThreadsTypeOK
  <1>8. ThreadsTypeOK'
    BY <1>2, <1>6, <1>7 DEF ThreadsInv, ThreadsTypeOK
  <1>9. QueueInv'
    BY <1>2, <1>4, <1>6, <1>7 DEF ThreadsInv, QueueInv
  <1>10. ASSUME NEW t \in Thread PROVE Placed(t)'
    <2>1. CASE t = h
      <3>1. \A x \in Ctx : t \notin Range(woken'[x])
        BY <1>4, <1>5, <1>7, <2>1 DEF PlacedAt
      <3>2. PlacedAt(t, "ready", me)'
        BY <1>2, <1>5, <1>6, <2>1, <3>1 DEF PlacedAt
      <3> QED BY <3>2 DEF Placed, Kind
    <2>2. CASE t # h
      <3>1. PICK k \in Kind, w \in Ctx \cup Cond : PlacedAt(t, k, w)
        BY DEF ThreadsInv, Placed
      <3>2. \A x \in Ctx : (t \in Range(woken'[x])) <=> (t \in Range(woken[x]))
        BY <1>4, <1>7, <2>2
      <3>3. PlacedAt(t, k, w)'
        BY <1>2, <1>6, <2>2, <3>1, <3>2 DEF PlacedAt
      <3> QED BY <3>3 DEF Placed
    <2> QED BY <2>1, <2>2
  <1>11. \A d \in Core : CoreInv(d)'
    BY <1>2, CoreFrame
  <1>12. CountInv'
    BY <1>2, CountFrame DEF ThreadsInv
  <1> QED BY <1>8, <1>9, <1>10, <1>11, <1>12 DEF ThreadsInv

\* A notifier takes the threads of s off the queue of condition cd: what
\* notify_one and notify_all have in common.
LEMMA NotifyInv ==
    ASSUME ThreadsInv, NEW me \in Ctx, NEW cd \in Cond, NEW s \in Seq(Thread),
           NEW rest \in Seq(Thread),
           woken[me] = <<>>, epoch[cd] \in Nat,
           IsInjective(s), IsInjective(rest),
           Range(waiting[cd]) = Range(s) \cup Range(rest),
           Range(s) \cap Range(rest) = {},
           epoch' = [epoch EXCEPT ![cd] = @ + 1],
           waiting' = [waiting EXCEPT ![cd] = rest],
           woken' = [woken EXCEPT ![me] = s],
           UNCHANGED <<current, prev, pc, ready, reaper, action, cond, condEpoch,
                       dpc, waitOn, victim, nActive, rsp0, halted>>
    PROVE  ThreadsInv'
  <1>1. /\ woken' \in [Ctx -> Seq(Thread)] /\ woken'[me] = s
        /\ \A x \in Ctx \ {me} : woken'[x] = woken[x]
        /\ waiting' \in [Cond -> Seq(Thread)] /\ waiting'[cd] = rest
        /\ \A e \in Cond \ {cd} : waiting'[e] = waiting[e]
        /\ epoch' \in [Cond -> Nat]
    BY DEF ThreadsInv, ThreadsTypeOK
  <1>2. ThreadsTypeOK'
    BY <1>1 DEF ThreadsInv, ThreadsTypeOK
  <1>3. QueueInv'
    BY <1>1 DEF ThreadsInv, QueueInv
  <1>4. Range(woken[me]) = {}
    BY ShortFacts
  <1>5. ASSUME NEW t \in Thread PROVE Placed(t)'
    <2>1. PICK k \in Kind, w \in Ctx \cup Cond : PlacedAt(t, k, w)
      BY DEF ThreadsInv, Placed
    <2>2. CASE t \in Range(s)
      <3>1. k = "waiting" /\ w = cd
        BY <2>1, <2>2 DEF PlacedAt
      <3>2. \A x \in Ctx : (t \in Range(woken'[x])) <=> (x = me)
        BY <1>1, <2>1, <2>2, <3>1 DEF PlacedAt
      <3>3. \A e \in Cond : t \notin Range(waiting'[e])
        BY <1>1, <2>1, <2>2, <3>1 DEF PlacedAt
      <3>4. PlacedAt(t, "woken", me)'
        BY <2>1, <3>1, <3>2, <3>3 DEF PlacedAt
      <3> QED BY <3>4 DEF Placed, Kind
    <2>3. CASE t \notin Range(s)
      <3>1. \A x \in Ctx : (t \in Range(woken'[x])) <=> (t \in Range(woken[x]))
        BY <1>1, <1>4, <2>3
      <3>2. \A e \in Cond : (t \in Range(waiting'[e])) <=> (t \in Range(waiting[e]))
        BY <1>1, <2>3
      <3>3. PlacedAt(t, k, w)'
        BY <2>1, <3>1, <3>2 DEF PlacedAt
      <3> QED BY <3>3 DEF Placed
    <2> QED BY <2>2, <2>3
  <1>6. \A d \in Core : CoreInv(d)'
    BY CoreFrame
  <1>7. CountInv'
    BY CountFrame DEF ThreadsInv
  <1> QED BY <1>2, <1>3, <1>5, <1>6, <1>7 DEF ThreadsInv

\* Condition::notify_one.
LEMMA NotifyOneStep ==
    ASSUME ThreadsInv, NEW c \in Core, NEW cd \in Cond, NotifyOne(c, cd)
    PROVE  ThreadsInv'
  <1> USE DEF Me
  <1>1. PICK me \in Ctx : me = current[c]
    BY DEF ThreadsInv, ThreadsTypeOK
  <1>2. /\ waiting[cd] \in Seq(Thread) /\ IsInjective(waiting[cd])
        /\ woken[me] = <<>> /\ epoch[cd] \in Nat
        /\ waiting \in [Cond -> Seq(Thread)] /\ woken \in [Ctx -> Seq(Thread)]
    BY <1>1 DEF NotifyOne, InClient, Free, ThreadsInv, ThreadsTypeOK, QueueInv
  <1>3. /\ epoch' = [epoch EXCEPT ![cd] = @ + 1]
        /\ UNCHANGED <<current, prev, pc, ready, reaper, action, cond, condEpoch,
                       dpc, waitOn, victim, nActive, rsp0, halted>>
    BY DEF NotifyOne
  <1>4. CASE waiting[cd] = <<>>
    <2>1. /\ waiting' = [waiting EXCEPT ![cd] = <<>>]
          /\ woken' = [woken EXCEPT ![me] = <<>>]
      BY <1>2, <1>4 DEF NotifyOne
    <2>2. <<>> \in Seq(Thread) /\ Range(waiting[cd]) = {}
      BY <1>4, ShortFacts
    <2> QED BY <1>2, <1>3, <2>1, <2>2, ShortFacts, NotifyInv
  <1>5. CASE waiting[cd] # <<>>
    <2>1. PICK h \in Thread : h = Head(waiting[cd])
      BY <1>2, <1>5, TailFacts
    <2>2. /\ waiting' = [waiting EXCEPT ![cd] = Tail(waiting[cd])]
          /\ woken' = [woken EXCEPT ![me] = <<h>>]
      BY <1>1, <1>5, <2>1 DEF NotifyOne
    <2>3. /\ Tail(waiting[cd]) \in Seq(Thread) /\ IsInjective(Tail(waiting[cd]))
          /\ Range(Tail(waiting[cd])) = Range(waiting[cd]) \ {h}
          /\ h \in Range(waiting[cd])
      BY <1>2, <1>5, <2>1, TailFacts
    <2>4. <<h>> \in Seq(Thread) /\ Range(<<h>>) = {h} /\ IsInjective(<<h>>)
      BY ShortFacts
    <2>5. /\ Range(waiting[cd]) = Range(<<h>>) \cup Range(Tail(waiting[cd]))
          /\ Range(<<h>>) \cap Range(Tail(waiting[cd])) = {}
      BY <2>3, <2>4
    <2> QED BY <1>2, <1>3, <2>2, <2>3, <2>4, <2>5, NotifyInv
  <1> QED BY <1>4, <1>5

\* Condition::notify_all.
LEMMA NotifyAllStep ==
    ASSUME ThreadsInv, NEW c \in Core, NEW cd \in Cond, NotifyAll(c, cd)
    PROVE  ThreadsInv'
  <1> USE DEF Me
  <1>1. PICK me \in Ctx : me = current[c]
    BY DEF ThreadsInv, ThreadsTypeOK
  <1>2. /\ waiting[cd] \in Seq(Thread) /\ IsInjective(waiting[cd])
        /\ woken[me] = <<>> /\ epoch[cd] \in Nat
    BY <1>1 DEF NotifyAll, InClient, Free, ThreadsInv, ThreadsTypeOK, QueueInv
  <1>3. /\ epoch' = [epoch EXCEPT ![cd] = @ + 1]
        /\ waiting' = [waiting EXCEPT ![cd] = <<>>]
        /\ woken' = [woken EXCEPT ![me] = waiting[cd]]
        /\ UNCHANGED <<current, prev, pc, ready, reaper, action, cond, condEpoch,
                       dpc, waitOn, victim, nActive, rsp0, halted>>
    BY <1>1 DEF NotifyAll
  <1>4. /\ <<>> \in Seq(Thread) /\ Range(<<>>) = {} /\ IsInjective(<<>>)
        /\ Range(waiting[cd]) = Range(waiting[cd]) \cup Range(<<>>)
        /\ Range(waiting[cd]) \cap Range(<<>>) = {}
    BY ShortFacts
  <1> QED BY <1>2, <1>3, <1>4, NotifyInv

-----------------------------------------------------------------------------
(***************************************************************************)
(* The invariant and what follows from it.                                 *)
(***************************************************************************)

\* The invariant holds when the cores come up.
LEMMA InitInv == ThreadsInit => ThreadsInv
  <1> SUFFICES ASSUME ThreadsInit PROVE ThreadsInv
    OBVIOUS
  <1>1. ThreadsTypeOK
    <2>1. pc \in [Ctx -> ThreadPc \cup IdlePc] /\ action \in [Ctx -> Action]
      BY DEF ThreadsInit, ThreadPc, IdlePc, Action
    <2>2. \A c \in Core : pc[c] = "start" /\ pc[c] \in IdlePc
      BY Names DEF ThreadsInit, IdlePc
    <2>3. \A t \in Thread : pc[t] \in ThreadPc
      BY Names DEF ThreadsInit, ThreadPc
    <2>4. /\ current \in [Core -> Ctx] /\ prev \in [Core -> Ctx \cup {Null}]
          /\ rsp0 \in [Core -> Thread \cup {Null}]
          /\ ready \in Seq(Thread) /\ reaper \in Seq(Thread)
      BY Names DEF ThreadsInit
    <2>5. /\ waiting \in [Cond -> Seq(Thread)] /\ epoch \in [Cond -> Nat]
          /\ cond \in [Thread -> Cond \cup {Null}] /\ condEpoch \in [Thread -> Nat]
      BY DEF ThreadsInit
    <2>6. /\ dpc \in [Ctx -> Nat] /\ waitOn \in [Ctx -> Cond \cup {Null}]
          /\ woken \in [Ctx -> Seq(Thread)] /\ victim \in [Ctx -> Thread \cup {Null}]
          /\ nActive \in Nat
      BY DEF ThreadsInit
    <2>7. halted \in BOOLEAN
      BY Zenon DEF ThreadsInit
    <2> QED BY <2>1, <2>2, <2>3, <2>4, <2>5, <2>6, <2>7 DEF ThreadsTypeOK
  <1>2. QueueInv
    BY ShortFacts DEF ThreadsInit, QueueInv
  <1>3. ASSUME NEW t \in Thread PROVE Placed(t)
    <2>1. t \in Ctx /\ t \notin Core /\ t # Null /\ Bsp \in Ctx
      BY Names
    <2>2. PlacedAt(t, "free", Bsp)
      BY <2>1, Names, ShortFacts DEF ThreadsInit, PlacedAt
    <2> QED BY <2>1, <2>2 DEF Placed, Kind
  <1>4. ASSUME NEW c \in Core PROVE CoreInv(c)
    BY Names DEF ThreadsInit, CoreInv
  <1>5. CountInv
    <2>1. Live = {} /\ Making = {}
      BY Names DEF ThreadsInit, Live, Making
    <2> QED BY <2>1, FS_EmptySet DEF ThreadsInit, CountInv
  <1> QED BY <1>1, <1>2, <1>3, <1>4, <1>5 DEF ThreadsInv

\* Every step preserves it.
LEMMA NextInv == ThreadsInv /\ [ThreadsNext]_threadVars => ThreadsInv'
  <1> SUFFICES ASSUME ThreadsInv, [ThreadsNext]_threadVars PROVE ThreadsInv'
    OBVIOUS
  <1>1. ASSUME NEW c \in Core, KernelStep(c) PROVE ThreadsInv'
    BY <1>1, PostSwitchStep, ReapRemoveStep, ReapFreeStep, ReapDoneStep,
       MakeThreadAddStep, WaitReturnStep, WaitSwitchStep, WakeStep, EnterLoopStep,
       LoopSwitchStep, LoopIdleStep DEF KernelStep
  <1>2. ASSUME NEW c \in Core, ClientStep(c) PROVE ThreadsInv'
    BY <1>2, MakeThreadStep, YieldStep, StopStep, WaitStep, NotifyOneStep,
       NotifyAllStep DEF ClientStep
  <1>3. CASE UNCHANGED threadVars
    BY <1>3 DEF threadVars, ThreadsInv, ThreadsTypeOK, QueueInv, Placed, PlacedAt,
       CoreInv, CountInv, Live, Making
  <1> QED BY <1>1, <1>2, <1>3 DEF ThreadsNext, PowerOff

\* ThreadsInv is an invariant of the specification.
THEOREM ThreadsInvariant == ThreadsSpec => []ThreadsInv
  BY InitInv, NextInv, PTL DEF ThreadsSpec

\* Type correctness: every variable of the thread system stays within its type
\* for every number of cores, threads and conditions.
THEOREM ThreadsType == ThreadsSpec => []ThreadsTypeOK
  <1>1. ThreadsInv => ThreadsTypeOK
    BY DEF ThreadsInv
  <1> QED BY <1>1, ThreadsInvariant, PTL

\* tss.rsp0 belongs to the running thread, on every core.
THEOREM ThreadsKernelStack == ThreadsSpec => []KernelStack
  <1>1. ThreadsInv => KernelStack
    BY DEF ThreadsInv, CoreInv, KernelStack
  <1> QED BY <1>1, ThreadsInvariant, PTL

\* The assertions of thread.cc and condition.h never fail.
THEOREM ThreadsAssertions == ThreadsSpec => []AssertionsHold
  <1>1. ASSUME ThreadsInv, NEW c \in Core
        PROVE  LET x == current[c]  p == prev[c] IN
               /\ p # Null =>
                    /\ (action[p] = "None") = (p \in Core)
                    /\ action[p] = "Wait" => cond[p] # Null
                    /\ dpc[x] > 0
                    /\ p # x
               /\ x \in Thread =>
                    dpc[x] = IF prev[c] # Null \/ waitOn[x] # Null THEN 1 ELSE 0
               /\ pc[c] \in {"loop_reap", "loop_get"} => dpc[c] >= 2
    <2>1. CoreInv(c) /\ current[c] \in Ctx /\ prev[c] \in Ctx \cup {Null}
      BY <1>1 DEF ThreadsInv, ThreadsTypeOK
    <2>2. current[c] \in Thread => prev[c] # current[c]
      BY <1>1, Running DEF PlacedAt
    <2>3. prev[c] # Null => prev[c] # current[c]
      BY <2>1, <2>2, Names DEF CoreInv
    <2>4. prev[c] # Null => (action[prev[c]] = "None") = (prev[c] \in Core)
      BY <2>1 DEF CoreInv
    <2>5. prev[c] # Null => dpc[current[c]] > 0
      BY <2>1, Names DEF CoreInv
    <2>6. prev[c] # Null /\ action[prev[c]] = "Wait" => cond[prev[c]] # Null
      BY <2>1, Names DEF CoreInv
    <2>7. pc[c] \in {"loop_reap", "loop_get"} => dpc[c] >= 2
      BY <2>1 DEF CoreInv
    <2> QED BY <2>1, <2>3, <2>4, <2>5, <2>6, <2>7 DEF CoreInv
  <1>2. ThreadsInv => AssertionsHold
    BY <1>1 DEF AssertionsHold
  <1> QED BY <1>2, ThreadsInvariant, PTL

\* Power goes off only when no thread is left.
THEOREM ThreadsShutdown == ThreadsSpec => []ShutdownSound
  <1>1. ASSUME ThreadsInv, halted PROVE Live = {} /\ Making = {} /\ nActive = 0
    <2>1. Live \subseteq Thread /\ Making \subseteq Ctx
      BY DEF Live, Making
    <2>2. IsFiniteSet(Live) /\ IsFiniteSet(Making)
      BY <2>1, Names, FS_Subset
    <2>3. Cardinality(Live) \in Nat /\ Cardinality(Making) \in Nat
      BY <2>2, FS_CardinalityType
    <2>4. nActive = 0 /\ nActive = Cardinality(Live) + Cardinality(Making)
      BY <1>1 DEF ThreadsInv, CountInv
    <2>5. Cardinality(Live) = 0 /\ Cardinality(Making) = 0
      BY <2>3, <2>4
    <2> QED BY <2>2, <2>4, <2>5, FS_EmptySet
  <1>2. ThreadsInv => ShutdownSound
    <2> SUFFICES ASSUME ThreadsInv, halted
                 PROVE  /\ nActive = 0
                        /\ \A t \in Thread : pc[t] = "free"
                        /\ \A c \in Core : pc[c] \notin {"mk_reap", "mk_alloc"}
      BY DEF ShutdownSound
    <2> QED BY <1>1, Names DEF Live, Making
  <1> QED BY <1>2, ThreadsInvariant, PTL

\* A TCB is in one hand: on a core, in one queue, with one notifier or with one
\* reaper, and with nobody once it is free.
THEOREM ThreadsOnePlace == ThreadsSpec => []ExactlyOnePlace
  <1>1. ASSUME NEW t \in Thread, NEW k \in Kind, NEW w \in Ctx \cup Cond,
               PlacedAt(t, k, w)
        PROVE  IF pc[t] = "free" THEN Places(t) = {} ELSE Cardinality(Places(t)) = 1
    <2> DEFINE Tag == IF k \in {"ready", "reaper"} THEN <<k>> ELSE <<k, w>>
    <2>1. /\ {c \in Core : current[c] = t} = IF k = "current" THEN {w} ELSE {}
          /\ {c \in Core : prev[c] = t} = IF k = "prev" THEN {w} ELSE {}
          /\ {cd \in Cond : t \in Range(waiting[cd])} = IF k = "waiting" THEN {w} ELSE {}
          /\ {x \in Ctx : t \in Range(woken[x])} = IF k = "woken" THEN {w} ELSE {}
          /\ {x \in Ctx : victim[x] = t} = IF k = "victim" THEN {w} ELSE {}
          /\ {i \in {1} : t \in Range(ready)} = IF k = "ready" THEN {1} ELSE {}
          /\ {i \in {1} : t \in Range(reaper)} = IF k = "reaper" THEN {1} ELSE {}
      BY <1>1 DEF PlacedAt
    <2>2. CASE k = "free"
      <3>1. Places(t) = {}
        BY <2>1, <2>2 DEF Places
      <3> QED BY <1>1, <2>2, <3>1 DEF PlacedAt
    <2>3. CASE k # "free"
      <3>1. Places(t) = {Tag}
        BY <2>1, <2>3 DEF Places, Kind
      <3>2. Cardinality({Tag}) = 1
        BY FS_Singleton
      <3> QED BY <1>1, <2>3, <3>1, <3>2 DEF PlacedAt
    <2> QED BY <2>2, <2>3
  <1>2. ThreadsInv => ExactlyOnePlace
    BY <1>1 DEF ThreadsInv, QueueInv, Placed, ExactlyOnePlace
  <1> QED BY <1>2, ThreadsInvariant, PTL

=============================================================================
