------------------------------ MODULE Mappings ------------------------------
(***************************************************************************)
(* mmap, munmap and demand paging, vmm.cc: the VMEs of each process, the   *)
(* VMEs all processes share, and the pages that faults and                 *)
(* is_user_range_mapped bring in.  Only the process itself touches its     *)
(* private VMEs; sharedLock guards the shared list, but not the pages      *)
(* below it: a fault is cut at every look at the page table, and two cores *)
(* may bring in the same shared page.                                      *)
(*                                                                         *)
(* Page numbers stand for page aligned addresses.  Program, heap and stack *)
(* pages are in module Vmm.  Calls that are refused change nothing and are *)
(* left out.                                                               *)
(***************************************************************************)
EXTENDS Integers, Sequences, SequencesExt, FiniteSets, Functions

CONSTANTS
  Space,        \* processes
  Anonymous,    \* no node
  FRAME_SIZE,   \* in bytes
  MapLen,       \* lengths passed to mmap and munmap, in bytes
  What,         \* what mmap is asked to map, [node, offset], the offset in pages
  PrivateEnd,   \* bound: no private mapping ends above it
  SharedStart, SharedEnd,
  UserRange,       \* the ranges given to is_user_range_mapped, [start, size] in bytes
  MaxCalls      \* bound on the calls, faults included

ASSUME MappingsAssumption ==
  /\ FRAME_SIZE \in Nat \ {0}
  /\ MapLen \subseteq Nat \ {0}
  /\ PrivateEnd \in Nat /\ SharedStart \in Nat /\ SharedEnd \in Nat
  /\ PrivateEnd <= SharedStart /\ SharedStart < SharedEnd
  /\ \A w \in What : w.offset \in Nat
  /\ UserRange \subseteq [start : Nat, size : Nat \ {0}]

VARIABLES
  privateVmes,  \* of each process, in the order of the list
  sharedVmes,
  present,      \* what each process sees on its present pages below SharedStart
  kernelHalf,   \* and on those of the shared area, whose tables are common
  access,       \* the page fault or range check a process is in
  running,      \* processes that exist
  calls,
  asked,        \* history: for each private page what mmap was asked to show there
  askedShared

mapVars == <<privateVmes, sharedVmes, present, kernelHalf, access, running, calls,
             asked, askedShared>>

NoAccess == [at |-> "none"]
NoPages == [g \in {} |-> 0]

MapInit ==
  /\ privateVmes = [p \in Space |-> <<>>]
  /\ sharedVmes = <<>>
  /\ present = [p \in Space |-> NoPages]
  /\ kernelHalf = NoPages
  /\ access = [p \in Space |-> NoAccess]
  /\ running = {}
  /\ calls = 0
  /\ asked = [p \in Space |-> NoPages]
  /\ askedShared = NoPages

\* The first process.
Launch ==
  /\ running = {} /\ calls = 0
  /\ \E p \in Space : running' = {p}
  /\ calls' = 1
  /\ UNCHANGED <<privateVmes, sharedVmes, present, kernelHalf, access, asked, askedShared>>

PagesOf(bytes) == (bytes + FRAME_SIZE - 1) \div FRAME_SIZE

\* What page g of VME m is filled with: zeros or a page of the file.
PageFrom(m, g) ==
  IF m.node = Anonymous THEN <<>> ELSE <<m.node, m.offset + g - m.start>>

Covers(m, g) == m.start <= g /\ g < m.end

-----------------------------------------------------------------------------
\* mmap: the first gap that is long enough, searched from base on.
Candidate(list, base, k) == IF k = 1 THEN base ELSE list[k - 1].end

Gap(list, base, n) ==
  CHOOSE k \in 1..(Len(list) + 1) :
    /\ k <= Len(list) => Candidate(list, base, k) + n <= list[k].start
    /\ \A j \in 1..(k - 1) : Candidate(list, base, j) + n > list[j].start

NewVme(list, base, n, node, offset) ==
  LET s == Candidate(list, base, Gap(list, base, n))
  IN  [start |-> s, end |-> s + n, node |-> node, offset |-> offset]

MayCall(p) == p \in running /\ access[p] = NoAccess /\ calls < MaxCalls

MmapPrivate(p, n, node, offset) ==
  LET m == NewVme(privateVmes[p], 1, n, node, offset) IN
  /\ MayCall(p)
  /\ m.end <= PrivateEnd
  /\ privateVmes' = [privateVmes EXCEPT ![p] = InsertAt(@, Gap(@, 1, n), m)]
  /\ asked' = [asked EXCEPT ![p] =
       [g \in DOMAIN @ \cup (m.start..(m.end - 1)) |->
          IF Covers(m, g) THEN PageFrom(m, g) ELSE @[g]]]
  /\ calls' = calls + 1
  /\ UNCHANGED <<sharedVmes, present, kernelHalf, access, running, askedShared>>

MmapShared(p, n, node, offset) ==
  LET m == NewVme(sharedVmes, SharedStart, n, node, offset) IN
  /\ MayCall(p)
  /\ m.end <= SharedEnd
  /\ sharedVmes' = InsertAt(sharedVmes, Gap(sharedVmes, SharedStart, n), m)
  /\ askedShared' = [g \in DOMAIN askedShared \cup (m.start..(m.end - 1)) |->
                       IF Covers(m, g) THEN PageFrom(m, g) ELSE askedShared[g]]
  /\ calls' = calls + 1
  /\ UNCHANGED <<privateVmes, present, kernelHalf, access, running, asked>>

\* Seeded fault: what is left behind a cut keeps the offset of the whole.
LeftoversOffset(m, s, e) ==
  IF e <= m.start \/ s >= m.end THEN <<m>>
  ELSE (IF s > m.start THEN <<[m EXCEPT !.end = s]>> ELSE <<>>)
       \o (IF e < m.end THEN <<[m EXCEPT !.start = e]>> ELSE <<>>)

\* What munmap of the pages from s up to e leaves of VME m.
Leftovers(m, s, e) ==
  IF e <= m.start \/ s >= m.end THEN <<m>>
  ELSE (IF s > m.start THEN <<[m EXCEPT !.end = s]>> ELSE <<>>)
       \o (IF e < m.end THEN <<[m EXCEPT !.start = e, !.offset = @ + (e - m.start)]>>
                        ELSE <<>>)

\* munmap: only pages inside a VME are unmapped; it fails if there is none.
Munmap(p, s, n) ==
  LET e    == s + n
      list == privateVmes[p]
      gone == {g \in s..(e - 1) : \E k \in DOMAIN list : Covers(list[k], g)} IN
  /\ MayCall(p)
  /\ gone # {}
  /\ privateVmes' = [privateVmes EXCEPT ![p] =
       FlattenSeq([k \in DOMAIN @ |-> Leftovers(@[k], s, e)])]
  /\ present' = [present EXCEPT ![p] = Restrict(@, DOMAIN @ \ gone)]
  /\ asked' = [asked EXCEPT ![p] = Restrict(@, DOMAIN @ \ (s..(e - 1)))]
  /\ calls' = calls + 1
  /\ UNCHANGED <<sharedVmes, kernelHalf, access, running, askedShared>>

-----------------------------------------------------------------------------
\* A page fault is an access to one page, is_user_range_mapped one to a range.
Begin(p, first, last, range) ==
  /\ MayCall(p)
  /\ calls' = calls + 1
  /\ access' = [access EXCEPT ![p] = [at |-> "ensure", page |-> first, last |-> last,
                                      from |-> <<>>, range |-> range]]
  /\ UNCHANGED <<privateVmes, sharedVmes, present, kernelHalf, running, asked, askedShared>>

PageFault(p, g) ==
  /\ g \notin DOMAIN present[p] \cup DOMAIN kernelHalf
  /\ g \in DOMAIN asked[p] \cup DOMAIN askedShared
  /\ Begin(p, g, g, {})

FirstPage(r) == r.start \div FRAME_SIZE

\* Seeded fault: the place of the range in its first page is forgotten.
LastPageAligned(r) == FirstPage(r) + (r.size - 1) \div FRAME_SIZE

LastPage(r) == (r.start + r.size - 1) \div FRAME_SIZE

CheckRange(p, r) ==
  /\ FirstPage(r) > 0
  /\ Begin(p, FirstPage(r), LastPage(r), {r})

\* copy_user_cstring checks byte after byte, up to the end of the string.
CopyUserCstring(p, r) ==
  \E n \in 1..r.size : CheckRange(p, [r EXCEPT !.size = n])

IsPresent(p, g) == g \in DOMAIN present[p] \/ g \in DOMAIN kernelHalf

\* The page is there: on to the next, or the answer is yes.
NextPage(a) ==
  IF a.page = a.last THEN [a EXCEPT !.at = "yes"]
  ELSE [a EXCEPT !.at = "ensure", !.page = @ + 1]

Advance(p) == access' = [access EXCEPT ![p] = NextPage(@)]

\* ensureMappedPage: the private list first, then the shared one, and the first VME
\* of the list that covers the page.
Covering(list, g) == {k \in DOMAIN list : Covers(list[k], g)}

Searched(p, g) == IF Covering(privateVmes[p], g) # {} THEN privateVmes[p] ELSE sharedVmes

Ensure(p) ==
  LET g == access[p].page
      list == Searched(p, g) IN
  /\ access[p].at = "ensure"
  /\ \/ IsPresent(p, g) /\ Advance(p)
     \/ /\ ~IsPresent(p, g) /\ Covering(list, g) # {}
        /\ access' = [access EXCEPT ![p].at = "recheck",
                                    ![p].from = PageFrom(list[Min(Covering(list, g))], g)]
     \/ /\ ~IsPresent(p, g) /\ Covering(list, g) = {}
        /\ access' = [access EXCEPT ![p].at = "no"]
  /\ UNCHANGED <<privateVmes, sharedVmes, present, kernelHalf, running, calls, asked, askedShared>>

\* mapPageFromVme: the frame is filled; if the page has come in meanwhile the frame
\* is given back, ...
Recheck(p) ==
  /\ access[p].at = "recheck"
  /\ \/ IsPresent(p, access[p].page) /\ Advance(p)
     \/ ~IsPresent(p, access[p].page) /\ access' = [access EXCEPT ![p].at = "map"]
  /\ UNCHANGED <<privateVmes, sharedVmes, present, kernelHalf, running, calls, asked, askedShared>>

\* ... if not it is mapped, over what another core may have mapped since the look.
MapPage(p) ==
  LET g == access[p].page
      with(f) == [h \in DOMAIN f \cup {g} |-> IF h = g THEN access[p].from ELSE f[h]] IN
  /\ access[p].at = "map"
  /\ IF g >= SharedStart THEN kernelHalf' = with(kernelHalf) /\ UNCHANGED present
     ELSE present' = [present EXCEPT ![p] = with(@)] /\ UNCHANGED kernelHalf
  /\ Advance(p)
  /\ UNCHANGED <<privateVmes, sharedVmes, running, calls, asked, askedShared>>

\* The fault handler or is_user_range_mapped returns.
ReturnAccess(p) ==
  /\ access[p].at \in {"yes", "no"}
  /\ access' = [access EXCEPT ![p] = NoAccess]
  /\ UNCHANGED <<privateVmes, sharedVmes, present, kernelHalf, running, calls, asked, askedShared>>

-----------------------------------------------------------------------------
\* snapshot_for_fork, clonePrivateVmes and install_fork_state: the lists and the
\* pages of the parent are copied.
ForkMappings(p, c) ==
  /\ MayCall(p)
  /\ c \notin running
  /\ running' = running \cup {c}
  /\ privateVmes' = [privateVmes EXCEPT ![c] = privateVmes[p]]
  /\ present' = [present EXCEPT ![c] = present[p]]
  /\ asked' = [asked EXCEPT ![c] = asked[p]]
  /\ calls' = calls + 1
  /\ UNCHANGED <<sharedVmes, kernelHalf, access, askedShared>>

\* fini_thread: the private pages go, and with the last thread the shared list, unless
\* n_active still counts a thread that is not reaped.
FiniThread(p) ==
  /\ p \in running
  /\ access[p] = NoAccess
  /\ running' = running \ {p}
  /\ privateVmes' = [privateVmes EXCEPT ![p] = <<>>]
  /\ present' = [present EXCEPT ![p] = NoPages]
  /\ asked' = [asked EXCEPT ![p] = NoPages]
  /\ \/ UNCHANGED <<sharedVmes, askedShared>>
     \/ running = {p} /\ sharedVmes' = <<>> /\ askedShared' = NoPages
  /\ UNCHANGED <<kernelHalf, access, calls>>

MapNext ==
  \/ Launch
  \/ \E p \in Space :
       \/ \E b \in MapLen, w \in What :
            \/ MmapPrivate(p, PagesOf(b), w.node, w.offset)
            \/ MmapShared(p, PagesOf(b), w.node, w.offset)
       \/ \E b \in MapLen, s \in 0..(PrivateEnd - 1) : Munmap(p, s, PagesOf(b))
       \/ \E g \in 1..(SharedEnd - 1) : PageFault(p, g)
       \/ \E r \in UserRange : CheckRange(p, r) \/ CopyUserCstring(p, r)
       \/ Ensure(p) \/ Recheck(p) \/ MapPage(p) \/ ReturnAccess(p)
       \/ \E c \in Space : ForkMappings(p, c)
       \/ FiniThread(p)

MapSpec == MapInit /\ [][MapNext]_mapVars

-----------------------------------------------------------------------------
\* A list covers the pages that were asked for, each once and with the right page of
\* the file, however munmap has cut its mappings and fork copied them.
Exact(list, pages) ==
  /\ \A g \in 1..(SharedEnd - 1) :
       Cardinality({k \in DOMAIN list : Covers(list[k], g)}) = IF g \in DOMAIN pages THEN 1 ELSE 0
  /\ \A k \in DOMAIN list : \A g \in list[k].start..(list[k].end - 1) :
       PageFrom(list[k], g) = pages[g]

\* mmap, munmap, fork and page faults, some of them at once on a shared page: every
\* list is exact, and every page that is present shows what mmap was asked to show.
MappingsExact ==
  /\ \A p \in running :
       /\ Exact(privateVmes[p], asked[p])
       /\ \A g \in DOMAIN present[p] : g \in DOMAIN asked[p] /\ present[p][g] = asked[p][g]
  /\ Exact(sharedVmes, askedShared)
  /\ \A g \in DOMAIN askedShared \cap DOMAIN kernelHalf : kernelHalf[g] = askedShared[g]

\* When is_user_range_mapped says yes every byte of the range is on a present page, and
\* when it says no some byte has no mapping.
RangeAnswerTrue ==
  \A p \in Space : access[p].at \in {"yes", "no"} => \A r \in access[p].range :
    IF access[p].at = "yes"
    THEN \A b \in r.start..(r.start + r.size - 1) : IsPresent(p, b \div FRAME_SIZE)
    ELSE \E b \in r.start..(r.start + r.size - 1) : b \div FRAME_SIZE \notin DOMAIN asked[p]
=============================================================================
