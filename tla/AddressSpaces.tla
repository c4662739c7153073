--------------------------- MODULE AddressSpaces ---------------------------
(***************************************************************************)
(* What the memory of processes promises: every process has pages of its   *)
(* own, a store changes one page of one process, and fork copies all of    *)
(* them at once.  A new page may hold anything.                            *)
(***************************************************************************)
CONSTANTS Proc, Page, Value, Unmapped

VARIABLE space   \* what each process finds at each page

Nothing == [v \in Page |-> Unmapped]

SpacesInit == space = [p \in Proc |-> Nothing]

MapPage(p, v, x) ==
  /\ space[p][v] = Unmapped
  /\ space' = [space EXCEPT ![p][v] = x]

UnmapPage(p, v) ==
  /\ space[p][v] # Unmapped
  /\ space' = [space EXCEPT ![p][v] = Unmapped]

Store(p, v, x) ==
  /\ space[p][v] # Unmapped
  /\ space' = [space EXCEPT ![p][v] = x]

Copy(p, q) ==
  /\ space[q] = Nothing
  /\ space' = [space EXCEPT ![q] = space[p]]

SpacesNext ==
  \E p \in Proc :
     \/ \E v \in Page, x \in Value : MapPage(p, v, x) \/ Store(p, v, x)
     \/ \E v \in Page : UnmapPage(p, v)
     \/ \E q \in Proc : Copy(p, q)

SpacesSpec == SpacesInit /\ [][SpacesNext]_space
=============================================================================
