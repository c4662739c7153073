------------------------------- MODULE Parts -------------------------------
(***************************************************************************)
(* Parts that do not depend on one another, one of them in each behaviour. *)
(***************************************************************************)
EXTENDS Heap, RefCount, SysSem, Files, LinkedQueue, Installer, Printf, Mappings, Boot,
        Ext2, Console

VARIABLE unit

partsVars == <<unit, heapVars, refVars, semVars, fileVars, lqVars, instVars, pfVars,
               mapVars, bootVars, extVars, conVars>>

PartsInit ==
  /\ unit \in {"heap", "refs", "sems", "files", "queue", "installer", "printf", "mappings",
               "boot", "ext2", "console"}
  /\ HeapInit /\ RefInit /\ SemInit /\ FilesInit /\ LQInit /\ InstInit /\ PfInit
  /\ MapInit /\ BootInit /\ ExtInit /\ ConInit

\* Only part u moves.
Only(u) ==
  /\ unit = u
  /\ unit' = u
  /\ IF u = "heap" THEN TRUE ELSE UNCHANGED heapVars
  /\ IF u = "refs" THEN TRUE ELSE UNCHANGED refVars
  /\ IF u = "sems" THEN TRUE ELSE UNCHANGED semVars
  /\ IF u = "files" THEN TRUE ELSE UNCHANGED fileVars
  /\ IF u = "queue" THEN TRUE ELSE UNCHANGED lqVars
  /\ IF u = "installer" THEN TRUE ELSE UNCHANGED instVars
  /\ IF u = "printf" THEN TRUE ELSE UNCHANGED pfVars
  /\ IF u = "mappings" THEN TRUE ELSE UNCHANGED mapVars
  /\ IF u = "boot" THEN TRUE ELSE UNCHANGED bootVars
  /\ IF u = "ext2" THEN TRUE ELSE UNCHANGED extVars
  /\ IF u = "console" THEN TRUE ELSE UNCHANGED conVars

PartsNext ==
  \/ Only("heap") /\ HeapNext
  \/ Only("refs") /\ RefNext
  \/ Only("sems") /\ SemNext
  \/ Only("files") /\ FilesNext
  \/ Only("queue") /\ LQNext
  \/ Only("installer") /\ InstNext
  \/ Only("printf") /\ PfNext
  \/ Only("mappings") /\ MapNext
  \/ Only("boot") /\ BootNext
  \/ Only("ext2") /\ ExtNext
  \/ Only("console") /\ ConNext

PartsSpec == PartsInit /\ [][PartsNext]_partsVars
=============================================================================
