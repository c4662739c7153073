-------------------------------- MODULE Ext2 --------------------------------
(***************************************************************************)
(* Mounting an ext2 image and looking a name up (ext2.cc, ext2.h, and the  *)
(* module search of ramdisk.cc): from the super block to the group table,  *)
(* to the inode tables of the groups, to the entries of a directory.  How  *)
(* the bytes of a node are read from its blocks is in module Files.        *)
(*                                                                         *)
(* An image gives for the byte addresses where something begins what is    *)
(* there: the super block, the group table as a sequence of inode tables,  *)
(* or a node.  A directory gives for the offsets of its entries the        *)
(* entries.  A failed ASSERT stops the machine.                            *)
(***************************************************************************)
EXTENDS Integers, Sequences, FiniteSets

CONSTANTS
  Modules,     \* what Limine may have loaded: sequences of [path, image]
  RamDiskPath, \* the path kernel_main asks for
  Lookups,     \* names to look up
  SymlinkMax   \* the longest link that is read from the node itself, 60 in the code

VARIABLES
  disk,        \* the image
  ext,         \* the fields of Ext2
  walk,        \* the loop of Node::entries
  found,       \* what find returned last
  symbol,      \* what get_symbol returned last: the text, and the link it is of
  extAt        \* "boot", "mounted", "entries", "panic"

extVars == <<disk, ext, walk, found, symbol, extAt>>

NotMounted == [blockSize |-> 0]
NoWalk == [dir |-> 0, name |-> "", offset |-> 0, out |-> 0, count |-> 0]
NoNode == [number |-> 0, data |-> <<>>]
NoSymbol == [of |-> NoNode, text |-> <<>>]

ExtInit ==
  /\ disk = <<>>
  /\ ext = NotMounted
  /\ walk = NoWalk
  /\ found = [node |-> NoNode, dir |-> NoNode, name |-> ""]
  /\ symbol = NoSymbol
  /\ extAt = "boot"

Panics == extAt' = "panic"

\* find_module: the first module with the path.
FindModule(list) ==
  CHOOSE i \in DOMAIN list :
    list[i].path = RamDiskPath /\ \A j \in 1..(i - 1) : list[j].path # RamDiskPath

-----------------------------------------------------------------------------
\* Where node number is: in the table of its group, by its place in the group.
\* Seeded fault: i-numbers are taken to start at 0.
NodeOffsetFromZero(e, number) ==
  e.iNodeTables[(number \div e.iNodesPerGroup) + 1] * e.blockSize
    + (number % e.iNodesPerGroup) * e.iNodeSize

NodeOffset(e, number) ==
  LET index == number - 1
  IN  e.iNodeTables[(index \div e.iNodesPerGroup) + 1] * e.blockSize
        + (index % e.iNodesPerGroup) * e.iNodeSize

ValidNumber(e, number) ==
  /\ number > 0 /\ number <= e.numberOfNodes
  /\ (number - 1) \div e.iNodesPerGroup < e.nGroups
  /\ e.iNodeTables[((number - 1) \div e.iNodesPerGroup) + 1] <= e.numberOfBlocks

\* Where the device has no node the bytes say nothing.
NodeAt(d, a) == IF a \in DOMAIN d.at THEN d.at[a] ELSE <<>>

GetNode(d, e, number) == [number |-> number, data |-> NodeAt(d, NodeOffset(e, number))]

\* The block after the one that holds the super block, which is at byte 1024.
GroupTable(d, blockSize) == d.at[((1024 \div blockSize) + 1) * blockSize]

Fields(d) ==
  LET sb == d.at[1024]
      bs == 2 ^ (sb.log_block_size + 10)
      n  == (sb.blocks_count + sb.blocks_per_group - 1) \div sb.blocks_per_group
  IN  [blockSize |-> bs, numberOfNodes |-> sb.inodes_count, numberOfBlocks |-> sb.blocks_count,
       iNodeSize |-> sb.inode_size, nGroups |-> n, iNodesPerGroup |-> sb.inodes_per_group,
       iNodeTables |-> SubSeq(GroupTable(d, bs), 1, n)]

\* RamDisk and Ext2::Ext2: the module of the path is mounted, root is node 2.
Mount(list) ==
  /\ extAt = "boot"
  /\ IF \E i \in DOMAIN list : list[i].path = RamDiskPath
     THEN LET d == list[FindModule(list)].image
              e == Fields(d) IN
          /\ disk' = d
          /\ ext' = e
          /\ found' = [found EXCEPT !.node = GetNode(d, e, 2), !.dir = NoNode, !.name = "root"]
          /\ extAt' = IF ValidNumber(e, 2) THEN "mounted" ELSE "panic"
     ELSE Panics /\ UNCHANGED <<disk, ext, found>>
  /\ UNCHANGED <<walk, symbol>>

IsDir(n) == n.data.type = 4
IsSymlink(n) == n.data.type = 10

-----------------------------------------------------------------------------
\* find(dir, name), where dir is the root or the node that was found last: the loop of
\* entries starts, ...
Find(dir, name) ==
  /\ extAt = "mounted"
  /\ IF IsDir(dir)
     THEN /\ walk' = [NoWalk EXCEPT !.dir = dir, !.name = name]
          /\ extAt' = "entries"
     ELSE Panics /\ UNCHANGED walk
  /\ UNCHANGED <<disk, ext, found, symbol>>

\* ... gives every entry to the callbacks of find and of entry_count, ...
Entry ==
  LET entry == walk.dir.data.entries[walk.offset] IN
  /\ extAt = "entries"
  /\ walk.offset < walk.dir.data.size
  /\ walk' = [walk EXCEPT !.offset = @ + entry.total_size,
                          !.count = @ + 1,
                          !.out = IF entry.name = walk.name THEN entry.inode ELSE @]
  /\ UNCHANGED <<disk, ext, found, symbol, extAt>>

\* ... and when it ends find returns a null reference or the node of the last match.
EndOfEntries ==
  /\ extAt = "entries"
  /\ walk.offset >= walk.dir.data.size
  /\ IF walk.out # 0 /\ ~ValidNumber(ext, walk.out)
     THEN Panics /\ UNCHANGED found
     ELSE /\ extAt' = "mounted"
          /\ found' = [node |-> IF walk.out = 0 THEN NoNode ELSE GetNode(disk, ext, walk.out),
                       dir |-> walk.dir, name |-> walk.name]
  /\ UNCHANGED <<disk, ext, walk, symbol>>

\* A link of up to SymlinkMax characters is taken from the node, where the block numbers
\* would be, a longer one from blocks.
GetSymbol ==
  LET data == found.node.data IN
  /\ extAt = "mounted"
  /\ found.node # NoNode
  /\ IF IsSymlink(found.node)
     THEN /\ symbol' = [of   |-> found.node,
                        text |-> IF data.size <= SymlinkMax THEN data.direct ELSE data.content]
          /\ UNCHANGED extAt
     ELSE Panics /\ UNCHANGED symbol
  /\ UNCHANGED <<disk, ext, walk, found>>

ExtNext ==
  \/ \E list \in Modules : Mount(list)
  \/ extAt = "mounted" /\ \E name \in Lookups : Find(GetNode(disk, ext, 2), name)
  \/ \E name \in Lookups : found.node # NoNode /\ Find(found.node, name)
  \/ Entry \/ EndOfEntries \/ GetSymbol

ExtSpec == ExtInit /\ [][ExtNext]_extVars

-----------------------------------------------------------------------------
\* What the makers of the image meant: tree gives the i-number of each name in each
\* directory, and data names the node it belongs to.
ReadsTarget == symbol.text = <<"target", symbol.of.number>>

\* Whatever the block size, the size of the nodes and the number of groups: a lookup
\* returns a null reference only for a name that is not in the directory, and for one
\* that is there the node that the name was given to, in its group's table, with all
\* its entries seen once; and a link reads as its target unless that has exactly
\* SymlinkMax characters.
LookupRight ==
  /\ extAt \in {"mounted", "entries"} =>
       IF found.name = "root" THEN found.node.data # <<>> /\ found.node.data.self = 2
       ELSE LET names == disk.tree[found.dir.number] IN
            IF found.node = NoNode THEN found.name \notin DOMAIN names
            ELSE /\ found.name \in DOMAIN names
                 /\ names[found.name] = found.node.number
                 /\ found.node.data # <<>> /\ found.node.data.self = found.node.number
  /\ extAt = "mounted" /\ walk # NoWalk =>
       walk.count = Cardinality(DOMAIN walk.dir.data.entries)
  /\ symbol # NoSymbol /\ symbol.of.data.size # SymlinkMax => ReadsTarget

\* "If this node is a symbolic link, fill the buffer with the name the link referes to."
\* (ext2.h, get_symbol), whatever its length.
LinkReadsTarget == symbol # NoSymbol => ReadsTarget
=============================================================================
