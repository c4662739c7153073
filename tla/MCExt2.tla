------------------------------- MODULE MCExt2 -------------------------------
(* Images for Ext2, and an instance for TLC. *)
EXTENDS Ext2

\* A link as mkfs.ext2 (Makefile) makes it: a target is kept in the 60 bytes of the block
\* numbers only if it is shorter, with the null byte behind it, and in a block otherwise.
Link(n, size) ==
  LET target == <<"target", n>> IN
  [self |-> n, type |-> 10, size |-> size,
   direct  |-> IF size < 60 THEN target ELSE <<"block numbers">>,
   content |-> IF size < 60 THEN <<>> ELSE target]

\* An image of two groups of four nodes: a directory in the other group, a file, a link
\* in each directory.  log is log_block_size, bytesPerNode the size of a node, short and
\* long are the lengths of the links.
ExtImage(log, bytesPerNode, short, long) ==
  LET bs    == 2 ^ (log + 10)
      gt    == ((1024 \div bs) + 1) * bs
      node  == [n \in {2, 4, 5, 7, 8} |->
        CASE n = 2 -> [self |-> 2, type |-> 4, size |-> 2 * bs, entries |->
                        [o \in {0, 16, bs} |-> IF o = 0 THEN [inode |-> 5, total_size |-> 16, name |-> "d"]
                           ELSE IF o = 16 THEN [inode |-> 4, total_size |-> bs - 16, name |-> "f"]
                                ELSE [inode |-> 8, total_size |-> bs, name |-> "s"]]]
          [] n = 5 -> [self |-> 5, type |-> 4, size |-> bs, entries |->
                        [o \in {0, 24} |-> IF o = 0 THEN [inode |-> 7, total_size |-> 24, name |-> "s"]
                                           ELSE [inode |-> 2, total_size |-> bs - 24, name |-> "up"]]]
          [] n = 4 -> [self |-> 4, type |-> 8, size |-> 1, entries |-> <<>>]
          [] n = 7 -> Link(7, short)
          [] n = 8 -> Link(8, long)]
      table == <<gt \div bs + 3, gt \div bs + 9>>
      place == [n \in DOMAIN node |->
                  IF n <= 4 THEN table[1] * bs + (n - 1) * bytesPerNode ELSE table[2] * bs + (n - 5) * bytesPerNode]
      sb    == [inodes_count |-> 8, blocks_count |-> 17, blocks_per_group |-> 9,
                inodes_per_group |-> 4, inode_size |-> bytesPerNode, log_block_size |-> log]
  IN  [at |-> [a \in {1024, gt} \cup {place[n] : n \in DOMAIN node} |->
                IF a = 1024 THEN sb ELSE IF a = gt THEN table
                ELSE node[CHOOSE n \in DOMAIN node : place[n] = a]],
       tree |-> [n \in {2, 5} |-> IF n = 2 THEN [d |-> 5, f |-> 4, s |-> 8] ELSE [s |-> 7, up |-> 2]]]

MCModules ==
  {<<[path |-> "config", image |-> <<>>], [path |-> "ramdisk", image |-> ExtImage(l, s, 59, n)]>> :
      l \in {0, 1}, s \in {128, 256}, n \in {60, 61}}
    \cup {<<[path |-> "config", image |-> <<>>]>>}
=============================================================================
