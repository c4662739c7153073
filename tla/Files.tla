------------------------------- MODULE Files -------------------------------
(***************************************************************************)
(* The descriptors of a process, syscall.cc, and the way of a read through *)
(* the file system to the disk: BlockIO::read_all over the blocks of a     *)
(* Node, each of them read with read_all from the blocks of the RamDisk,   *)
(* directly or by way of the indirect block.  fdTable is thread_local, so  *)
(* no other thread changes it and every call is one step.  Calls that are  *)
(* refused, and reads at the end of a file, change nothing.                *)
(***************************************************************************)
EXTENDS Integers, Sequences, FiniteSetsExt

CONSTANTS
  maxFds,
  Inode,       \* the i-numbers of the files that open finds
  Layout,      \* of each file its size, its blocks on the disk and the indirect one
  FsBlock,     \* block size of the file system, in bytes
  DevBlock,    \* block size of the disk, 512 in the code
  DiskBlocks,  \* file system blocks on the disk
  NDirect,     \* direct block numbers in a node, 12 in the code
  RefSize,     \* bytes of a block number, 4 in the code
  ReadLen,     \* the lengths passed to read
  SeekTo       \* the offsets passed to lseek

\* The places of the blocks in their files, and the block that is there.
BlockPlace == UNION {{f} \X (1 .. Len(Layout[f].blocks)) : f \in Inode}

BlockAt(x) == Layout[x[1]].blocks[x[2]]

\* What is left of a number when its lowest n bytes are taken away.
UpperBytes(number) ==
  LET left[n \in 0 .. RefSize] == IF n = 0 THEN number ELSE left[n - 1] \div 256
  IN  left

\* An image as mke2fs writes it: no block is used twice, and the number of each fits in
\* the RefSize bytes that the indirect block has for it.
ImageWellFormed ==
  /\ \A f \in Inode :
        /\ Layout[f].size \in Nat /\ Layout[f].blocks \in Seq(0 .. DiskBlocks - 1)
        /\ Layout[f].size <= Len(Layout[f].blocks) * FsBlock
        /\ Len(Layout[f].blocks) <= NDirect + FsBlock \div RefSize
  /\ \A x, y \in BlockPlace : BlockAt(x) = BlockAt(y) => x = y
  /\ \A x \in BlockPlace : UpperBytes(BlockAt(x))[RefSize] = 0
  /\ \A x, y \in BlockPlace : x[2] > NDirect =>
        /\ Layout[x[1]].indirect \in 0 .. DiskBlocks - 1
        /\ Layout[x[1]].indirect # BlockAt(y)
        /\ y[2] > NDirect /\ Layout[x[1]].indirect = Layout[y[1]].indirect => x[1] = y[1]

ASSUME FilesAssumption ==
  /\ {FsBlock, DevBlock, RefSize} \subseteq Nat \ {0} /\ {maxFds, DiskBlocks, NDirect} \subseteq Nat
  /\ FsBlock % DevBlock = 0 /\ FsBlock % RefSize = 0
  /\ Inode \subseteq Nat \ {0} /\ ReadLen \subseteq Nat /\ SeekTo \subseteq Nat
  /\ ImageWellFormed

VARIABLES
  fdTable,
  began,     \* history: the offset at the last open or lseek of a descriptor
  bytes      \* history: what has been read through it since then

fileVars == <<fdTable, began, bytes>>

-----------------------------------------------------------------------------
(* The disk.  Byte k of file f is a number that no other byte has.         *)

DiskSize == DiskBlocks * FsBlock

FileByte(f, k) == DiskSize * f + k

\* An indirect block holds the numbers of the blocks after the direct ones, low byte first.
Disk ==
  [a \in 0 .. DiskSize - 1 |->
     LET b     == a \div FsBlock
         o     == a % FsBlock
         Data  == {x \in BlockPlace : BlockAt(x) = b}
         Refs  == {x \in BlockPlace : /\ x[2] - NDirect - 1 = o \div RefSize
                                      /\ Layout[x[1]].indirect = b}
     IN  IF Data # {} THEN LET x == CHOOSE x \in Data : TRUE
                           IN  FileByte(x[1], (x[2] - 1) * FsBlock + o)
         ELSE IF Refs # {} THEN LET x == CHOOSE x \in Refs : TRUE
                                IN  UpperBytes(BlockAt(x))[o % RefSize] % 256
         ELSE 0]

-----------------------------------------------------------------------------
(* BlockIO.  What read_block delivers is a function, block, of the block   *)
(* number.                                                                 *)

\* How many bytes one call of read delivers: those up to the end of the block.
Count(size, block_size, offset, n) ==
  Min({block_size - (offset % block_size), n, size - offset})

\* read, with an offset that is not beyond the end.
Read(size, block_size, block, offset, n) ==
  LET o == offset % block_size
  IN  SubSeq(block[offset \div block_size], o + 1,
             o + Count(size, block_size, offset, n))

\* read_all: until n bytes are read or the end is reached.
ReadAll(size, block_size, block, offset, n) ==
  LET all[m \in 0 .. n] ==   \* the last m bytes of the n
        LET some == Read(size, block_size, block, offset + n - m, m)
        IN  IF m = 0 \/ offset + n - m >= size THEN <<>> ELSE some \o all[m - Len(some)]
  IN  all[n]

\* RamDisk::read_block and read_all of the disk.
DeviceBlock ==
  [b \in 0 .. DiskSize \div DevBlock - 1 |->
     [j \in 1 .. DevBlock |-> Disk[DevBlock * b + j - 1]]]

Device(offset, n) == ReadAll(DiskSize, DevBlock, DeviceBlock, offset, n)

\* A number of RefSize bytes, the low byte first: the value of the last n bytes.
BlockNumber(s) ==
  LET val[n \in 0 .. RefSize] ==
        IF n = 0 THEN 0 ELSE s[RefSize - n + 1] + 256 * val[n - 1]
  IN  val[RefSize]

\* Seeded fault: always the first number of the indirect block.
RefOffsetFirst(index) == 0

\* Where the indirect block holds the number of a block of the file.
RefOffset(index) == (index - NDirect) * RefSize

\* Node::read_block.
NodeBlock(f) ==
  [index \in 0 .. Len(Layout[f].blocks) - 1 |->
     LET b == IF index < NDirect
              THEN Layout[f].blocks[index + 1]
              ELSE BlockNumber(Device(Layout[f].indirect * FsBlock + RefOffset(index), RefSize))
     IN  Device(b * FsBlock, FsBlock)]

NodeRead(f, offset, n) == ReadAll(Layout[f].size, FsBlock, NodeBlock(f), offset, n)

-----------------------------------------------------------------------------
(* The system calls.                                                       *)

Fd == 0 .. maxFds - 1

Closed == [used |-> FALSE, inode |-> 0, offset |-> 0]

FilesInit ==
  /\ fdTable = [fd \in Fd |-> Closed]
  /\ began = [fd \in Fd |-> 0]
  /\ bytes = [fd \in Fd |-> <<>>]

FreeFds == {fd \in Fd : fd >= 3 /\ ~fdTable[fd].used}

Restart(fd, offset) ==
  /\ began' = [began EXCEPT ![fd] = offset]
  /\ bytes' = [bytes EXCEPT ![fd] = <<>>]

\* open of a path that names the file f.
Open(f) ==
  /\ FreeFds # {}
  /\ LET fd == Min(FreeFds)
     IN  /\ fdTable' = [fdTable EXCEPT ![fd] = [used |-> TRUE, inode |-> f, offset |-> 0]]
         /\ Restart(fd, 0)

Close(fd) ==
  /\ fdTable[fd].used
  /\ fdTable' = [fdTable EXCEPT ![fd] = Closed]
  /\ Restart(fd, 0)

\* The part of a read request that lies in the file.
ToRead(fd, n) == Min({n, Layout[fdTable[fd].inode].size - fdTable[fd].offset})

ReadFd(fd, n) ==
  /\ fdTable[fd].used
  /\ fdTable[fd].offset < Layout[fdTable[fd].inode].size
  /\ LET got == NodeRead(fdTable[fd].inode, fdTable[fd].offset, ToRead(fd, n))
     IN  /\ fdTable' = [fdTable EXCEPT ![fd].offset = @ + Len(got)]
         /\ bytes' = [bytes EXCEPT ![fd] = @ \o got]
  /\ UNCHANGED began

Lseek(fd, offset) ==
  /\ fdTable[fd].used
  /\ offset <= Layout[fdTable[fd].inode].size
  /\ fdTable' = [fdTable EXCEPT ![fd].offset = offset]
  /\ Restart(fd, offset)

FilesNext ==
  \/ \E f \in Inode : Open(f)
  \/ \E fd \in Fd :
       \/ Close(fd)
       \/ \E n \in ReadLen : ReadFd(fd, n)
       \/ \E o \in SeekTo : Lseek(fd, o)

FilesSpec == FilesInit /\ [][FilesNext]_fileVars

-----------------------------------------------------------------------------
(* Properties.                                                             *)

\* The reads through a descriptor deliver the bytes of its file in order, without
\* gap or repetition, from where it was opened or set to up to its offset: however
\* the requests lie to the blocks of the file and of the disk, across the change
\* from direct to indirect blocks and at the end of the file, and whatever is
\* opened and closed in between.
ReadsContiguous ==
  \A fd \in Fd : fdTable[fd].used =>
     bytes[fd] = [k \in 1 .. fdTable[fd].offset - began[fd] |->
                    FileByte(fdTable[fd].inode, began[fd] + k - 1)]
=============================================================================
