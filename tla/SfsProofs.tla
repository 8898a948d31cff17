----------------------------- MODULE SfsProofs -----------------------------
(***************************************************************************)
(* Theorems about the file system, for a disk, files and buffers of any    *)
(* size.  Every table and block has its shape, and an open descriptor      *)
(* points into its file.  However sfs_fwrite allocates blocks and          *)
(* sfs_remove frees them, across the i-node table, the free block list and *)
(* the blocks of pointers, no block serves two purposes and a block in use *)
(* is never free: when the disk is full, and when files are given the      *)
(* block of the root directory.                                            *)
(***************************************************************************)
EXTENDS Sfs, Extrema, FiniteSetTheorems, SequenceTheorems

(* What a block, a block write and a call in progress are made of.  A       *)
(* pointer never leads to the last block, which holds the free block list:  *)
(* the block behind one that a file has is still a block of the disk.       *)
SoundPointer == Allocatable \cup {-1}
SoundInode ==
  [size : 0 .. MaxFileSize \cup {-1},
   direct : [0 .. DIRECT_POINTERS - 1 -> SoundPointer],
   indirect : SoundPointer]
Pointers == [0 .. INDIRECT_POINTERS - 1 -> SoundPointer]
Names == [Slot -> Name \cup {Empty}]

Contents ==
  {Zeros, SuperBlock}
    \cup [is : {"inodes"}, inodes : [Slot -> SoundInode]]
    \cup [is : {"directory"}, names : Names]
    \cup [is : {"map"}, free : SUBSET Allocatable]
    \cup [is : {"pointers"}, pointers : Pointers]
    \cup [is : {"data"}, bytes : Bytes]
BlockWrite == [at : Block, contents : Contents]

Data == Seq(Byte \cup {Junk})
WriteCall ==
  [op : {"sfs_fwrite"}, fd : Slot, blockIndex : Nat, rwPointer : Int,
   fileSize : Nat, old : Data, fileData : Data]
OtherCall ==
  [op : {"none", "return", "sfs_fopen", "sfs_remove"}, fd : Slot \cup {-1}]

MemoryOK ==
  /\ directoryEntries \in Names
  /\ iNodes \in [Slot -> SoundInode]
  /\ freeBlocks \in SUBSET Allocatable
  /\ read_writePointers \in [Slot -> 0 .. MaxFileSize \cup {-1}]
  /\ interrupted \in BOOLEAN
DiskOK == disk \in [Block -> Contents] /\ pending \in Seq(BlockWrite)

(* sfs_fwrite holds data for every block it will write, works on an open   *)
(* descriptor, and passes the direct pointers only with a block of         *)
(* indirect ones.                                                          *)
CallOK ==
  /\ call \in WriteCall \cup OtherCall
  /\ call.op = "sfs_fwrite" =>
       /\ Len(call.fileData) = Ceiling(call.fileSize) * DISK_BLOCK_SIZE
       /\ call.blockIndex <= DIRECT_POINTERS + INDIRECT_POINTERS
       /\ call.blockIndex > DIRECT_POINTERS => iNodes[call.fd].indirect >= 0
       /\ IsOpen(call.fd)

IInv == MemoryOK /\ DiskOK /\ CallOK /\ PointerWithinFile

-----------------------------------------------------------------------------
(* Arithmetic of blocks.                                                   *)

(* More blocks hold more bytes. *)
LEMMA Monotonic ==
  ASSUME NEW a \in Int, NEW b \in Int, NEW c \in Nat, a <= b
  PROVE  a * c <= b * c
  <1>1. (b - a) * c = b * c - a * c
    OBVIOUS
  <1>2. (b - a) * c >= 0
    OBVIOUS
  <1>3. a * c \in Int /\ b * c \in Int
    OBVIOUS
  <1>4. QED
    BY <1>1, <1>2, <1>3

(* A byte's place: its block and its offset in the block. *)
LEMMA Division ==
  ASSUME NEW n \in Nat, NEW d \in Nat \ {0}
  PROVE  /\ n \div d \in Nat
         /\ n % d \in 0 .. d - 1
         /\ n = (n \div d) * d + (n % d)
  OBVIOUS

(* The bytes of a file fit in the blocks it has. *)
LEMMA CeilingBound ==
  ASSUME NEW n \in Nat
  PROVE  /\ Ceiling(n) \in Nat
         /\ n <= Ceiling(n) * DISK_BLOCK_SIZE
  <1> DEFINE q == n \div DISK_BLOCK_SIZE
             r == n % DISK_BLOCK_SIZE
             c == Ceiling(n)
  <1>0. DISK_BLOCK_SIZE \in Nat \ {0}
    BY SizeAssumption
  <1>1. q \in Nat /\ r \in 0 .. DISK_BLOCK_SIZE - 1 /\ n = q * DISK_BLOCK_SIZE + r
    BY <1>0, Division
  <1>2. c = IF r = 0 THEN q ELSE q + 1
    BY <1>1 DEF Ceiling
  <1> HIDE DEF q, r, c
  <1>3. q * DISK_BLOCK_SIZE \in Nat
        /\ (q + 1) * DISK_BLOCK_SIZE = q * DISK_BLOCK_SIZE + DISK_BLOCK_SIZE
    BY <1>0, <1>1
  <1>4. c \in Nat /\ n <= c * DISK_BLOCK_SIZE
    BY <1>0, <1>1, <1>2, <1>3
  <1>5. QED
    BY <1>4 DEF c

(* Byte i of the first k blocks lies in one of them. *)
LEMMA BlockOfByte ==
  ASSUME NEW k \in Nat, NEW n \in Nat, n < k * DISK_BLOCK_SIZE
  PROVE  n \div DISK_BLOCK_SIZE \in 0 .. k - 1
  <1> DEFINE q == n \div DISK_BLOCK_SIZE
             r == n % DISK_BLOCK_SIZE
  <1>0. DISK_BLOCK_SIZE \in Nat \ {0}
    BY SizeAssumption
  <1>1. q \in Nat /\ r \in 0 .. DISK_BLOCK_SIZE - 1 /\ n = q * DISK_BLOCK_SIZE + r
    BY <1>0, Division
  <1> HIDE DEF q, r
  <1>2. q * DISK_BLOCK_SIZE \in Nat /\ k * DISK_BLOCK_SIZE \in Nat
    BY <1>0, <1>1
  <1>3. q * DISK_BLOCK_SIZE < k * DISK_BLOCK_SIZE
    BY <1>0, <1>1, <1>2
  <1>4. ~ k <= q
    BY <1>0, <1>1, <1>2, <1>3, Monotonic
  <1>5. q \in 0 .. k - 1
    BY <1>1, <1>4
  <1>6. QED
    BY <1>5 DEF q

(* A file of no more blocks than an i-node can point to. *)
LEMMA SizeOfBlocks ==
  ASSUME NEW n \in Nat, Ceiling(n) <= DIRECT_POINTERS + INDIRECT_POINTERS
  PROVE  n \in 0 .. MaxFileSize
  <1>0. /\ DISK_BLOCK_SIZE \in Nat
        /\ DIRECT_POINTERS + INDIRECT_POINTERS \in Nat
    BY SizeAssumption
  <1>1. Ceiling(n) \in Nat /\ n <= Ceiling(n) * DISK_BLOCK_SIZE
    BY CeilingBound
  <1>2. Ceiling(n) * DISK_BLOCK_SIZE <= MaxFileSize
    BY <1>0, <1>1, Monotonic DEF MaxFileSize
  <1>3. Ceiling(n) * DISK_BLOCK_SIZE \in Nat /\ MaxFileSize \in Nat
    BY <1>0, <1>1 DEF MaxFileSize
  <1>4. QED
    BY <1>1, <1>2, <1>3

(* And the other way round. *)
LEMMA BlocksOfSize ==
  ASSUME NEW n \in 0 .. MaxFileSize
  PROVE  Ceiling(n) <= DIRECT_POINTERS + INDIRECT_POINTERS
  <1> DEFINE P == DIRECT_POINTERS + INDIRECT_POINTERS
             q == n \div DISK_BLOCK_SIZE
             r == n % DISK_BLOCK_SIZE
  <1>0. DISK_BLOCK_SIZE \in Nat \ {0} /\ P \in Nat
    BY SizeAssumption
  <1>1. n \in Nat /\ P * DISK_BLOCK_SIZE \in Nat /\ n <= P * DISK_BLOCK_SIZE
    BY <1>0 DEF MaxFileSize
  <1>2. q \in Nat /\ r \in 0 .. DISK_BLOCK_SIZE - 1 /\ n = q * DISK_BLOCK_SIZE + r
    BY <1>0, <1>1, Division
  <1>3. Ceiling(n) = IF r = 0 THEN q ELSE q + 1
    BY <1>2 DEF Ceiling
  <1> HIDE DEF q, r, P
  <1>4. CASE r = 0
    <2>1. SUFFICES ASSUME P + 1 <= q PROVE FALSE
      BY <1>0, <1>2, <1>3, <1>4 DEF P
    <2>2. (P + 1) * DISK_BLOCK_SIZE <= q * DISK_BLOCK_SIZE
      BY <1>0, <1>2, <2>1, Monotonic
    <2>3. (P + 1) * DISK_BLOCK_SIZE = P * DISK_BLOCK_SIZE + DISK_BLOCK_SIZE
      BY <1>0
    <2>4. q * DISK_BLOCK_SIZE \in Nat
      BY <1>0, <1>2
    <2>5. QED
      BY <1>0, <1>1, <1>2, <1>4, <2>2, <2>3, <2>4
  <1>5. CASE r # 0
    <2>1. SUFFICES ASSUME P <= q PROVE FALSE
      BY <1>0, <1>2, <1>3, <1>5 DEF P
    <2>2. P * DISK_BLOCK_SIZE <= q * DISK_BLOCK_SIZE
      BY <1>0, <1>2, <2>1, Monotonic
    <2>3. q * DISK_BLOCK_SIZE \in Nat
      BY <1>0, <1>2
    <2>4. QED
      BY <1>0, <1>1, <1>2, <1>5, <2>2, <2>3
  <1>6. QED
    BY <1>4, <1>5

-----------------------------------------------------------------------------
(* What is read from and written to the disk.                              *)

(* The constants, in the form the proofs need them. *)
LEMMA Sizes ==
  /\ {TOTAL_FILES, DIRECT_POINTERS, INDIRECT_POINTERS, DISK_BLOCK_SIZE}
       \subseteq Nat \ {0}
  /\ MaxFileSize \in Nat
  /\ FreeBlockListIndex \in Nat \ {0}
  /\ {SuperBlockIndex, iNodeTableIndex, RootDirectoryIndex, FreeBlockListIndex}
       \subseteq Block
  /\ 0 \in Allocatable
  /\ \A p \in SoundPointer :
       p \in Int /\ IF p >= 0 THEN p \in Allocatable /\ p \in Block ELSE p = -1
  BY SizeAssumption, LayoutAssumption
     DEF MaxFileSize, Block, Allocatable, SoundPointer, SuperBlockIndex,
         iNodeTableIndex

(* The blocks the code writes. *)
LEMMA Writes ==
  /\ \A t \in [Slot -> SoundInode] : TableWrite(t) \in BlockWrite
  /\ \A names \in Names : DirectoryWrite(names) \in BlockWrite
  /\ \A free \in SUBSET Allocatable : MapWrite(free) \in BlockWrite
  /\ \A b \in Block, p \in Pointers : At(b, PointerBlock(p)) \in BlockWrite
  /\ \A b \in Block, bytes \in Bytes : At(b, DataBlock(bytes)) \in BlockWrite
  <1>1. \A t \in [Slot -> SoundInode] : TableBlock(t) \in Contents
    BY DEF TableBlock, Contents
  <1>2. \A names \in Names : DirectoryBlock(names) \in Contents
    BY DEF DirectoryBlock, Contents
  <1>3. \A free \in SUBSET Allocatable : MapBlock(free) \in Contents
    BY DEF MapBlock, Contents
  <1>4. \A p \in Pointers : PointerBlock(p) \in Contents
    BY DEF PointerBlock, Contents
  <1>5. \A bytes \in Bytes : DataBlock(bytes) \in Contents
    BY DEF DataBlock, Contents
  <1>6. QED
    BY <1>1, <1>2, <1>3, <1>4, <1>5, Sizes
       DEF TableWrite, DirectoryWrite, MapWrite, At, BlockWrite

(* What a block holds when its kind is known. *)
LEMMA Kinds ==
  ASSUME NEW c \in Contents
  PROVE  /\ c.is = "inodes" => c.inodes \in [Slot -> SoundInode]
         /\ c.is = "directory" => c.names \in Names
         /\ c.is = "map" => c.free \in SUBSET Allocatable
         /\ c.is = "pointers" => c.pointers \in Pointers
         /\ c.is = "data" => c.bytes \in Bytes
         /\ \/ c \in {Zeros, SuperBlock}
            \/ c.is \in {"inodes", "directory", "map", "pointers", "data"}
  <1>1. CASE c \in {Zeros, SuperBlock}
    BY <1>1 DEF Zeros, SuperBlock
  <1>2. CASE c \in [is : {"inodes"}, inodes : [Slot -> SoundInode]]
    BY <1>2
  <1>3. CASE c \in [is : {"directory"}, names : Names]
    BY <1>3
  <1>4. CASE c \in [is : {"map"}, free : SUBSET Allocatable]
    BY <1>4
  <1>5. CASE c \in [is : {"pointers"}, pointers : Pointers]
    BY <1>5
  <1>6. CASE c \in [is : {"data"}, bytes : Bytes]
    BY <1>6
  <1>7. QED
    BY <1>1, <1>2, <1>3, <1>4, <1>5, <1>6 DEF Contents

(* What a block holds after the pending writes. *)
LEMMA LatestContents ==
  ASSUME DiskOK, NEW b \in Block
  PROVE  Latest(b) \in Contents
  <1> DEFINE writes == {i \in DOMAIN pending : pending[i].at = b}
  <1>1. CASE writes = {}
    BY <1>1 DEF Latest, DiskOK
  <1>2. CASE writes # {}
    <2>1. writes \in SUBSET (0 .. Len(pending)) /\ Len(pending) \in Nat
      BY DEF DiskOK
    <2>2. Max(writes) \in writes
      BY <1>2, <2>1, MaxIsMember
    <2>3. pending[Max(writes)] \in BlockWrite
      BY <2>2, ElementOfSeq DEF DiskOK
    <2>4. pending[Max(writes)].contents \in Contents
      BY <2>3 DEF BlockWrite
    <2>5. QED
      BY <1>2, <2>4 DEF Latest
  <1>3. QED
    BY <1>1, <1>2

(* The block pointers of a file. *)
LEMMA BlockNumbers ==
  ASSUME MemoryOK, DiskOK, NEW s \in Slot
  PROVE  /\ IndirectPointers(s) \in Pointers
         /\ \A k \in 0 .. DIRECT_POINTERS + INDIRECT_POINTERS - 1 :
              BlockNumber(s, k) \in SoundPointer
         /\ \A k \in Nat : k >= DIRECT_POINTERS /\ iNodes[s].indirect < 0
              /\ k < DIRECT_POINTERS + INDIRECT_POINTERS
              => BlockNumber(s, k) = -1
  <1> DEFINE b == iNodes[s].indirect
  <1>1. iNodes[s] \in SoundInode /\ b \in SoundPointer
    BY DEF MemoryOK, SoundInode
  <1>2. NoPointers \in Pointers
    BY DEF NoPointers, Pointers, SoundPointer
  <1>3. ASSUME b >= 0, Latest(b).is = "pointers" PROVE Latest(b).pointers \in Pointers
    <2>1. b \in Block
      BY <1>1, <1>3, Sizes
    <2>2. Latest(b) \in Contents
      BY <2>1, LatestContents
    <2>3. QED
      BY <1>3, <2>2, Kinds
  <1>4. IndirectPointers(s) \in Pointers
    BY <1>2, <1>3 DEF IndirectPointers
  <1>5. ASSUME NEW k \in 0 .. DIRECT_POINTERS + INDIRECT_POINTERS - 1
        PROVE  BlockNumber(s, k) \in SoundPointer
    <2>1. CASE k < DIRECT_POINTERS
      <3>1. iNodes[s].direct \in [0 .. DIRECT_POINTERS - 1 -> SoundPointer]
        BY <1>1 DEF SoundInode
      <3>2. QED
        BY ONLY <2>1, <3>1, k \in Nat, Sizes DEF BlockNumber
    <2>2. CASE ~ k < DIRECT_POINTERS
      <3>1. k - DIRECT_POINTERS \in 0 .. INDIRECT_POINTERS - 1
        BY <2>2, Sizes
      <3>2. QED
        BY <1>4, <2>2, <3>1 DEF BlockNumber, Pointers
    <2>3. QED
      BY <2>1, <2>2
  <1>6. ASSUME NEW k \in Nat, k >= DIRECT_POINTERS, b < 0,
               k < DIRECT_POINTERS + INDIRECT_POINTERS
        PROVE  BlockNumber(s, k) = -1
    <2>1. IndirectPointers(s) = NoPointers
      <3>1. ~ b >= 0
        BY <1>1, <1>6, Sizes
      <3>2. QED
        BY <3>1 DEF IndirectPointers
    <2>2. k - DIRECT_POINTERS \in 0 .. INDIRECT_POINTERS - 1 /\ ~ k < DIRECT_POINTERS
      BY <1>6, Sizes
    <2>3. QED
      BY <2>1, <2>2 DEF BlockNumber, NoPointers
  <1>7. QED
    BY <1>4, <1>5, <1>6

(* The bytes of a file. *)
LEMMA ContentOfFile ==
  ASSUME MemoryOK, DiskOK, NEW s \in Slot, iNodes[s].size >= 0
  PROVE  Content(s) \in Data /\ Len(Content(s)) = iNodes[s].size
  <1> DEFINE n == iNodes[s].size
             number(i) == BlockNumber(s, (i - 1) \div DISK_BLOCK_SIZE)
             value(i) == IF number(i) >= 0 /\ Latest(number(i)).is = "data"
                         THEN Latest(number(i)).bytes[((i - 1) % DISK_BLOCK_SIZE) + 1]
                         ELSE Junk
  <1>1. n \in Nat /\ n <= MaxFileSize /\ MaxFileSize \in Nat
    <2>1. iNodes[s] \in SoundInode
      BY DEF MemoryOK
    <2>2. n \in 0 .. MaxFileSize \cup {-1}
      BY <2>1 DEF SoundInode
    <2>3. QED
      BY <2>2, Sizes
  <1>2. ASSUME NEW i \in 1 .. n PROVE value(i) \in Byte \cup {Junk}
    <2>1. i - 1 \in Nat /\ i - 1 < MaxFileSize
      BY <1>1
    <2>2. (i - 1) \div DISK_BLOCK_SIZE \in 0 .. DIRECT_POINTERS + INDIRECT_POINTERS - 1
      BY <2>1, BlockOfByte, Sizes DEF MaxFileSize
    <2>3. number(i) \in SoundPointer
      BY <2>2, BlockNumbers
    <2>4. (i - 1) % DISK_BLOCK_SIZE \in 0 .. DISK_BLOCK_SIZE - 1
      BY <2>1, Division, Sizes
    <2>5. CASE number(i) >= 0 /\ Latest(number(i)).is = "data"
      <3>1. number(i) \in Block
        BY <2>3, <2>5, Sizes
      <3>2. Latest(number(i)) \in Contents
        BY <3>1, LatestContents
      <3>3. Latest(number(i)).bytes \in Bytes
        BY <2>5, <3>2, Kinds
      <3> HIDE DEF number
      <3>4. ((i - 1) % DISK_BLOCK_SIZE) + 1 \in 1 .. DISK_BLOCK_SIZE
        BY <2>4, Sizes
      <3>5. QED
        BY <2>5, <3>3, <3>4 DEF Bytes
    <2>6. CASE ~ (number(i) >= 0 /\ Latest(number(i)).is = "data")
      BY <2>6
    <2>7. QED
      BY <2>5, <2>6
  <1>3. Content(s) = [i \in 1 .. n |-> value(i)]
    BY DEF Content
  <1> HIDE DEF n, value
  <1>4. QED
    BY <1>1, <1>2, <1>3 DEF Data, n

(* A table in which one i-node was changed. *)
LEMMA InodeChanged ==
  ASSUME NEW t \in [Slot -> SoundInode], NEW s \in Slot
  PROVE  /\ \A n \in 0 .. MaxFileSize \cup {-1} :
              LET u == [t EXCEPT ![s].size = n]
              IN  /\ u \in [Slot -> SoundInode]
                  /\ \A i \in Slot : /\ u[i].size = IF i = s THEN n ELSE t[i].size
                                     /\ u[i].indirect = t[i].indirect
         /\ \A k \in 0 .. DIRECT_POINTERS - 1, b \in SoundPointer :
              LET u == [t EXCEPT ![s].direct[k] = b]
              IN  /\ u \in [Slot -> SoundInode]
                  /\ \A i \in Slot : /\ u[i].size = t[i].size
                                     /\ u[i].indirect = t[i].indirect
         /\ \A b \in SoundPointer :
              LET u == [t EXCEPT ![s].indirect = b]
              IN  /\ u \in [Slot -> SoundInode]
                  /\ \A i \in Slot :
                       /\ u[i].size = t[i].size
                       /\ u[i].indirect = IF i = s THEN b ELSE t[i].indirect
  <1>1. \A i \in Slot :
          /\ t[i] \in SoundInode
          /\ t[i].direct \in [0 .. DIRECT_POINTERS - 1 -> SoundPointer]
    BY DEF SoundInode
  <1>2. ASSUME NEW n \in 0 .. MaxFileSize \cup {-1}
        PROVE  LET u == [t EXCEPT ![s].size = n]
               IN  /\ u \in [Slot -> SoundInode]
                   /\ \A i \in Slot : /\ u[i].size = IF i = s THEN n ELSE t[i].size
                                      /\ u[i].indirect = t[i].indirect
    BY <1>1 DEF SoundInode
  <1>3. ASSUME NEW k \in 0 .. DIRECT_POINTERS - 1, NEW b \in SoundPointer
        PROVE  LET u == [t EXCEPT ![s].direct[k] = b]
               IN  /\ u \in [Slot -> SoundInode]
                   /\ \A i \in Slot : /\ u[i].size = t[i].size
                                      /\ u[i].indirect = t[i].indirect
    <2>1. [t[s].direct EXCEPT ![k] = b] \in [0 .. DIRECT_POINTERS - 1 -> SoundPointer]
      BY <1>1
    <2>2. QED
      BY <1>1, <2>1 DEF SoundInode
  <1>4. ASSUME NEW b \in SoundPointer
        PROVE  LET u == [t EXCEPT ![s].indirect = b]
               IN  /\ u \in [Slot -> SoundInode]
                   /\ \A i \in Slot :
                        /\ u[i].size = t[i].size
                        /\ u[i].indirect = IF i = s THEN b ELSE t[i].indirect
    BY <1>1 DEF SoundInode
  <1>5. QED
    BY <1>2, <1>3, <1>4

(* The lowest free block can be given to a file. *)
LEMMA LowestFree ==
  ASSUME NEW free \in SUBSET Allocatable, free # {}
  PROVE  /\ Min(free) \in free
         /\ Min(free) \in SoundPointer /\ Min(free) \in Block /\ Min(free) >= 0
  <1>1. free \in SUBSET Nat /\ Allocatable \subseteq Block /\ Allocatable \subseteq Nat
    BY Sizes DEF Allocatable, Block
  <1>2. Min(free) \in free
    BY <1>1, MinIsMember
  <1> DEFINE b == Min(free)
  <1> HIDE DEF b
  <1>3. b \in free
    BY <1>2 DEF b
  <1>4. b \in SoundPointer /\ b \in Block /\ b >= 0
    BY <1>1, <1>3 DEF SoundPointer
  <1>5. QED
    BY <1>2, <1>4 DEF b

(* When two blocks are free there is one beside the lowest. *)
LEMMA TwoFree ==
  ASSUME NEW free \in SUBSET Allocatable
  PROVE  /\ Cardinality(free) >= 1 => free # {}
         /\ Cardinality(free) >= 2 => free # {} /\ free \ {Min(free)} # {}
  <1>1. IsFiniteSet(Allocatable)
    BY FS_Interval, Sizes DEF Allocatable
  <1>2. IsFiniteSet(free) /\ Cardinality(free) \in Nat
    BY <1>1, FS_Subset, FS_CardinalityType
  <1>3. Cardinality(free) >= 1 => free # {}
    BY FS_EmptySet
  <1>4. ASSUME Cardinality(free) >= 2 PROVE free \ {Min(free)} # {}
    <2>1. Cardinality(free \ {Min(free)}) >= 1
      BY <1>2, <1>4, FS_RemoveElement
    <2>2. QED
      BY <2>1, FS_EmptySet
  <1>5. QED
    BY <1>2, <1>3, <1>4

-----------------------------------------------------------------------------
(* Every step keeps the invariant.                                         *)

(* What mksfs(1) fills memory and disk with, and what a new process holds. *)
LEMMA FreshStateOK ==
  /\ FreshNames \in Names
  /\ FreshInodes \in [Slot -> SoundInode]
  /\ [s \in Slot |-> ZeroInode] \in [Slot -> SoundInode]
  /\ FreshMap \in SUBSET Allocatable
  /\ FreshDisk \in [Block -> Contents]
  /\ NoCall \in OtherCall /\ NoCall.op = "none"
  <1>1. FreshNames \in Names
    BY DEF FreshNames, Names
  <1>2. UnusedInode \in SoundInode /\ ZeroInode \in SoundInode
    BY Sizes DEF UnusedInode, ZeroInode, SoundInode, SoundPointer
  <1>3. FreshInodes \in [Slot -> SoundInode]
    BY <1>2 DEF FreshInodes
  <1>4. FreshMap \in SUBSET Allocatable
    BY LayoutAssumption, Sizes DEF FreshMap, Allocatable, iNodeTableIndex
  <1>5. TableBlock(FreshInodes) \in Contents
    BY <1>3 DEF TableBlock, Contents
  <1>6. DirectoryBlock(FreshNames) \in Contents
    BY <1>1 DEF DirectoryBlock, Contents
  <1>7. MapBlock(FreshMap) \in Contents
    BY <1>4 DEF MapBlock, Contents
  <1>8. Zeros \in Contents /\ SuperBlock \in Contents
    BY DEF Contents
  <1>9. FreshDisk \in [Block -> Contents]
    BY <1>5, <1>6, <1>7, <1>8 DEF FreshDisk
  <1>10. NoCall \in OtherCall /\ NoCall.op = "none"
    BY DEF NoCall, OtherCall
  <1>11. QED
    BY <1>1, <1>2, <1>3, <1>4, <1>9, <1>10

(* The file system that mksfs(1) makes satisfies the invariant. *)
THEOREM Initially == Init => IInv
  <1> SUFFICES ASSUME Init PROVE IInv
    OBVIOUS
  <1>1. MemoryOK
    BY FreshStateOK DEF Init, MemoryOK
  <1>2. DiskOK
    BY FreshStateOK DEF Init, DiskOK
  <1>3. CallOK
    BY FreshStateOK DEF Init, CallOK
  <1>4. PointerWithinFile
    BY DEF Init, PointerWithinFile, IsOpen
  <1>5. QED
    BY <1>1, <1>2, <1>3, <1>4 DEF IInv

(* The facts of the invariant that most steps need. *)
LEMMA OpenFile ==
  ASSUME IInv, NEW fd \in Slot
  PROVE  /\ iNodes[fd].size \in 0 .. MaxFileSize \cup {-1}
         /\ iNodes[fd].indirect \in SoundPointer
         /\ read_writePointers[fd] \in Int
         /\ IsOpen(fd) => /\ directoryEntries[fd] # Empty
                          /\ read_writePointers[fd] >= 0
                          /\ read_writePointers[fd] <= iNodes[fd].size
                          /\ iNodes[fd].size \in 0 .. MaxFileSize
  <1>1. iNodes[fd] \in SoundInode
    BY DEF IInv, MemoryOK
  <1>2. iNodes[fd].size \in 0 .. MaxFileSize \cup {-1}
        /\ iNodes[fd].indirect \in SoundPointer
    BY <1>1 DEF SoundInode
  <1>3. read_writePointers[fd] \in Int
    BY Sizes DEF IInv, MemoryOK
  <1>4. ASSUME IsOpen(fd)
        PROVE  /\ directoryEntries[fd] # Empty
               /\ read_writePointers[fd] >= 0
               /\ read_writePointers[fd] <= iNodes[fd].size
               /\ iNodes[fd].size \in 0 .. MaxFileSize
    <2>1. /\ directoryEntries[fd] # Empty
          /\ read_writePointers[fd] >= 0
          /\ read_writePointers[fd] <= iNodes[fd].size
      BY <1>4 DEF IInv, PointerWithinFile, IsOpen
    <2>2. QED
      BY <1>2, <1>3, <2>1, Sizes
  <1>5. QED
    BY <1>2, <1>3, <1>4

(* A step that changes only the pointer of one descriptor. *)
LEMMA PointerMoved ==
  ASSUME IInv, NEW fd \in Slot, NEW to, NEW outcome, MovePointer(fd, to, outcome),
         \/ to = -1
         \/ /\ directoryEntries[fd] # Empty
            /\ to \in Int /\ -1 <= to /\ to <= iNodes[fd].size
  PROVE  IInv'
  <1>1. to \in 0 .. MaxFileSize \cup {-1}
    BY OpenFile, Sizes
  <1>2. read_writePointers' = [read_writePointers EXCEPT ![fd] = to]
    BY DEF MovePointer
  <1>3. MemoryOK'
    BY <1>1, <1>2 DEF IInv, MemoryOK, MovePointer
  <1>4. DiskOK'
    BY DEF IInv, DiskOK, MovePointer
  <1>5. CallOK'
    BY FreshStateOK DEF CallOK, MovePointer, Idle
  <1>6. PointerWithinFile'
    <2> SUFFICES ASSUME NEW s \in Slot, read_writePointers'[s] >= 0
                 PROVE  /\ directoryEntries'[s] # Empty
                        /\ read_writePointers'[s] <= iNodes'[s].size
      BY DEF PointerWithinFile, IsOpen
    <2>1. directoryEntries' = directoryEntries /\ iNodes' = iNodes
      BY DEF MovePointer
    <2>2. read_writePointers'[s] = IF s = fd THEN to ELSE read_writePointers[s]
      BY <1>2 DEF IInv, MemoryOK
    <2>3. CASE s = fd
      BY <2>1, <2>2, <2>3
    <2>4. CASE s # fd
      BY <2>1, <2>2, <2>4 DEF IInv, PointerWithinFile, IsOpen
    <2>5. QED
      BY <2>3, <2>4
  <1>7. QED
    BY <1>3, <1>4, <1>5, <1>6 DEF IInv

(* A refused call. *)
LEMMA Refused ==
  ASSUME IInv, UNCHANGED << memory, disk, pending, call, interrupted >>
  PROVE  IInv'
  BY DEF IInv, MemoryOK, DiskOK, CallOK, PointerWithinFile, IsOpen, memory

(* A write that reaches the disk: what was pending is of the right shape. *)
LEMMA FlushKeeps == IInv /\ Flush => IInv'
  <1> SUFFICES ASSUME IInv, Flush PROVE IInv'
    OBVIOUS
  <1>1. pending \in Seq(BlockWrite) /\ pending # << >>
    BY DEF IInv, DiskOK, Flush
  <1>2. Head(pending) \in BlockWrite /\ Tail(pending) \in Seq(BlockWrite)
    BY <1>1, HeadTailProperties
  <1>3. DiskOK'
    BY <1>2 DEF IInv, DiskOK, Flush, BlockWrite
  <1>4. MemoryOK'
    BY DEF IInv, MemoryOK, Flush, memory
  <1>5. CallOK'
    <2>1. CASE call' = NoCall
      BY <2>1, FreshStateOK DEF CallOK
    <2>2. CASE call' = call
      BY <2>2 DEF IInv, CallOK, Flush, memory, IsOpen
    <2>3. QED
      BY <2>1, <2>2 DEF Flush
  <1>6. PointerWithinFile'
    BY DEF IInv, PointerWithinFile, IsOpen, Flush, memory
  <1>7. QED
    BY <1>3, <1>4, <1>5, <1>6 DEF IInv

(* sfs_fopen: the pointer of an existing file is put at its end. *)
LEMMA OpenKeeps ==
  ASSUME IInv, NEW n \in Name, sfs_fopen(n)
  PROVE  IInv'
  <1>0. Slot \in SUBSET Nat /\ SlotsOf(n) \in SUBSET Slot /\ EmptySlots \in SUBSET Slot
        /\ n # Empty
    BY NameAssumption DEF Slot, SlotsOf, EmptySlots
  <1>1. CASE OpenExisting(n)
    <2> DEFINE fd == Min(SlotsOf(n))
    <2>1. fd \in SlotsOf(n)
      BY <1>0, <1>1, MinIsMember DEF OpenExisting
    <2>2. fd \in Slot /\ directoryEntries[fd] # Empty
      BY <1>0, <2>1 DEF SlotsOf, Matches
    <2>3. MovePointer(fd, iNodes[fd].size, Success)
      BY <1>1 DEF OpenExisting, MovePointer
    <2> HIDE DEF fd
    <2>4. iNodes[fd].size \in Int /\ -1 <= iNodes[fd].size
      BY <2>2, OpenFile, Sizes
    <2>5. QED
      BY <2>2, <2>3, <2>4, PointerMoved
  <1>2. CASE OpenNew(n)
    <2> DEFINE fd == Min(EmptySlots)
    <2>1. fd \in EmptySlots
      BY <1>0, <1>2, MinIsMember DEF OpenNew
    <2>2. fd \in Slot
      BY <1>0, <2>1
    <2>3. /\ read_writePointers' = [read_writePointers EXCEPT ![fd] = 0]
          /\ iNodes' = [iNodes EXCEPT ![fd].size = 0]
          /\ directoryEntries' = [directoryEntries EXCEPT ![fd] = n]
          /\ call' = [op |-> "sfs_fopen", fd |-> fd]
          /\ pending' = << TableWrite(iNodes'), DirectoryWrite(directoryEntries') >>
          /\ UNCHANGED << freeBlocks, disk, interrupted >>
      BY <1>2 DEF OpenNew
    <2> HIDE DEF fd
    <2>4. directoryEntries' \in Names
      BY <2>3 DEF IInv, MemoryOK, Names
    <2>5. /\ iNodes' \in [Slot -> SoundInode]
          /\ \A s \in Slot : iNodes'[s].size = IF s = fd THEN 0 ELSE iNodes[s].size
      <3>1. iNodes \in [Slot -> SoundInode] /\ 0 \in 0 .. MaxFileSize \cup {-1}
        BY Sizes DEF IInv, MemoryOK
      <3> DEFINE u == [iNodes EXCEPT ![fd].size = 0]
      <3>2. /\ u \in [Slot -> SoundInode]
            /\ \A s \in Slot : u[s].size = IF s = fd THEN 0 ELSE iNodes[s].size
        BY <2>2, <3>1, InodeChanged
      <3>3. QED
        BY <2>3, <3>2
    <2>6. MemoryOK'
      BY <2>2, <2>3, <2>4, <2>5, Sizes DEF IInv, MemoryOK
    <2>7. DiskOK'
      <3>1. TableWrite(iNodes') \in BlockWrite
            /\ DirectoryWrite(directoryEntries') \in BlockWrite
        BY <2>4, <2>5, Writes
      <3>2. QED
        BY <2>3, <3>1 DEF IInv, DiskOK
    <2>8. CallOK'
      BY <2>2, <2>3 DEF CallOK, OtherCall
    <2>9. PointerWithinFile'
      BY <1>0, <2>2, <2>3, <2>5 DEF IInv, MemoryOK, Names, PointerWithinFile, IsOpen
    <2>10. QED
      BY <2>6, <2>7, <2>8, <2>9 DEF IInv
  <1>3. CASE OpenFails(n)
    BY <1>3, Refused DEF OpenFails
  <1>4. QED
    BY <1>1, <1>2, <1>3 DEF sfs_fopen

(* sfs_fclose, sfs_fseek and sfs_fread move the pointer within the file. *)
LEMMA SmallCallKeeps ==
  ASSUME IInv, NEW fd \in Slot,
         \/ sfs_fclose(fd)
         \/ \E location \in 0 .. MaxFileSize : sfs_fseek(fd, location)
         \/ \E count \in 0 .. MaxCount : sfs_fread(fd, count)
  PROVE  IInv'
  <1>0. CASE Refuse
    BY <1>0, Refused DEF Refuse
  <1>1. CASE sfs_fclose(fd)
    BY <1>0, <1>1, PointerMoved DEF sfs_fclose
  <1>2. ASSUME NEW location \in 0 .. MaxFileSize, sfs_fseek(fd, location)
        PROVE  IInv'
    <2>1. CASE /\ IsOpen(fd) /\ location <= iNodes[fd].size
               /\ MovePointer(fd, location, Success)
      <3>1. location \in Int /\ -1 <= location
        BY Sizes
      <3>2. QED
        BY <2>1, <3>1, OpenFile, PointerMoved
    <2>2. QED
      BY <1>0, <1>2, <2>1 DEF sfs_fseek
  <1>3. ASSUME NEW count \in 0 .. MaxCount, sfs_fread(fd, count)
        PROVE  IInv'
    <2> DEFINE rw == read_writePointers[fd]
               bytes == Min({count, iNodes[fd].size - rw})
               outcome == [ok |-> TRUE, data |-> SubSeq(Content(fd), rw + 1, rw + bytes)]
    <2>1. CASE IsOpen(fd) /\ MovePointer(fd, rw + bytes, outcome)
      <3>1. /\ directoryEntries[fd] # Empty
            /\ rw \in Int /\ iNodes[fd].size \in Int /\ 0 <= rw /\ rw <= iNodes[fd].size
        BY <2>1, OpenFile, Sizes
      <3>2. count \in Int /\ 0 <= count
        BY SizeAssumption
      <3>3. bytes = IF count <= iNodes[fd].size - rw THEN count
                    ELSE iNodes[fd].size - rw
        BY <3>1, <3>2, MinOfTwo
      <3> HIDE DEF bytes, outcome, rw
      <3>4. rw + bytes \in Int /\ -1 <= rw + bytes /\ rw + bytes <= iNodes[fd].size
        BY <3>1, <3>2, <3>3
      <3>5. QED
        BY <2>1, <3>1, <3>4, PointerMoved
    <2>2. QED
      BY <1>0, <1>3, <2>1 DEF sfs_fread
  <1>4. QED
    BY <1>1, <1>2, <1>3

(* sfs_remove closes the descriptor along with the file. *)
LEMMA RemoveKeeps ==
  ASSUME IInv, NEW n \in Name, sfs_remove(n)
  PROVE  IInv'
  <1>1. CASE Refuse
    BY <1>1, Refused DEF Refuse
  <1>2. CASE RemoveFile(n)
    <2> DEFINE fd == Min(SlotsOf(n))
    <2>1. SlotsOf(n) \in SUBSET Slot /\ SlotsOf(n) \in SUBSET Nat /\ SlotsOf(n) # {}
      BY <1>2 DEF RemoveFile, SlotsOf, Slot
    <2>2. fd \in Slot
      BY <2>1, MinIsMember
    <2>3. /\ freeBlocks' = freeBlocks \cup DataBlocks(fd)
          /\ iNodes' = [iNodes EXCEPT ![fd] = UnusedInode]
          /\ read_writePointers' = [read_writePointers EXCEPT ![fd] = -1]
          /\ directoryEntries' = [directoryEntries EXCEPT ![fd] = Empty]
          /\ pending' = << DirectoryWrite(directoryEntries'), MapWrite(freeBlocks'),
                           TableWrite(iNodes') >>
          /\ call' = [op |-> "sfs_remove", fd |-> fd]
          /\ UNCHANGED << disk, interrupted >>
      BY <1>2 DEF RemoveFile
    <2> HIDE DEF fd
    <2>4. directoryEntries' \in Names
      BY <2>3 DEF IInv, MemoryOK, Names
    <2>5. UnusedInode \in SoundInode
      BY Sizes DEF UnusedInode, SoundInode, SoundPointer
    <2>6. iNodes' \in [Slot -> SoundInode]
      BY <2>3, <2>5 DEF IInv, MemoryOK
    <2>7. freeBlocks' \in SUBSET Allocatable
      <3>1. \A k \in 0 .. DIRECT_POINTERS + INDIRECT_POINTERS - 1 :
              BlockNumber(fd, k) \in SoundPointer
        BY <2>2, BlockNumbers DEF IInv
      <3>2. DataBlocks(fd) \in SUBSET Allocatable
        BY <3>1 DEF DataBlocks, SoundPointer
      <3>3. QED
        BY <2>3, <3>2 DEF IInv, MemoryOK
    <2>8. MemoryOK'
      BY <2>2, <2>3, <2>4, <2>6, <2>7 DEF IInv, MemoryOK
    <2>9. DiskOK'
      <3>1. /\ TableWrite(iNodes') \in BlockWrite
            /\ DirectoryWrite(directoryEntries') \in BlockWrite
            /\ MapWrite(freeBlocks') \in BlockWrite
        BY <2>4, <2>6, <2>7, Writes
      <3>2. QED
        BY <2>3, <3>1 DEF IInv, DiskOK
    <2>10. CallOK'
      BY <2>2, <2>3 DEF CallOK, OtherCall
    <2>11. PointerWithinFile'
      BY <2>2, <2>3 DEF IInv, MemoryOK, Names, PointerWithinFile, IsOpen
    <2>12. QED
      BY <2>8, <2>9, <2>10, <2>11 DEF IInv
  <1>3. QED
    BY <1>1, <1>2 DEF sfs_remove

(* mksfs leaves every descriptor closed. *)
LEMMA MountKeeps == IInv /\ (mksfs_fresh \/ Remount \/ Restart) => IInv'
  <1>1. ASSUME NEW names \in Names, NEW inodes \in [Slot -> SoundInode],
               IInv, mksfs_existing(names, inodes), interrupted' \in BOOLEAN
        PROVE  MemoryOK' /\ PointerWithinFile'
    <2>1. /\ disk[iNodeTableIndex] \in Contents
          /\ disk[RootDirectoryIndex] \in Contents
          /\ disk[FreeBlockListIndex] \in Contents
      BY <1>1, Sizes DEF IInv, DiskOK
    <2>2. /\ disk[iNodeTableIndex].inodes \in [Slot -> SoundInode]
          /\ disk[RootDirectoryIndex].names \in Names
          /\ disk[FreeBlockListIndex].free \in SUBSET Allocatable
      BY <1>1, <2>1, Kinds DEF mksfs_existing, Mountable
    <2>3. directoryEntries' \in Names
      BY <1>1, <2>2 DEF mksfs_existing, Names
    <2>4. iNodes' \in [Slot -> SoundInode]
      BY <1>1, <2>2 DEF mksfs_existing
    <2>5. MemoryOK'
      BY <1>1, <2>2, <2>3, <2>4 DEF mksfs_existing, MemoryOK
    <2>6. PointerWithinFile'
      BY <1>1 DEF mksfs_existing, PointerWithinFile, IsOpen
    <2>7. QED
      BY <2>5, <2>6
  <1>2. ASSUME IInv, mksfs_fresh PROVE IInv'
    <2>1. MemoryOK'
      BY <1>2, FreshStateOK DEF IInv, MemoryOK, mksfs_fresh
    <2>2. DiskOK'
      BY <1>2, FreshStateOK DEF IInv, DiskOK, mksfs_fresh
    <2>3. CallOK'
      BY <1>2, FreshStateOK DEF CallOK, mksfs_fresh, Idle
    <2>4. PointerWithinFile'
      BY <1>2 DEF PointerWithinFile, IsOpen, mksfs_fresh
    <2>5. QED
      BY <2>1, <2>2, <2>3, <2>4 DEF IInv
  <1>3. ASSUME IInv, Remount PROVE IInv'
    <2>1. MemoryOK' /\ PointerWithinFile'
      BY <1>1, <1>3 DEF IInv, MemoryOK, Remount
    <2>2. DiskOK'
      BY <1>3 DEF IInv, DiskOK, Remount
    <2>3. CallOK'
      BY <1>3, FreshStateOK DEF CallOK, Remount, Idle
    <2>4. QED
      BY <2>1, <2>2, <2>3 DEF IInv
  <1>4. ASSUME IInv, Restart PROVE IInv'
    <2>0. interrupted' \in BOOLEAN
      BY <1>4 DEF IInv, MemoryOK, Restart
    <2>1. MemoryOK' /\ PointerWithinFile'
      BY <1>1, <1>4, <2>0, FreshStateOK DEF Restart
    <2>2. DiskOK'
      BY <1>4 DEF IInv, DiskOK, Restart
    <2>3. CallOK'
      BY <1>4, FreshStateOK DEF CallOK, Restart
    <2>4. QED
      BY <2>1, <2>2, <2>3 DEF IInv
  <1>5. QED
    BY <1>2, <1>3, <1>4

(* The buffer of sfs_fwrite covers every block that it will write. *)
LEMMA WriteBeginsKeeps ==
  ASSUME IInv, NEW fd \in Slot, NEW buf \in Buffer, WriteBegins(fd, buf)
  PROVE  IInv'
  <1> DEFINE rw == read_writePointers[fd]
             size == Max({rw + Len(buf), iNodes[fd].size})
             read == AllBlocksKnown(fd)
             bytes == Ceiling(size) * DISK_BLOCK_SIZE
             value(i) ==
               IF i \in rw + 1 .. rw + Len(buf) THEN buf[i - rw]
               ELSE IF read /\ i <= iNodes[fd].size THEN Content(fd)[i]
               ELSE Junk
             data == [i \in 1 .. bytes |-> value(i)]
  <1>1. /\ IsOpen(fd)
        /\ call' = [op |-> "sfs_fwrite", fd |-> fd, blockIndex |-> 0,
                    rwPointer |-> rw, fileSize |-> size, old |-> Content(fd),
                    fileData |-> data]
        /\ read_writePointers' =
             [read_writePointers EXCEPT ![fd] = IF read THEN iNodes[fd].size ELSE 0]
        /\ UNCHANGED << directoryEntries, iNodes, freeBlocks, disk, pending,
                        interrupted >>
    BY DEF WriteBegins
  <1>2. /\ directoryEntries[fd] # Empty
        /\ rw \in Nat /\ iNodes[fd].size \in Nat
        /\ iNodes[fd].size \in 0 .. MaxFileSize
    BY <1>1, OpenFile, Sizes
  <1>3. buf \in Seq(Byte) /\ Len(buf) \in Nat
    <2>1. PICK count \in 0 .. MaxCount : buf \in [1 .. count -> Byte]
      BY DEF Buffer
    <2>2. count \in Nat
      BY SizeAssumption
    <2>3. QED
      BY <2>1, <2>2
  <1>4. size \in Nat
    <2>1. rw + Len(buf) \in Nat
      BY <1>2, <1>3
    <2>2. size = IF rw + Len(buf) >= iNodes[fd].size THEN rw + Len(buf)
                 ELSE iNodes[fd].size
      BY <1>2, <2>1, MaxOfTwo
    <2>3. QED
      BY <1>2, <2>1, <2>2
  <1>5. Ceiling(size) \in Nat /\ bytes \in Nat
    <2> HIDE DEF size
    <2>1. Ceiling(size) \in Nat
      BY <1>4, CeilingBound
    <2>2. QED
      BY <2>1, Sizes
  <1>6. Content(fd) \in Data /\ Len(Content(fd)) = iNodes[fd].size
    BY <1>2, ContentOfFile DEF IInv
  <1>7. ASSUME NEW i \in 1 .. bytes PROVE value(i) \in Byte \cup {Junk}
    <2>0. i \in Int /\ i >= 1
      BY <1>5
    <2>1. CASE i \in rw + 1 .. rw + Len(buf)
      <3>1. i - rw \in 1 .. Len(buf)
        BY <1>2, <1>3, <2>0, <2>1
      <3>2. buf[i - rw] \in Byte
        BY <1>3, <3>1, ElementOfSeq
      <3>3. QED
        BY <2>1, <3>2
    <2>2. CASE i \notin rw + 1 .. rw + Len(buf) /\ read /\ i <= iNodes[fd].size
      <3>1. i \in 1 .. Len(Content(fd))
        BY <1>2, <1>6, <2>0, <2>2
      <3>2. Content(fd)[i] \in Byte \cup {Junk}
        BY <1>6, <3>1, ElementOfSeq DEF Data
      <3>3. QED
        BY <2>2, <3>2
    <2>3. CASE i \notin rw + 1 .. rw + Len(buf) /\ ~ (read /\ i <= iNodes[fd].size)
      BY <2>3
    <2>4. QED
      BY <2>1, <2>2, <2>3
  <1> HIDE DEF rw, size, read, bytes, value
  <1>8. data \in Data /\ Len(data) = bytes
    BY <1>5, <1>7 DEF Data
  <1> HIDE DEF data
  <1>9. MemoryOK'
    BY <1>1, <1>2, Sizes DEF IInv, MemoryOK
  <1>10. DiskOK'
    BY <1>1 DEF IInv, DiskOK
  <1>11. read_writePointers'[fd] \in Nat /\ read_writePointers'[fd] <= iNodes[fd].size
    BY <1>1, <1>2 DEF IInv, MemoryOK
  <1>12. CallOK'
    <2>1. call' \in WriteCall
      BY <1>1, <1>2, <1>4, <1>6, <1>8 DEF WriteCall
    <2>2. /\ call'.fd = fd /\ call'.blockIndex = 0 /\ call'.fileData = data
          /\ call'.fileSize = size
      BY <1>1
    <2>3. Len(call'.fileData) = Ceiling(call'.fileSize) * DISK_BLOCK_SIZE
      BY <1>8, <2>2 DEF bytes
    <2>4. QED
      BY <1>11, <2>1, <2>2, <2>3, Sizes DEF CallOK, IsOpen
  <1>13. PointerWithinFile'
    <2> SUFFICES ASSUME NEW s \in Slot, read_writePointers'[s] >= 0
                 PROVE  /\ directoryEntries'[s] # Empty
                        /\ read_writePointers'[s] <= iNodes'[s].size
      BY DEF PointerWithinFile, IsOpen
    <2>1. CASE s = fd
      BY <1>1, <1>2, <1>11, <2>1
    <2>2. CASE s # fd
      BY <1>1, <2>2 DEF IInv, MemoryOK, PointerWithinFile, IsOpen
    <2>3. QED
      BY <2>1, <2>2
  <1>14. QED
    BY <1>9, <1>10, <1>12, <1>13 DEF IInv

(* The call in progress when the loop of sfs_fwrite runs. *)
LEMMA WriteInProgress ==
  ASSUME IInv, Writing
  PROVE  /\ call \in WriteCall /\ call.fd \in Slot
         /\ blockIndex \in Nat /\ blockIndex <= DIRECT_POINTERS + INDIRECT_POINTERS
         /\ blockIndex > DIRECT_POINTERS => Indirect >= 0
         /\ Indirect \in SoundPointer /\ IsOpen(call.fd)
  <1>1. call \in WriteCall
    BY DEF IInv, CallOK, Writing, OtherCall
  <1>2. call.fd \in Slot /\ call.blockIndex \in Nat
    BY <1>1 DEF WriteCall
  <1>3. QED
    BY <1>1, <1>2, OpenFile DEF IInv, CallOK, Writing, blockIndex, Indirect

(* The data of one block. *)
LEMMA DataOfBlock ==
  ASSUME IInv, Writing, MoreBlocks
  PROVE  SubSeq(call.fileData, blockIndex * DISK_BLOCK_SIZE + 1,
                (blockIndex + 1) * DISK_BLOCK_SIZE) \in Bytes
  <1> DEFINE data == call.fileData
             k == blockIndex
             c == Ceiling(call.fileSize)
             from == k * DISK_BLOCK_SIZE
             to == (k + 1) * DISK_BLOCK_SIZE
  <1>1. call \in WriteCall /\ k \in Nat
    BY WriteInProgress
  <1>2. data \in Data /\ Len(data) = c * DISK_BLOCK_SIZE /\ call.fileSize \in Nat
    BY <1>1 DEF WriteCall, IInv, CallOK, Writing
  <1>3. c \in Nat /\ k + 1 <= c
    <2>1. c \in Nat
      BY ONLY <1>2, CeilingBound
    <2>2. k < c
      BY ONLY MoreBlocks DEF MoreBlocks
    <2>3. QED
      BY ONLY <1>1, <2>1, <2>2
  <1> HIDE DEF data, k, c
  <1>4. to <= c * DISK_BLOCK_SIZE
    <2>1. DISK_BLOCK_SIZE \in Nat /\ k + 1 \in Nat
      BY ONLY <1>1, Sizes
    <2>2. QED
      BY ONLY <1>3, <2>1, Monotonic DEF to
  <1>5. from \in Nat /\ to = from + DISK_BLOCK_SIZE /\ DISK_BLOCK_SIZE \in Nat
    <2>1. k \in Nat /\ DISK_BLOCK_SIZE \in Nat
      BY ONLY <1>1, Sizes
    <2>2. \A m, n \in Nat : m * n \in Nat /\ (m + 1) * n = m * n + n
      OBVIOUS
    <2>3. k * DISK_BLOCK_SIZE \in Nat
          /\ (k + 1) * DISK_BLOCK_SIZE = k * DISK_BLOCK_SIZE + DISK_BLOCK_SIZE
      BY ONLY <2>1, <2>2
    <2>4. QED
      BY ONLY <2>1, <2>3 DEF from, to
  <1> HIDE DEF from, to
  <1>6. SubSeq(data, from + 1, to)
          = [i \in 1 .. DISK_BLOCK_SIZE |-> data[i + from]]
    BY <1>5
  <1>7. \A i \in 1 .. DISK_BLOCK_SIZE : data[i + from] \in Byte \cup {Junk}
    <2> TAKE i \in 1 .. DISK_BLOCK_SIZE
    <2>1. i + from \in 1 .. Len(data)
      BY <1>2, <1>4, <1>5
    <2>2. QED
      BY <1>2, <2>1, ElementOfSeq DEF Data
  <1>8. QED
    BY <1>6, <1>7 DEF Bytes, data, k, from, to

(* One iteration of the loop. *)
LEMMA IterationKeeps ==
  ASSUME IInv, Writing, MoreBlocks, NEW tables \in Seq(BlockWrite), NEW b \in Block,
         WriteData(tables, b),
         blockIndex < DIRECT_POINTERS + INDIRECT_POINTERS,
         freeBlocks' \in SUBSET Allocatable,
         iNodes' \in [Slot -> SoundInode],
         \A s \in Slot : iNodes'[s].size = iNodes[s].size,
         blockIndex >= DIRECT_POINTERS => iNodes'[call.fd].indirect >= 0
  PROVE  IInv'
  <1>1. /\ call' = [call EXCEPT !.blockIndex = blockIndex + 1]
        /\ UNCHANGED << directoryEntries, read_writePointers, disk, interrupted >>
    BY DEF WriteData
  <1>2. MemoryOK'
    BY <1>1 DEF IInv, MemoryOK
  <1>3. DiskOK'
    <2> DEFINE bytes == SubSeq(call.fileData, blockIndex * DISK_BLOCK_SIZE + 1,
                               (blockIndex + 1) * DISK_BLOCK_SIZE)
    <2>1. At(b, DataBlock(bytes)) \in BlockWrite
      BY DataOfBlock, Writes
    <2>2. pending' = Append(tables, At(b, DataBlock(bytes)))
      BY DEF WriteData
    <2> HIDE DEF bytes
    <2>3. pending' \in Seq(BlockWrite)
      BY <2>1, <2>2, AppendProperties
    <2>4. QED
      BY <1>1, <2>3 DEF IInv, DiskOK
  <1>4. CallOK'
    <2>1. call \in WriteCall /\ blockIndex \in Nat /\ call.fd \in Slot
      BY WriteInProgress
    <2>2. /\ call' \in WriteCall /\ call'.blockIndex = blockIndex + 1
          /\ call'.fd = call.fd /\ call'.fileData = call.fileData
          /\ call'.fileSize = call.fileSize
      BY <1>1, <2>1 DEF WriteCall
    <2>3. QED
      BY <1>1, <2>1, <2>2, Sizes DEF IInv, CallOK, Writing, IsOpen
  <1>5. PointerWithinFile'
    BY <1>1 DEF IInv, PointerWithinFile, IsOpen
  <1>6. QED
    BY <1>2, <1>3, <1>4, <1>5 DEF IInv

(* A block the file has already: beyond the direct pointers it has one of
   indirect pointers. *)
LEMMA KnownBlockKeeps == IInv /\ WriteKnownBlock => IInv'
  <1> SUFFICES ASSUME IInv, WriteKnownBlock PROVE IInv'
    OBVIOUS
  <1> DEFINE b == BlockNumber(call.fd, blockIndex)
  <1>1. /\ Writing /\ MoreBlocks /\ blockIndex < DIRECT_POINTERS + INDIRECT_POINTERS
        /\ b >= 0 /\ WriteData(<< >>, b) /\ iNodes' = iNodes /\ freeBlocks' = freeBlocks
    BY DEF WriteKnownBlock
  <1>2. call.fd \in Slot /\ blockIndex \in Nat /\ Indirect \in SoundPointer
    BY <1>1, WriteInProgress
  <1>3. b \in SoundPointer
    BY <1>1, <1>2, BlockNumbers, Sizes DEF IInv
  <1>4. b \in Block
    BY <1>1, <1>3, Sizes
  <1>5. ASSUME blockIndex >= DIRECT_POINTERS PROVE iNodes[call.fd].indirect >= 0
    <2>1. SUFFICES ASSUME iNodes[call.fd].indirect < 0 PROVE FALSE
      BY <1>2, Sizes DEF Indirect
    <2>2. b = -1
      BY <1>1, <1>2, <1>5, <2>1, BlockNumbers DEF IInv
    <2>3. QED
      BY <1>1, <2>2
  <1> HIDE DEF b
  <1>6. << >> \in Seq(BlockWrite)
    OBVIOUS
  <1>7. iNodes \in [Slot -> SoundInode] /\ freeBlocks \in SUBSET Allocatable
    BY DEF IInv, MemoryOK
  <1>8. QED
    BY <1>1, <1>4, <1>5, <1>6, <1>7, IterationKeeps

(* A new block under a direct pointer. *)
LEMMA NewDirectKeeps == IInv /\ WriteNewDirect => IInv'
  <1> SUFFICES ASSUME IInv, WriteNewDirect PROVE IInv'
    OBVIOUS
  <1> DEFINE b == Min(freeBlocks)
  <1>1. /\ Writing /\ MoreBlocks /\ blockIndex < DIRECT_POINTERS
        /\ freeBlocks # {} /\ freeBlocks' = freeBlocks \ {b}
        /\ iNodes' = [iNodes EXCEPT ![call.fd].direct[blockIndex] = b]
        /\ WriteData(<< MapWrite(freeBlocks') >>, b)
    BY DEF WriteNewDirect
  <1>2. call.fd \in Slot /\ blockIndex \in Nat
    BY <1>1, WriteInProgress
  <1>3. iNodes \in [Slot -> SoundInode] /\ freeBlocks \in SUBSET Allocatable
    BY DEF IInv, MemoryOK
  <1>4. b \in SoundPointer /\ b \in Block
    BY <1>1, <1>3, LowestFree
  <1> HIDE DEF b
  <1>5. freeBlocks' \in SUBSET Allocatable
    BY <1>1, <1>3
  <1>6. << MapWrite(freeBlocks') >> \in Seq(BlockWrite)
    BY <1>5, Writes
  <1>7. blockIndex \in 0 .. DIRECT_POINTERS - 1
        /\ blockIndex < DIRECT_POINTERS + INDIRECT_POINTERS
        /\ ~ blockIndex >= DIRECT_POINTERS
    BY <1>1, <1>2, Sizes
  <1>8. /\ iNodes' \in [Slot -> SoundInode]
        /\ \A s \in Slot : iNodes'[s].size = iNodes[s].size
    <2> DEFINE u == [iNodes EXCEPT ![call.fd].direct[blockIndex] = b]
    <2>1. u \in [Slot -> SoundInode] /\ \A s \in Slot : u[s].size = iNodes[s].size
      BY <1>2, <1>3, <1>4, <1>7, InodeChanged
    <2>2. QED
      BY <1>1, <2>1
  <1>9. QED
    BY <1>1, <1>4, <1>5, <1>6, <1>7, <1>8, IterationKeeps

(* A new block under an indirect pointer. *)
LEMMA NewIndirectKeeps == IInv /\ WriteNewIndirect => IInv'
  <1> SUFFICES ASSUME IInv, WriteNewIndirect PROVE IInv'
    OBVIOUS
  <1> DEFINE b == Min(freeBlocks)
             pointers == [IndirectPointers(call.fd) EXCEPT
                            ![blockIndex - DIRECT_POINTERS] = b]
  <1>1. /\ Writing /\ MoreBlocks
        /\ blockIndex \in DIRECT_POINTERS .. DIRECT_POINTERS + INDIRECT_POINTERS - 1
        /\ Indirect >= 0 /\ freeBlocks # {} /\ freeBlocks' = freeBlocks \ {b}
        /\ WriteData(<< MapWrite(freeBlocks'), At(Indirect, PointerBlock(pointers)) >>, b)
        /\ iNodes' = iNodes
    BY DEF WriteNewIndirect
  <1>2. call.fd \in Slot /\ blockIndex \in Nat /\ Indirect \in SoundPointer
    BY <1>1, WriteInProgress
  <1>3. iNodes \in [Slot -> SoundInode] /\ freeBlocks \in SUBSET Allocatable
    BY DEF IInv, MemoryOK
  <1>4. b \in SoundPointer /\ b \in Block
    BY <1>1, <1>3, LowestFree
  <1>5. pointers \in Pointers
    BY <1>2, <1>4, BlockNumbers DEF IInv, Pointers
  <1> HIDE DEF b, pointers
  <1>6. freeBlocks' \in SUBSET Allocatable
    BY <1>1, <1>3
  <1>7. Indirect \in Block
    BY <1>1, <1>2, Sizes
  <1>8. << MapWrite(freeBlocks'), At(Indirect, PointerBlock(pointers)) >> \in Seq(BlockWrite)
    <2>1. MapWrite(freeBlocks') \in BlockWrite
          /\ At(Indirect, PointerBlock(pointers)) \in BlockWrite
      BY <1>5, <1>6, <1>7, Writes
    <2>2. QED
      BY <2>1
  <1>9. blockIndex < DIRECT_POINTERS + INDIRECT_POINTERS
        /\ iNodes'[call.fd].indirect >= 0
    BY <1>1, <1>2, Sizes DEF Indirect
  <1>10. QED
    BY <1>1, <1>3, <1>4, <1>6, <1>8, <1>9, IterationKeeps

(* The first block beyond the direct pointers, with the block of pointers. *)
LEMMA FirstIndirectKeeps == IInv /\ WriteFirstIndirect => IInv'
  <1> SUFFICES ASSUME IInv, WriteFirstIndirect PROVE IInv'
    OBVIOUS
  <1> DEFINE i == Min(freeBlocks)
             b == Min(freeBlocks \ {i})
             pointers == [NoPointers EXCEPT ![0] = b]
             tables == << MapWrite(freeBlocks \ {i}), MapWrite(freeBlocks'),
                          At(i, PointerBlock(pointers)) >>
  <1>1. /\ Writing /\ MoreBlocks
        /\ blockIndex >= DIRECT_POINTERS /\ Indirect < 0
        /\ Cardinality(freeBlocks) >= 2 /\ freeBlocks' = freeBlocks \ {i, b}
        /\ iNodes' = [iNodes EXCEPT ![call.fd].indirect = i]
        /\ WriteData(tables, b)
    BY DEF WriteFirstIndirect
  <1>2. /\ call.fd \in Slot /\ blockIndex \in Nat /\ Indirect \in SoundPointer
        /\ blockIndex > DIRECT_POINTERS => Indirect >= 0
    BY <1>1, WriteInProgress
  <1>3. iNodes \in [Slot -> SoundInode] /\ freeBlocks \in SUBSET Allocatable
    BY DEF IInv, MemoryOK
  <1>4. i \in SoundPointer /\ i \in Block /\ i >= 0
    BY <1>1, <1>3, TwoFree, LowestFree
  <1>5. b \in SoundPointer /\ b \in Block
    <2>1. freeBlocks \ {i} # {} /\ freeBlocks \ {i} \in SUBSET Allocatable
      BY <1>1, <1>3, TwoFree
    <2>2. QED
      BY <2>1, LowestFree
  <1> HIDE DEF i, b
  <1>6. freeBlocks' \in SUBSET Allocatable /\ freeBlocks \ {i} \in SUBSET Allocatable
    BY <1>1, <1>3
  <1>7. pointers \in Pointers
    BY <1>5 DEF NoPointers, Pointers, SoundPointer
  <1> HIDE DEF pointers
  <1>8. tables \in Seq(BlockWrite)
    <2>1. /\ MapWrite(freeBlocks \ {i}) \in BlockWrite
          /\ MapWrite(freeBlocks') \in BlockWrite
          /\ At(i, PointerBlock(pointers)) \in BlockWrite
      BY <1>4, <1>6, <1>7, Writes
    <2>2. QED
      BY <2>1
  <1> HIDE DEF tables
  <1>9. blockIndex < DIRECT_POINTERS + INDIRECT_POINTERS
    BY <1>1, <1>2, Sizes
  <1>10. /\ iNodes' \in [Slot -> SoundInode]
         /\ \A s \in Slot : iNodes'[s].size = iNodes[s].size
         /\ iNodes'[call.fd].indirect >= 0
    <2> DEFINE u == [iNodes EXCEPT ![call.fd].indirect = i]
    <2>1. /\ u \in [Slot -> SoundInode]
          /\ \A s \in Slot :
               /\ u[s].size = iNodes[s].size
               /\ u[s].indirect = IF s = call.fd THEN i ELSE iNodes[s].indirect
      BY <1>2, <1>3, <1>4, InodeChanged
    <2>2. QED
      BY <1>1, <1>2, <1>4, <2>1
  <1>11. QED
    BY <1>1, <1>5, <1>6, <1>8, <1>9, <1>10, IterationKeeps

(* An error return. *)
LEMMA FailureKeeps ==
  ASSUME IInv, Writing, NEW writes \in Seq(BlockWrite), WriteFails(writes),
         freeBlocks' \in SUBSET Allocatable,
         iNodes' \in [Slot -> SoundInode],
         \A s \in Slot : iNodes'[s].size = iNodes[s].size
  PROVE  IInv'
  <1>1. call.fd \in Slot
    BY WriteInProgress
  <1>2. MemoryOK' /\ DiskOK'
    BY DEF IInv, MemoryOK, DiskOK, WriteFails
  <1>3. CallOK'
    BY <1>1, FreshStateOK DEF CallOK, WriteFails, OtherCall
  <1>4. PointerWithinFile'
    BY DEF IInv, PointerWithinFile, IsOpen, WriteFails
  <1>5. QED
    BY <1>2, <1>3, <1>4 DEF IInv

(* The error returns of sfs_fwrite; the write that goes astray lands on a
   block of the disk. *)
LEMMA FailuresKeep ==
  IInv /\ (FileTooLarge \/ NoBlockLeft \/ NoBlockForFirstPointer \/ NoBlockForPointers)
    => IInv'
  <1>1. ASSUME IInv PROVE iNodes \in [Slot -> SoundInode] /\ freeBlocks \in SUBSET Allocatable
    BY <1>1 DEF IInv, MemoryOK
  <1>2. << >> \in Seq(BlockWrite)
    OBVIOUS
  <1>3. ASSUME IInv, FileTooLarge PROVE IInv'
    BY <1>1, <1>2, <1>3, FailureKeeps DEF FileTooLarge
  <1>4. ASSUME IInv, NoBlockLeft PROVE IInv'
    <2> DEFINE again == << At(Indirect, PointerBlock(IndirectPointers(call.fd))) >>
    <2>1. /\ Writing /\ (blockIndex < DIRECT_POINTERS \/ Indirect >= 0)
          /\ WriteFails(IF blockIndex < DIRECT_POINTERS THEN << >> ELSE again)
          /\ UNCHANGED << iNodes, freeBlocks >>
      BY <1>4 DEF NoBlockLeft
    <2>2. call.fd \in Slot /\ Indirect \in SoundPointer
      BY <1>4, <2>1, WriteInProgress
    <2>3. ASSUME Indirect >= 0 PROVE again \in Seq(BlockWrite)
      <3>1. Indirect \in Block
        BY <2>2, <2>3, Sizes
      <3>2. IndirectPointers(call.fd) \in Pointers
        BY <1>4, <2>2, BlockNumbers DEF IInv
      <3>3. At(Indirect, PointerBlock(IndirectPointers(call.fd))) \in BlockWrite
        BY <3>1, <3>2, Writes
      <3>4. QED
        BY <3>3
    <2> HIDE DEF again
    <2>4. CASE blockIndex < DIRECT_POINTERS
      BY <1>1, <1>2, <1>4, <2>1, <2>4, FailureKeeps
    <2>5. CASE ~ blockIndex < DIRECT_POINTERS
      BY <1>1, <1>4, <2>1, <2>3, <2>5, FailureKeeps
    <2>6. QED
      BY <2>4, <2>5
  <1>5. ASSUME IInv, NoBlockForFirstPointer PROVE IInv'
    <2> DEFINE i == Min(freeBlocks)
               writes == << MapWrite({}), At(i, PointerBlock(NoPointers)) >>
    <2>1. /\ Writing /\ Cardinality(freeBlocks) = 1
          /\ iNodes' = [iNodes EXCEPT ![call.fd].indirect = i]
          /\ WriteFails(writes) /\ freeBlocks' = {}
      BY <1>5 DEF NoBlockForFirstPointer
    <2>2. call.fd \in Slot
      BY <1>5, <2>1, WriteInProgress
    <2>3. i \in SoundPointer /\ i \in Block
      BY <1>1, <1>5, <2>1, TwoFree, LowestFree
    <2> HIDE DEF i
    <2>4. NoPointers \in Pointers
      BY DEF NoPointers, Pointers, SoundPointer
    <2>5. MapWrite({}) \in BlockWrite /\ At(i, PointerBlock(NoPointers)) \in BlockWrite
      BY <2>3, <2>4, Writes
    <2>6. writes \in Seq(BlockWrite)
      BY <2>5
    <2> HIDE DEF writes
    <2>7. /\ iNodes' \in [Slot -> SoundInode]
          /\ \A s \in Slot : iNodes'[s].size = iNodes[s].size
      <3> DEFINE u == [iNodes EXCEPT ![call.fd].indirect = i]
      <3>1. u \in [Slot -> SoundInode] /\ \A s \in Slot : u[s].size = iNodes[s].size
        BY <1>1, <1>5, <2>2, <2>3, InodeChanged
      <3>2. QED
        BY <2>1, <3>1
    <2>8. QED
      BY <1>5, <2>1, <2>6, <2>7, FailureKeeps
  <1>6. ASSUME IInv, NoBlockForPointers PROVE IInv'
    <2> DEFINE next == iNodes[call.fd].direct[DIRECT_POINTERS - 1] + 1
               writes == << At(next, PointerBlock(NoPointers)) >>
    <2>1. Writing /\ WriteFails(writes) /\ UNCHANGED << iNodes, freeBlocks >>
      BY <1>6 DEF NoBlockForPointers
    <2>2. iNodes[call.fd] \in SoundInode /\ DIRECT_POINTERS - 1 \in 0 .. DIRECT_POINTERS - 1
      BY <1>1, <1>6, <2>1, WriteInProgress, Sizes
    <2>3. iNodes[call.fd].direct[DIRECT_POINTERS - 1] \in SoundPointer
      BY <2>2 DEF SoundInode
    <2>4. next \in Block
      BY <2>3, Sizes DEF SoundPointer, Allocatable, Block
    <2> HIDE DEF next
    <2>5. NoPointers \in Pointers
      BY DEF NoPointers, Pointers, SoundPointer
    <2>6. At(next, PointerBlock(NoPointers)) \in BlockWrite
      BY <2>4, <2>5, Writes
    <2>7. writes \in Seq(BlockWrite)
      BY <2>6
    <2> HIDE DEF writes
    <2>8. QED
      BY <1>1, <1>6, <2>1, <2>7, FailureKeeps
  <1>7. QED
    BY <1>3, <1>4, <1>5, <1>6

(* The loop has gone through no more blocks than an i-node can point to,   *)
(* so the new size is one that they can hold.                              *)
LEMMA EndKeeps == IInv /\ WriteEnds => IInv'
  <1> SUFFICES ASSUME IInv, WriteEnds PROVE IInv'
    OBVIOUS
  <1> DEFINE size == call.fileSize
             fd == call.fd
  <1>1. /\ Writing /\ ~MoreBlocks
        /\ read_writePointers' = [read_writePointers EXCEPT ![fd] = size]
        /\ iNodes' = [iNodes EXCEPT ![fd].size = size]
        /\ pending' = << TableWrite(iNodes') >>
        /\ call' = [op |-> "return", fd |-> fd]
        /\ UNCHANGED << directoryEntries, freeBlocks, disk, interrupted >>
    BY DEF WriteEnds
  <1>2. /\ call \in WriteCall /\ fd \in Slot /\ IsOpen(fd)
        /\ blockIndex \in Nat /\ blockIndex <= DIRECT_POINTERS + INDIRECT_POINTERS
    BY <1>1, WriteInProgress
  <1>3. size \in Nat /\ Ceiling(size) \in Nat
    BY <1>2, CeilingBound DEF WriteCall
  <1>4. Ceiling(size) <= DIRECT_POINTERS + INDIRECT_POINTERS
    BY <1>1, <1>2, <1>3, Sizes DEF MoreBlocks
  <1>5. size \in 0 .. MaxFileSize
    BY <1>3, <1>4, SizeOfBlocks
  <1> HIDE DEF size, fd
  <1>6. /\ iNodes' \in [Slot -> SoundInode]
        /\ \A s \in Slot : iNodes'[s].size = IF s = fd THEN size ELSE iNodes[s].size
    <2> DEFINE u == [iNodes EXCEPT ![fd].size = size]
    <2>0. iNodes \in [Slot -> SoundInode] /\ size \in 0 .. MaxFileSize \cup {-1}
      BY <1>5 DEF IInv, MemoryOK
    <2>1. /\ u \in [Slot -> SoundInode]
          /\ \A s \in Slot : u[s].size = IF s = fd THEN size ELSE iNodes[s].size
      <3>1. \A n \in 0 .. MaxFileSize \cup {-1} :
              LET v == [iNodes EXCEPT ![fd].size = n]
              IN  /\ v \in [Slot -> SoundInode]
                  /\ \A s \in Slot : /\ v[s].size = IF s = fd THEN n ELSE iNodes[s].size
                                     /\ v[s].indirect = iNodes[s].indirect
        BY <1>2, <2>0, InodeChanged
      <3>2. QED
        BY <2>0, <3>1
    <2>2. QED
      BY <1>1, <2>1
  <1>7. MemoryOK'
    BY <1>1, <1>5, <1>6 DEF IInv, MemoryOK
  <1>8. DiskOK'
    <2>1. TableWrite(iNodes') \in BlockWrite
      BY <1>6, Writes
    <2>2. QED
      BY <1>1, <2>1 DEF IInv, DiskOK
  <1>9. CallOK'
    BY <1>1, <1>2 DEF CallOK, OtherCall
  <1>10. PointerWithinFile'
    <2> SUFFICES ASSUME NEW s \in Slot, read_writePointers'[s] >= 0
                 PROVE  /\ directoryEntries'[s] # Empty
                        /\ read_writePointers'[s] <= iNodes'[s].size
      BY DEF PointerWithinFile, IsOpen
    <2>1. CASE s = fd
      <3>1. directoryEntries[fd] # Empty
        BY <1>2, OpenFile
      <3>2. read_writePointers'[s] = size /\ iNodes'[s].size = size
        BY <1>1, <1>2, <1>6, <2>1 DEF IInv, MemoryOK
      <3>3. QED
        BY <1>1, <1>3, <2>1, <3>1, <3>2
    <2>2. CASE s # fd
      BY <1>1, <1>6, <2>2 DEF IInv, MemoryOK, PointerWithinFile, IsOpen
    <2>3. QED
      BY <2>1, <2>2
  <1>11. QED
    BY <1>7, <1>8, <1>9, <1>10 DEF IInv

(* Every step of the specification keeps the invariant. *)
THEOREM Inductive == IInv /\ [Next]_vars => IInv'
  <1> SUFFICES ASSUME IInv, [Next]_vars PROVE IInv'
    OBVIOUS
  <1>1. ASSUME NEW n \in Name, sfs_fopen(n) PROVE IInv'
    BY <1>1, OpenKeeps
  <1>2. ASSUME NEW n \in Name, sfs_remove(n) PROVE IInv'
    BY <1>2, RemoveKeeps
  <1>3. ASSUME NEW fd \in Slot,
               \/ sfs_fclose(fd)
               \/ \E location \in 0 .. MaxFileSize : sfs_fseek(fd, location)
               \/ \E count \in 0 .. MaxCount : sfs_fread(fd, count)
        PROVE  IInv'
    BY <1>3, SmallCallKeeps
  <1>4. ASSUME NEW fd \in Slot, NEW buf \in Buffer, sfs_fwrite(fd, buf) PROVE IInv'
    BY <1>4, WriteBeginsKeeps, Refused DEF sfs_fwrite, Refuse
  <1>5. CASE WriteLoop
    BY <1>5, KnownBlockKeeps, NewDirectKeeps, NewIndirectKeeps, FirstIndirectKeeps,
       FailuresKeep, EndKeeps DEF WriteLoop
  <1>6. CASE Flush
    BY <1>6, FlushKeeps
  <1>7. CASE mksfs_fresh \/ Remount \/ Restart
    BY <1>7, MountKeeps
  <1>8. CASE UNCHANGED vars
    BY <1>8, Refused DEF vars
  <1>9. QED
    BY <1>1, <1>2, <1>3, <1>4, <1>5, <1>6, <1>7, <1>8 DEF Next, Process, Call

(* So it holds in every reachable state. *)
LEMMA InvariantHolds == Spec => []IInv
  BY Initially, Inductive, PTL DEF Spec

-----------------------------------------------------------------------------
(* The theorems.                                                           *)

(* Every table in memory and every block of the disk, the writes under way *)
(* included, has the shape the code gives it, whatever calls are made and  *)
(* wherever a restart falls: the code never writes outside the disk.       *)
THEOREM TypeCorrect == Spec => []TypeOK
  <1>1. IInv => TypeOK
    <2> SUFFICES ASSUME IInv PROVE TypeOK
      OBVIOUS
    <2>1. SoundPointer \subseteq Pointer /\ SoundInode \subseteq Inode
      <3>1. SoundPointer \subseteq Pointer
        BY Sizes DEF SoundPointer, Pointer, Allocatable, Block
      <3>2. QED
        BY <3>1 DEF SoundInode, Inode
    <2>2. /\ directoryEntries \in [Slot -> Name \cup {Empty}]
          /\ iNodes \in [Slot -> Inode]
          /\ freeBlocks \subseteq Allocatable
          /\ read_writePointers \in [Slot -> 0 .. MaxFileSize \cup {-1}]
          /\ interrupted \in BOOLEAN
      BY <2>1 DEF IInv, MemoryOK, Names
    <2>3. ASSUME NEW b \in Block
          PROVE  \/ Latest(b) \in {Zeros, SuperBlock}
                 \/ Latest(b).is = "inodes" /\ Latest(b).inodes \in [Slot -> Inode]
                 \/ Latest(b).is = "directory"
                      /\ Latest(b).names \in [Slot -> Name \cup {Empty}]
                 \/ Latest(b).is = "map" /\ Latest(b).free \subseteq Allocatable
                 \/ Latest(b).is = "pointers"
                      /\ Latest(b).pointers \in [0 .. INDIRECT_POINTERS - 1 -> Pointer]
                 \/ Latest(b).is = "data" /\ Latest(b).bytes \in Bytes
      <3> DEFINE c == Latest(b)
      <3>1. c \in Contents
        BY LatestContents DEF IInv
      <3> HIDE DEF c
      <3>2. /\ c.is = "inodes" => c.inodes \in [Slot -> SoundInode]
            /\ c.is = "directory" => c.names \in Names
            /\ c.is = "map" => c.free \in SUBSET Allocatable
            /\ c.is = "pointers" => c.pointers \in Pointers
            /\ c.is = "data" => c.bytes \in Bytes
            /\ \/ c \in {Zeros, SuperBlock}
               \/ c.is \in {"inodes", "directory", "map", "pointers", "data"}
        BY <3>1, Kinds
      <3>3. c.is = "inodes" => c.inodes \in [Slot -> Inode]
        BY <2>1, <3>2
      <3>4. c.is = "pointers" => c.pointers \in [0 .. INDIRECT_POINTERS - 1 -> Pointer]
        BY <2>1, <3>2 DEF Pointers
      <3>5. QED
        BY <3>2, <3>3, <3>4 DEF c, Names
    <2>4. \A i \in DOMAIN pending : pending[i].at \in Block
      <3>1. pending \in Seq(BlockWrite)
        BY DEF IInv, DiskOK
      <3>2. \A i \in DOMAIN pending : pending[i] \in BlockWrite
        BY <3>1
      <3>3. QED
        BY <3>2 DEF BlockWrite
    <2>5. call.fd \in Slot \cup {-1}
      BY DEF IInv, CallOK, WriteCall, OtherCall
    <2>6. QED
      BY <2>2, <2>3, <2>4, <2>5 DEF TypeOK
  <1>2. QED
    BY <1>1, InvariantHolds, PTL

(* Whatever sfs_fopen, sfs_fseek, a failed sfs_fwrite, sfs_remove, mksfs   *)
(* and a restart did before, an open descriptor belongs to a file of the   *)
(* directory and its pointer lies within it.                               *)
THEOREM PointersWithinFiles == Spec => []PointerWithinFile
  <1>1. IInv => PointerWithinFile
    BY DEF IInv
  <1>2. QED
    BY <1>1, InvariantHolds, PTL

-----------------------------------------------------------------------------
(* The disk once the pending writes are on it, as one function.            *)

Put(d, write) == [d EXCEPT ![write.at] = write.contents]
DiskToBe == [b \in Block |-> Latest(b)]

(* What block b holds when the writes of w are on disk d.                  *)
Holds(d, w, b) ==
  LET writes == {k \in DOMAIN w : w[k].at = b}
  IN  IF writes = {} THEN d[b] ELSE w[Max(writes)].contents

(* The greatest member of a set is its maximum. *)
LEMMA MaxIs ==
  ASSUME NEW n \in Nat, NEW S \in SUBSET (0 .. n), NEW m \in S,
         \A y \in S : y <= m
  PROVE  Max(S) = m
  <1> DEFINE x == Max(S)
  <1>1. x \in S /\ \A y \in S : x >= y
    BY MaxIsMember
  <1> HIDE DEF x
  <1>2. x <= m /\ x >= m /\ x \in 0 .. n /\ m \in 0 .. n
    BY <1>1
  <1>3. x = m
    BY <1>2
  <1>4. QED
    BY <1>3 DEF x

(* One more write. *)
LEMMA HoldsAppended ==
  ASSUME NEW T, NEW w \in Seq(T), NEW x, NEW d, NEW b
  PROVE  Holds(d, Append(w, x), b) = IF x.at = b THEN x.contents ELSE Holds(d, w, b)
  <1> DEFINE v == Append(w, x)
             n == Len(w)
             before == {k \in DOMAIN w : w[k].at = b}
             after == {k \in DOMAIN v : v[k].at = b}
  <1>1. /\ n \in Nat /\ DOMAIN w = 1 .. n /\ DOMAIN v = 1 .. n + 1
        /\ v[n + 1] = x /\ \A k \in 1 .. n : v[k] = w[k]
    OBVIOUS
  <1> HIDE DEF v, n
  <1>2. before \in SUBSET (0 .. n) /\ after \in SUBSET (0 .. n + 1)
    BY <1>1
  <1>3. CASE x.at = b
    <2>1. n + 1 \in after /\ \A y \in after : y <= n + 1
      BY <1>1, <1>3
    <2>2. n + 1 \in Nat
      BY <1>1
    <2> HIDE DEF after
    <2>3. Max(after) = n + 1
      BY <1>2, <2>1, <2>2, MaxIs
    <2>4. Holds(d, v, b) = x.contents
      BY <1>1, <2>1, <2>3 DEF Holds, after
    <2>5. QED
      BY <1>3, <2>4 DEF v
  <1>4. CASE x.at # b
    <2>1. after = before
      BY <1>1, <1>4
    <2>2. before # {} => Max(before) \in before
      <3> HIDE DEF before, after
      <3>1. QED
        BY <1>1, <1>2, MaxIsMember
    <2>3. before # {} => v[Max(before)] = w[Max(before)]
      BY <1>1, <2>2
    <2>4. Holds(d, v, b) = Holds(d, w, b)
      BY <2>1, <2>3 DEF Holds
    <2>5. QED
      BY <1>4, <2>4 DEF v
  <1>5. QED
    BY <1>3, <1>4

(* The oldest write reaches the disk. *)
LEMMA HoldsFlushed ==
  ASSUME NEW T, NEW w \in Seq(T), w # << >>, NEW d \in [Block -> Contents],
         NEW b \in Block
  PROVE  Holds(Put(d, Head(w)), Tail(w), b) = Holds(d, w, b)
  <1> DEFINE v == Tail(w)
             n == Len(w)
             old == {k \in DOMAIN w : w[k].at = b}
             new == {k \in DOMAIN v : v[k].at = b}
             e == Put(d, Head(w))
  <1>1. /\ n \in Nat /\ n >= 1 /\ DOMAIN w = 1 .. n /\ DOMAIN v = 1 .. n - 1
        /\ Head(w) = w[1] /\ \A k \in 1 .. n - 1 : v[k] = w[k + 1]
    OBVIOUS
  <1>2. e[b] = IF w[1].at = b THEN w[1].contents ELSE d[b]
    BY <1>1 DEF Put
  <1> HIDE DEF v, n, e
  <1>3. new \in SUBSET (0 .. n) /\ old \in SUBSET (0 .. n)
    BY <1>1
  <1>4. CASE new # {}
    <2> DEFINE m == Max(new)
    <2>1. m \in new /\ \A y \in new : m >= y
      <3> HIDE DEF new, old
      <3>1. QED
        BY <1>1, <1>3, <1>4, MaxIsMember
    <2> HIDE DEF m
    <2>2. m \in 1 .. n - 1 /\ m + 1 \in old /\ v[m] = w[m + 1]
      BY <1>1, <2>1
    <2>3. ASSUME NEW y \in old PROVE y <= m + 1
      <3>1. CASE y = 1
        BY <2>2, <3>1
      <3>2. CASE y # 1
        <4>1. y - 1 \in 1 .. n - 1 /\ v[y - 1] = w[y]
          BY <1>1, <3>2
        <4>2. y - 1 \in new
          BY <1>1, <4>1
        <4>3. QED
          BY <1>1, <2>1, <2>2, <4>2
      <3>3. QED
        BY <3>1, <3>2
    <2>4. Max(old) = m + 1
      <3> HIDE DEF old, new
      <3>1. QED
        BY <1>1, <1>3, <2>2, <2>3, MaxIs
    <2>5. QED
      BY <1>4, <2>2, <2>4 DEF Holds, m, v, e
  <1>5. CASE new = {}
    <2>1. old \subseteq {1}
      <3>1. ASSUME NEW y \in old, y # 1 PROVE FALSE
        <4>1. y - 1 \in 1 .. n - 1 /\ v[y - 1] = w[y]
          BY <1>1, <3>1
        <4>2. y - 1 \in new
          BY <1>1, <3>1, <4>1
        <4>3. QED
          BY <1>5, <4>2
      <3>2. QED
        BY <3>1
    <2>2. Holds(e, v, b) = e[b]
      BY <1>5 DEF Holds
    <2>3. CASE w[1].at = b
      <3>1. old = {1}
        BY <1>1, <2>1, <2>3
      <3>2. Max(old) = 1
        BY <3>1, MaxOfTwo
      <3>3. Holds(d, w, b) = w[1].contents
        BY <3>1, <3>2 DEF Holds
      <3>4. QED
        BY <1>2, <2>2, <2>3, <3>3 DEF v, e
    <2>4. CASE w[1].at # b
      <3>1. old = {}
        BY <2>1, <2>4
      <3>2. Holds(d, w, b) = d[b]
        BY <3>1 DEF Holds
      <3>3. QED
        BY <1>2, <2>2, <2>4, <3>2 DEF v, e
    <2>5. QED
      BY <2>3, <2>4
  <1>6. QED
    BY <1>4, <1>5

(* The data is written after the tables. *)
LEMMA Appended ==
  ASSUME NEW T, NEW v \in T, NEW w \in T, NEW x \in T, NEW y \in T
  PROVE  /\ Append(<< >>, v) = << v >>
         /\ Append(<< v >>, w) = << v, w >>
         /\ Append(<< v, w >>, x) = << v, w, x >>
         /\ Append(<< v, w, x >>, y) = << v, w, x, y >>
  <1>1. << v >> = Append(<< >>, v)
    OBVIOUS
  <1>2. << v, w >> = Append(<< v >>, w)
    OBVIOUS
  <1>3. << v, w, x >> = Append(<< v, w >>, x)
    OBVIOUS
  <1>4. << v, w, x, y >> = Append(<< v, w, x >>, y)
    OBVIOUS
  <1>5. QED
    BY ONLY <1>1, <1>2, <1>3, <1>4, Zenon

(* Nothing pending: the disk itself. *)
LEMMA NothingPending ==
  ASSUME DiskOK, pending = << >>
  PROVE  DiskToBe = disk
  BY DEF DiskOK, DiskToBe, Latest

(* A write changes one block. *)
LEMMA PutIs ==
  ASSUME NEW d \in [Block -> Contents], NEW x \in BlockWrite
  PROVE  /\ Put(d, x) \in [Block -> Contents]
         /\ \A b \in Block : Put(d, x)[b] = IF b = x.at THEN x.contents ELSE d[b]
  BY DEF Put, BlockWrite

(* The disk to be is made of blocks. *)
LEMMA DiskToBeType ==
  ASSUME DiskOK
  PROVE  DiskToBe \in [Block -> Contents]
  BY LatestContents DEF DiskToBe

(* One more write, for the whole disk. *)
LEMMA PutLast ==
  ASSUME NEW d \in [Block -> Contents], NEW w \in Seq(BlockWrite), NEW x \in BlockWrite
  PROVE  [b \in Block |-> Holds(d, Append(w, x), b)]
           = Put([b \in Block |-> Holds(d, w, b)], x)
  <1> DEFINE before == [b \in Block |-> Holds(d, w, b)]
             after == [b \in Block |-> Holds(d, Append(w, x), b)]
  <1>1. \A b \in Block : after[b] = IF x.at = b THEN x.contents ELSE before[b]
    BY HoldsAppended
  <1>2. /\ before = [b \in Block |-> before[b]] /\ DOMAIN before = Block
        /\ after = [b \in Block |-> after[b]]
    OBVIOUS
  <1>3. x.at \in Block
    BY DEF BlockWrite
  <1> HIDE DEF before, after
  <1>4. after = [before EXCEPT ![x.at] = x.contents]
    BY <1>1, <1>2, <1>3
  <1>5. QED
    BY <1>4 DEF Put, before, after

(* A step that issues writes when none is pending changes the disk to be   *)
(* as the writes do, one after the other.                                  *)
LEMMA WritesIssued ==
  ASSUME DiskOK, pending = << >>, disk' = disk
  PROVE  /\ pending' = << >> => DiskToBe' = DiskToBe
         /\ \A v \in BlockWrite :
              pending' = << v >> => DiskToBe' = Put(DiskToBe, v)
         /\ \A v, w \in BlockWrite :
              pending' = << v, w >> => DiskToBe' = Put(Put(DiskToBe, v), w)
         /\ \A v, w, x \in BlockWrite :
              pending' = << v, w, x >> => DiskToBe' = Put(Put(Put(DiskToBe, v), w), x)
         /\ \A v, w, x, y \in BlockWrite :
              pending' = << v, w, x, y >>
                => DiskToBe' = Put(Put(Put(Put(DiskToBe, v), w), x), y)
  <1> DEFINE On(w) == [b \in Block |-> Holds(disk, w, b)]
  <1>0. disk \in [Block -> Contents] /\ DiskToBe = disk
    BY NothingPending DEF DiskOK
  <1>1. DiskToBe' = On(pending')
    BY DEF DiskToBe, Latest, Holds
  <1>2. On(<< >>) = disk
    <2>1. \A b \in Block : Holds(disk, << >>, b) = disk[b]
      BY DEF Holds
    <2>2. QED
      BY <1>0, <2>1
  <1>3. ASSUME NEW w \in Seq(BlockWrite), NEW x \in BlockWrite
        PROVE  On(Append(w, x)) = Put(On(w), x)
    BY <1>0, PutLast
  <1> HIDE DEF On
  <1>4. ASSUME NEW v \in BlockWrite PROVE On(<< v >>) = Put(disk, v)
    <2>1. << >> \in Seq(BlockWrite) /\ << v >> = Append(<< >>, v)
      OBVIOUS
    <2>2. QED
      BY <1>2, <1>3, <2>1
  <1>5. ASSUME NEW v \in BlockWrite, NEW w \in BlockWrite
        PROVE  On(<< v, w >>) = Put(Put(disk, v), w)
    <2>1. << v >> \in Seq(BlockWrite) /\ << v, w >> = Append(<< v >>, w)
      OBVIOUS
    <2>2. QED
      BY <1>3, <1>4, <2>1
  <1>6. ASSUME NEW v \in BlockWrite, NEW w \in BlockWrite, NEW x \in BlockWrite
        PROVE  On(<< v, w, x >>) = Put(Put(Put(disk, v), w), x)
    <2>1. << v, w >> \in Seq(BlockWrite) /\ << v, w, x >> = Append(<< v, w >>, x)
      OBVIOUS
    <2>2. QED
      BY <1>3, <1>5, <2>1
  <1>7. ASSUME NEW v \in BlockWrite, NEW w \in BlockWrite, NEW x \in BlockWrite,
               NEW y \in BlockWrite
        PROVE  On(<< v, w, x, y >>) = Put(Put(Put(Put(disk, v), w), x), y)
    <2>1. /\ << v, w, x >> \in Seq(BlockWrite)
          /\ << v, w, x, y >> = Append(<< v, w, x >>, y)
      OBVIOUS
    <2>2. QED
      BY <1>3, <1>6, <2>1
  <1>8. QED
    BY <1>0, <1>1, <1>2, <1>4, <1>5, <1>6, <1>7

(* The writes of an allocation: the tables, then the data.                 *)
LEMMA WithDataLast ==
  ASSUME DiskOK, pending = << >>, disk' = disk,
         NEW u \in BlockWrite, NEW v \in BlockWrite, NEW w \in BlockWrite,
         NEW x \in BlockWrite
  PROVE  /\ pending' = Append(<< v, w >>, x)
              => DiskToBe' = Put(Put(Put(DiskToBe, v), w), x)
         /\ pending' = Append(<< u, v, w >>, x)
              => DiskToBe' = Put(Put(Put(Put(DiskToBe, u), v), w), x)
  <1>1. << v, w, x >> = Append(<< v, w >>, x)
    OBVIOUS
  <1>2. << u, v, w, x >> = Append(<< u, v, w >>, x)
    OBVIOUS
  <1>3. /\ pending' = << v, w, x >> => DiskToBe' = Put(Put(Put(DiskToBe, v), w), x)
        /\ pending' = << u, v, w, x >>
             => DiskToBe' = Put(Put(Put(Put(DiskToBe, u), v), w), x)
    BY WritesIssued
  <1>4. QED
    BY ONLY <1>1, <1>2, <1>3, Zenon

(* A write that reaches the disk leaves the disk to be as it is. *)
LEMMA FlushedTheSame ==
  ASSUME DiskOK, Flush
  PROVE  DiskToBe' = DiskToBe
  <1>1. /\ pending \in Seq(BlockWrite) /\ pending # << >>
        /\ disk \in [Block -> Contents]
        /\ disk' = Put(disk, Head(pending)) /\ pending' = Tail(pending)
    BY DEF DiskOK, Flush, Put
  <1>2. \A b \in Block : Holds(disk', pending', b) = Holds(disk, pending, b)
    BY <1>1, HoldsFlushed
  <1>3. DiskToBe = [b \in Block |-> Holds(disk, pending, b)]
        /\ DiskToBe' = [b \in Block |-> Holds(disk', pending', b)]
    BY DEF DiskToBe, Latest, Holds
  <1>4. QED
    BY <1>2, <1>3

-----------------------------------------------------------------------------
(* Whom a block serves: slot s, as its r-th block of data or, in the last  *)
(* role, as its block of pointers.  The table t and the disk d are those   *)
(* in memory and to be, or those that a new process would read.  G is the  *)
(* set of slots the roles are about: all of them as long as no restart     *)
(* interrupts the process; after one, those whose i-nodes were saved.      *)

IndirectRole == DIRECT_POINTERS + INDIRECT_POINTERS
Roles == 0 .. IndirectRole

PointersIn(c) == IF c.is = "pointers" THEN c.pointers ELSE NoPointers
Held(t, d, s, r) ==
  IF r < DIRECT_POINTERS THEN t[s].direct[r]
  ELSE IF r = IndirectRole THEN t[s].indirect
  ELSE IF t[s].indirect >= 0 THEN PointersIn(d[t[s].indirect])[r - DIRECT_POINTERS]
  ELSE -1

(* A block has one role of one slot, and is then marked occupied.          *)
Sound(G, t, d, free) ==
  /\ free \subseteq FreshMap
  /\ \A s \in G, r \in Roles :
       Held(t, d, s, r) = -1 \/ Held(t, d, s, r) \in FreshMap \ free
  /\ \A s, u \in G, j, l \in Roles :
       Held(t, d, s, j) # -1 /\ Held(t, d, s, j) = Held(t, d, u, l)
         => s = u /\ j = l

(* An i-node from which pointers were lost.                                *)
Below(old, new) ==
  /\ \A k \in 0 .. DIRECT_POINTERS - 1 : old.direct[k] \in {-1, new.direct[k]}
  /\ old.indirect \in {-1, new.indirect}

TableSaved(G) ==
  /\ DiskToBe[iNodeTableIndex].is = "inodes"
  /\ \A s \in G : Below(DiskToBe[iNodeTableIndex].inodes[s], iNodes[s])

(* The saved map may be lost, to the block of pointers of a failed write.  *)
MapSaved ==
  DiskToBe[FreeBlockListIndex].is = "map"
    => DiskToBe[FreeBlockListIndex].free = freeBlocks

(* The slots with a file are among those of G, and the one written is.      *)
Named == {s \in Slot : directoryEntries[s] # Empty}
Covers(G) == Named \subseteq G /\ (call.op = "sfs_fwrite" => call.fd \in G)

BlockInv(G) == Sound(G, iNodes, DiskToBe, freeBlocks) /\ TableSaved(G) /\ MapSaved

Tables == [Slot -> SoundInode]
Disks == [Block -> Contents]

(* Roles and block numbers. *)
LEMMA RoleNumbers ==
  /\ DIRECT_POINTERS \in Nat /\ INDIRECT_POINTERS \in Nat
  /\ DIRECT_POINTERS >= 1 /\ INDIRECT_POINTERS >= 1
  /\ IndirectRole \in Nat /\ IndirectRole \in Roles
  /\ Roles \subseteq Nat
  /\ 0 .. DIRECT_POINTERS + INDIRECT_POINTERS - 1 = Roles \ {IndirectRole}
  /\ \A r \in Roles :
       /\ r < DIRECT_POINTERS => r \in 0 .. DIRECT_POINTERS - 1 /\ r # IndirectRole
       /\ r >= DIRECT_POINTERS /\ r # IndirectRole
            => r - DIRECT_POINTERS \in 0 .. INDIRECT_POINTERS - 1
  <1>1. /\ DIRECT_POINTERS \in Nat /\ INDIRECT_POINTERS \in Nat
        /\ DIRECT_POINTERS >= 1 /\ INDIRECT_POINTERS >= 1
    BY Sizes
  <1>2. QED
    BY <1>1 DEF Roles, IndirectRole

(* The blocks with a place of their own are none that a file holds. *)
LEMMA Places ==
  /\ iNodeTableIndex \in Block /\ FreeBlockListIndex \in Block
  /\ RootDirectoryIndex \in Block
  /\ iNodeTableIndex \notin FreshMap /\ FreeBlockListIndex \notin FreshMap
  /\ iNodeTableIndex # FreeBlockListIndex /\ iNodeTableIndex # RootDirectoryIndex
  /\ RootDirectoryIndex # FreeBlockListIndex
  /\ -1 \notin FreshMap /\ -1 \notin Block
  /\ FreshMap \subseteq Block /\ FreshMap \subseteq SoundPointer
  /\ \A b \in FreshMap : b \in Nat /\ b >= 0 /\ b + 1 # iNodeTableIndex
  BY LayoutAssumption, Sizes
     DEF FreshMap, Block, Allocatable, SoundPointer, iNodeTableIndex

(* The parts of an i-node and of a block of pointers. *)
LEMMA HeldType ==
  ASSUME NEW t \in Tables, NEW s \in Slot
  PROVE  /\ t[s].indirect \in SoundPointer
         /\ t[s].indirect \in Int
         /\ t[s].indirect >= 0 => t[s].indirect \in Block
         /\ t[s].indirect < 0 => t[s].indirect = -1
         /\ t[s].direct \in [0 .. DIRECT_POINTERS - 1 -> SoundPointer]
  <1>1. t[s] \in SoundInode
    BY DEF Tables
  <1>2. t[s].indirect \in SoundPointer
        /\ t[s].direct \in [0 .. DIRECT_POINTERS - 1 -> SoundPointer]
    BY <1>1 DEF SoundInode
  <1>3. QED
    BY <1>2, Sizes

(* What memory holds, in the terms of Sfs. *)
LEMMA HeldInMemory ==
  ASSUME IInv, NEW s \in Slot
  PROVE  /\ Held(iNodes, DiskToBe, s, IndirectRole) = iNodes[s].indirect
         /\ \A k \in 0 .. DIRECT_POINTERS + INDIRECT_POINTERS - 1 :
              /\ Held(iNodes, DiskToBe, s, k) = BlockNumber(s, k)
              /\ BlockNumber(s, k) \in SoundPointer
         /\ iNodes[s].indirect >= 0
              => PointersIn(DiskToBe[iNodes[s].indirect]) = IndirectPointers(s)
  <1>1. iNodes \in Tables
    BY DEF IInv, MemoryOK, Tables
  <1>2. /\ iNodes[s].indirect >= 0 => iNodes[s].indirect \in Block
        /\ iNodes[s].indirect \in Int
    BY <1>1, HeldType
  <1>3. Held(iNodes, DiskToBe, s, IndirectRole) = iNodes[s].indirect
    BY RoleNumbers DEF Held, IndirectRole
  <1>4. ASSUME iNodes[s].indirect >= 0
        PROVE  PointersIn(DiskToBe[iNodes[s].indirect]) = IndirectPointers(s)
    BY <1>2, <1>4 DEF PointersIn, DiskToBe, IndirectPointers
  <1>5. ASSUME NEW k \in 0 .. DIRECT_POINTERS + INDIRECT_POINTERS - 1
        PROVE  Held(iNodes, DiskToBe, s, k) = BlockNumber(s, k)
    <2>1. k \in Roles /\ k # IndirectRole /\ k \in Nat
      BY RoleNumbers
    <2>2. CASE k < DIRECT_POINTERS
      BY <2>2 DEF Held, BlockNumber
    <2>3. CASE ~(k < DIRECT_POINTERS)
      <3>1. k - DIRECT_POINTERS \in 0 .. INDIRECT_POINTERS - 1
        BY <2>1, <2>3, RoleNumbers
      <3>2. iNodes[s].indirect < 0 => IndirectPointers(s)[k - DIRECT_POINTERS] = -1
        BY <1>2, <3>1 DEF IndirectPointers, NoPointers
      <3>3. QED
        BY <1>2, <1>4, <2>1, <2>3, <3>2 DEF Held, BlockNumber
    <2>4. QED
      BY <2>2, <2>3
  <1>6. QED
    BY <1>3, <1>4, <1>5, BlockNumbers DEF IInv

(* Slots whose roles are apart share no block, and theirs are in use. *)
ShareNothing(G) ==
  /\ \A s, t \in G : s # t => OwnedBlocks(s) \cap OwnedBlocks(t) = {}
  /\ \A s \in G :
       /\ iNodes[s].indirect \notin DataBlocks(s)
       /\ \A j, l \in 0 .. DIRECT_POINTERS + INDIRECT_POINTERS - 1 :
            j # l /\ BlockNumber(s, j) >= 0 => BlockNumber(s, j) # BlockNumber(s, l)
       /\ OwnedBlocks(s) \cap (freeBlocks \cup 0 .. FirstFree - 1) = {}

LEMMA SoundSlots ==
  ASSUME NEW G \in SUBSET Slot, IInv, Sound(G, iNodes, DiskToBe, freeBlocks)
  PROVE  ShareNothing(G)
  <1> DEFINE held(s, r) == Held(iNodes, DiskToBe, s, r)
  <1>1. /\ freeBlocks \subseteq FreshMap
        /\ \A s \in G, r \in Roles : held(s, r) = -1 \/ held(s, r) \in FreshMap \ freeBlocks
        /\ \A s, u \in G, j, l \in Roles :
             held(s, j) # -1 /\ held(s, j) = held(u, l) => s = u /\ j = l
    BY DEF Sound
  <1>2. ASSUME NEW s \in Slot
        PROVE  /\ OwnedBlocks(s) = {held(s, r) : r \in Roles} \ {-1}
               /\ DataBlocks(s) = {held(s, r) : r \in Roles \ {IndirectRole}} \ {-1}
               /\ iNodes[s].indirect = held(s, IndirectRole)
               /\ \A k \in 0 .. DIRECT_POINTERS + INDIRECT_POINTERS - 1 :
                    BlockNumber(s, k) = held(s, k)
    <2>1. /\ iNodes[s].indirect = held(s, IndirectRole)
          /\ \A k \in 0 .. DIRECT_POINTERS + INDIRECT_POINTERS - 1 :
               BlockNumber(s, k) = held(s, k)
      BY HeldInMemory
    <2> HIDE DEF held
    <2>2. DataBlocks(s) = {held(s, r) : r \in Roles \ {IndirectRole}} \ {-1}
      BY <2>1, RoleNumbers DEF DataBlocks
    <2>3. OwnedBlocks(s) = {held(s, r) : r \in Roles} \ {-1}
      BY <2>1, <2>2, RoleNumbers DEF OwnedBlocks
    <2>4. QED
      BY <2>1, <2>2, <2>3
  <1>3. \A s \in Slot, k \in 0 .. DIRECT_POINTERS + INDIRECT_POINTERS - 1 :
          BlockNumber(s, k) >= 0 => BlockNumber(s, k) # -1
    BY HeldInMemory, Sizes
  <1> HIDE DEF held
  <1>4. \A s, t \in G : s # t => OwnedBlocks(s) \cap OwnedBlocks(t) = {}
    BY <1>1, <1>2
  <1>5. \A s \in G : iNodes[s].indirect \notin DataBlocks(s)
    BY <1>1, <1>2, RoleNumbers
  <1>6. \A s \in G, j, l \in 0 .. DIRECT_POINTERS + INDIRECT_POINTERS - 1 :
          j # l /\ BlockNumber(s, j) >= 0 => BlockNumber(s, j) # BlockNumber(s, l)
    BY <1>1, <1>2, <1>3, RoleNumbers
  <1>7. \A b \in FreshMap : b \notin 0 .. FirstFree - 1
    BY LayoutAssumption DEF FreshMap
  <1>8. \A s \in G : OwnedBlocks(s) \cap (freeBlocks \cup 0 .. FirstFree - 1) = {}
    BY <1>1, <1>2, <1>7
  <1>9. QED
    BY <1>4, <1>5, <1>6, <1>8 DEF ShareNothing

(* The two invariants follow. *)
LEMMA SoundBlocks ==
  ASSUME IInv, Sound(Slot, iNodes, DiskToBe, freeBlocks)
  PROVE  NoSharedBlocks /\ OwnedBlocksOccupied
  <1>1. ShareNothing(Slot)
    BY SoundSlots
  <1>2. QED
    BY <1>1 DEF ShareNothing, NoSharedBlocks, OwnedBlocksOccupied

-----------------------------------------------------------------------------
(* What a write to the disk and a change of an i-node do to the roles.     *)

(* A write of block i changes the roles it gives through its pointers.     *)
LEMMA HeldAfterPut ==
  ASSUME NEW t \in Tables, NEW d \in Disks, NEW x \in BlockWrite,
         NEW s \in Slot, NEW r \in Roles
  PROVE  Held(t, Put(d, x), s, r)
           = IF r >= DIRECT_POINTERS /\ r # IndirectRole /\ t[s].indirect = x.at
             THEN PointersIn(x.contents)[r - DIRECT_POINTERS]
             ELSE Held(t, d, s, r)
  <1>1. x.at \in Block /\ \A b \in Block : Put(d, x)[b] = IF b = x.at THEN x.contents ELSE d[b]
    BY PutIs DEF Disks, BlockWrite
  <1>2. /\ t[s].indirect >= 0 => t[s].indirect \in Block
        /\ t[s].indirect \in Int
    BY HeldType
  <1>3. x.at >= 0
    BY <1>1, Sizes DEF Block
  <1>4. r \in Nat /\ DIRECT_POINTERS \in Nat /\ (r < DIRECT_POINTERS => r # IndirectRole)
    BY RoleNumbers
  <1> HIDE DEF Put
  <1>5. QED
    BY <1>1, <1>2, <1>3, <1>4 DEF Held

(* So one that is not of pointers only takes roles away. *)
LEMMA OtherPutLoses ==
  ASSUME NEW t \in Tables, NEW d \in Disks, NEW x \in BlockWrite,
         PointersIn(x.contents) = NoPointers,
         NEW s \in Slot, NEW r \in Roles
  PROVE  Held(t, Put(d, x), s, r) \in {-1, Held(t, d, s, r)}
  <1>1. r >= DIRECT_POINTERS /\ r # IndirectRole
          => NoPointers[r - DIRECT_POINTERS] = -1
    BY RoleNumbers DEF NoPointers
  <1>2. QED
    BY <1>1, HeldAfterPut

(* What a write is made of, and which of them hold no pointer. *)
LEMMA WriteParts ==
  /\ \A t \in Tables :
       /\ TableWrite(t) \in BlockWrite /\ PointersIn(TableWrite(t).contents) = NoPointers
       /\ TableWrite(t).at = iNodeTableIndex
       /\ TableWrite(t).contents.is = "inodes" /\ TableWrite(t).contents.inodes = t
  /\ \A names \in Names :
       /\ DirectoryWrite(names) \in BlockWrite
       /\ PointersIn(DirectoryWrite(names).contents) = NoPointers
       /\ DirectoryWrite(names).at = RootDirectoryIndex
       /\ DirectoryWrite(names).contents = DirectoryBlock(names)
  /\ \A free \in SUBSET Allocatable :
       /\ MapWrite(free) \in BlockWrite /\ PointersIn(MapWrite(free).contents) = NoPointers
       /\ MapWrite(free).at = FreeBlockListIndex
       /\ MapWrite(free).contents.is = "map" /\ MapWrite(free).contents.free = free
  /\ \A b \in Block, p \in Pointers :
       /\ At(b, PointerBlock(p)) \in BlockWrite
       /\ PointersIn(At(b, PointerBlock(p)).contents) = p
       /\ At(b, PointerBlock(p)).at = b
       /\ At(b, PointerBlock(p)).contents.is = "pointers"
  /\ \A b \in Block, bytes \in Bytes :
       /\ At(b, DataBlock(bytes)) \in BlockWrite
       /\ PointersIn(At(b, DataBlock(bytes)).contents) = NoPointers
       /\ At(b, DataBlock(bytes)).at = b
       /\ At(b, DataBlock(bytes)).contents.is = "data"
  <1>1. /\ \A t \in Tables : TableWrite(t) \in BlockWrite
        /\ \A names \in Names : DirectoryWrite(names) \in BlockWrite
        /\ \A free \in SUBSET Allocatable : MapWrite(free) \in BlockWrite
        /\ \A b \in Block, p \in Pointers : At(b, PointerBlock(p)) \in BlockWrite
        /\ \A b \in Block, bytes \in Bytes : At(b, DataBlock(bytes)) \in BlockWrite
    BY Writes DEF Tables
  <1>2. \A b, c : At(b, c).at = b /\ At(b, c).contents = c
    BY DEF At
  <1>3. /\ \A t : TableBlock(t).is = "inodes" /\ TableBlock(t).inodes = t
        /\ \A names : DirectoryBlock(names).is = "directory"
        /\ \A free : MapBlock(free).is = "map" /\ MapBlock(free).free = free
        /\ \A p : PointerBlock(p).is = "pointers" /\ PointerBlock(p).pointers = p
        /\ \A bytes : DataBlock(bytes).is = "data"
    BY DEF TableBlock, DirectoryBlock, MapBlock, PointerBlock, DataBlock
  <1>4. QED
    BY <1>1, <1>2, <1>3 DEF TableWrite, DirectoryWrite, MapWrite, PointersIn

(* One pointer of one i-node changes, or its size. *)
WithDirect(t, f, k, b) == [t EXCEPT ![f].direct[k] = b]
WithIndirect(t, f, i) == [t EXCEPT ![f].indirect = i]
WithSize(t, f, n) == [t EXCEPT ![f].size = n]

LEMMA DirectChanged ==
  ASSUME NEW t \in Tables, NEW f \in Slot,
         NEW k \in 0 .. DIRECT_POINTERS - 1, NEW b \in SoundPointer,
         NEW u, u = WithDirect(t, f, k, b)
  PROVE  /\ u \in Tables
         /\ \A s \in Slot : u[s].indirect = t[s].indirect
         /\ \A d : \A s \in Slot, r \in Roles :
              Held(u, d, s, r) = IF s = f /\ r = k THEN b ELSE Held(t, d, s, r)
         /\ t[f].direct[k] = -1 => \A s \in Slot : Below(t[s], u[s])
  <1>0. \A s \in Slot :
          /\ t[s] \in SoundInode
          /\ t[s].direct \in [0 .. DIRECT_POINTERS - 1 -> SoundPointer]
    BY DEF Tables, SoundInode
  <1>1. u \in Tables /\ \A s \in Slot : u[s].indirect = t[s].indirect
    BY InodeChanged DEF Tables, WithDirect
  <1>2. \A s \in Slot : \A j \in 0 .. DIRECT_POINTERS - 1 :
          u[s].direct[j] = IF s = f /\ j = k THEN b ELSE t[s].direct[j]
    BY <1>0 DEF Tables, SoundInode, WithDirect
  <1>3. k \in Roles /\ k < DIRECT_POINTERS /\ k # IndirectRole
    BY RoleNumbers DEF Roles, IndirectRole
  <1>4. \A d : \A s \in Slot, r \in Roles :
          Held(u, d, s, r) = IF s = f /\ r = k THEN b ELSE Held(t, d, s, r)
    BY <1>1, <1>2, <1>3, RoleNumbers DEF Held
  <1>5. t[f].direct[k] = -1 => \A s \in Slot : Below(t[s], u[s])
    BY <1>1, <1>2 DEF Below
  <1>6. QED
    BY <1>1, <1>4, <1>5

(* The indirect pointer of one changes. *)
LEMMA IndirectChanged ==
  ASSUME NEW t \in Tables, NEW f \in Slot, NEW i \in SoundPointer,
         NEW u, u = WithIndirect(t, f, i)
  PROVE  /\ u \in Tables /\ u[f].indirect = i
         /\ \A s \in Slot : s # f => u[s].indirect = t[s].indirect
         /\ \A d : \A s \in Slot, r \in Roles :
              s # f \/ r < DIRECT_POINTERS => Held(u, d, s, r) = Held(t, d, s, r)
         /\ t[f].indirect = -1 => \A s \in Slot : Below(t[s], u[s])
  <1>0. \A s \in Slot :
          /\ t[s] \in SoundInode
          /\ t[s].direct \in [0 .. DIRECT_POINTERS - 1 -> SoundPointer]
    BY DEF Tables, SoundInode
  <1>1. u \in Tables
    BY InodeChanged DEF Tables, WithIndirect
  <1>2. /\ u[f].indirect = i
        /\ \A s \in Slot : u[s].direct = t[s].direct
        /\ \A s \in Slot : s # f => u[s].indirect = t[s].indirect
    BY <1>0 DEF Tables, SoundInode, WithIndirect
  <1>3. \A d : \A s \in Slot, r \in Roles :
          s # f \/ r < DIRECT_POINTERS => Held(u, d, s, r) = Held(t, d, s, r)
    BY <1>2, RoleNumbers DEF Held, IndirectRole
  <1>4. t[f].indirect = -1 => \A s \in Slot : Below(t[s], u[s])
    BY <1>2 DEF Below
  <1>5. QED
    BY <1>1, <1>2, <1>3, <1>4

(* Only the size of one changes. *)
LEMMA SizeChanged ==
  ASSUME NEW t \in Tables, NEW f \in Slot, NEW n \in 0 .. MaxFileSize \cup {-1},
         NEW u, u = WithSize(t, f, n)
  PROVE  /\ u \in Tables
         /\ \A d : \A s \in Slot, r \in Roles : Held(u, d, s, r) = Held(t, d, s, r)
  <1>0. \A s \in Slot :
          /\ t[s] \in SoundInode
          /\ t[s].direct \in [0 .. DIRECT_POINTERS - 1 -> SoundPointer]
    BY DEF Tables, SoundInode
  <1>1. u \in Tables
    BY InodeChanged DEF Tables, WithSize
  <1>2. \A s \in Slot : u[s].direct = t[s].direct /\ u[s].indirect = t[s].indirect
    BY <1>0 DEF Tables, SoundInode, WithSize
  <1>3. \A d : \A s \in Slot, r \in Roles : Held(u, d, s, r) = Held(t, d, s, r)
    BY <1>2 DEF Held
  <1>4. QED
    BY <1>1, <1>3

(* An i-node that points nowhere has no role for any block. *)
LEMMA UnusedHoldsNothing ==
  ASSUME NEW t, NEW d, NEW s \in Slot, t[s] = UnusedInode, NEW r \in Roles
  PROVE  Held(t, d, s, r) = -1
  BY RoleNumbers DEF Held, UnusedInode

(* Roles are lost, and no block becomes free: nothing goes wrong. *)
LEMMA SoundWhenLost ==
  ASSUME NEW G \in SUBSET Slot,
         NEW t, NEW d, NEW free, Sound(G, t, d, free),
         NEW u, NEW e, NEW left, left \subseteq free,
         \A s \in G, r \in Roles : Held(u, e, s, r) \in {-1, Held(t, d, s, r)}
  PROVE  Sound(G, u, e, left)
  BY DEF Sound

(* Blocks that were free are given to one slot, in different roles. *)
LEMMA SoundWhenGiven ==
  ASSUME NEW G \in SUBSET Slot,
         NEW t, NEW d, NEW free, Sound(G, t, d, free),
         NEW u, NEW e, NEW left, left \subseteq free, NEW f \in G,
         \A s \in G, r \in Roles :
           \/ Held(u, e, s, r) \in {-1, Held(t, d, s, r)}
           \/ s = f /\ Held(u, e, s, r) \in free \ left,
         \A j, l \in Roles :
           Held(u, e, f, j) \in free \ left /\ Held(u, e, f, j) = Held(u, e, f, l) => j = l
  PROVE  Sound(G, u, e, left)
  <1>1. left \subseteq FreshMap /\ -1 \notin FreshMap
    BY Places DEF Sound
  <1>2. \A s \in G, r \in Roles :
          Held(u, e, s, r) = -1 \/ Held(u, e, s, r) \in FreshMap \ left
    BY <1>1 DEF Sound
  <1>3. ASSUME NEW s \in G, NEW v \in G, NEW j \in Roles, NEW l \in Roles,
               Held(u, e, s, j) # -1, Held(u, e, s, j) = Held(u, e, v, l)
        PROVE  s = v /\ j = l
    <2>1. CASE Held(u, e, s, j) \in free \ left
      <3>1. \A w \in G, r \in Roles : Held(t, d, w, r) \notin free
        BY <1>1 DEF Sound
      <3>2. s = f /\ v = f
        BY <1>3, <2>1, <3>1
      <3>3. QED
        BY <1>3, <2>1, <3>2
    <2>2. CASE Held(u, e, s, j) \notin free \ left
      <3>1. Held(u, e, s, j) = Held(t, d, s, j) /\ Held(u, e, v, l) = Held(t, d, v, l)
        BY <1>3, <2>2
      <3>2. /\ Held(t, d, s, j) # -1 /\ Held(t, d, s, j) = Held(t, d, v, l)
              => s = v /\ j = l
        BY DEF Sound
      <3>3. QED
        BY <1>3, <3>1, <3>2
    <2>3. QED
      BY <2>1, <2>2
  <1>4. QED
    BY <1>1, <1>2, <1>3 DEF Sound

(* The case of one block and one role. *)
LEMMA SoundWhenOneGiven ==
  ASSUME NEW G \in SUBSET Slot,
         NEW t, NEW d, NEW free, Sound(G, t, d, free),
         NEW u, NEW e, NEW f \in G, NEW k \in Roles, NEW b \in free,
         \A s \in G, r \in Roles :
           \/ Held(u, e, s, r) \in {-1, Held(t, d, s, r)}
           \/ s = f /\ r = k /\ Held(u, e, s, r) = b
  PROVE  Sound(G, u, e, free \ {b})
  <1>1. /\ free \subseteq FreshMap /\ -1 \notin FreshMap
        /\ \A s \in G, r \in Roles : Held(t, d, s, r) \notin free
    BY Places DEF Sound
  <1>2. free \ (free \ {b}) = {b} /\ free \ {b} \subseteq free
    OBVIOUS
  <1>3. \A j \in Roles : Held(u, e, f, j) = b => j = k
    BY <1>1
  <1>4. QED
    BY <1>2, <1>3, SoundWhenGiven

-----------------------------------------------------------------------------
(* Every step of a process that is not interrupted keeps the roles apart.  *)

LEMMA Typed ==
  ASSUME IInv
  PROVE  iNodes \in Tables /\ freeBlocks \in SUBSET Allocatable /\ DiskToBe \in Disks
  BY DiskToBeType DEF IInv, MemoryOK, Tables, Disks

(* Neither the tables nor the disk to be change. *)
LEMMA TablesUntouched ==
  ASSUME NEW G \in SUBSET Slot,
         BlockInv(G), iNodes' = iNodes, freeBlocks' = freeBlocks, DiskToBe' = DiskToBe
  PROVE  BlockInv(G)'
  <1>1. Sound(G, iNodes', DiskToBe', freeBlocks')
    BY DEF BlockInv
  <1>2. TableSaved(G)' /\ MapSaved'
    BY DEF BlockInv, TableSaved, MapSaved
  <1>3. QED
    BY <1>1, <1>2 DEF BlockInv

(* A saved table that i-nodes only add to. *)
LEMMA BelowStays ==
  ASSUME NEW G \in SUBSET Slot,
         TableSaved(G), NEW d, d[iNodeTableIndex] = DiskToBe[iNodeTableIndex],
         DiskToBe' = d, \A s \in G : Below(iNodes[s], iNodes'[s])
  PROVE  TableSaved(G)'
  <1>1. \A s \in G : Below(DiskToBe[iNodeTableIndex].inodes[s], iNodes'[s])
    BY DEF TableSaved, Below
  <1>2. QED
    BY <1>1 DEF TableSaved

(* An i-node is below itself. *)
LEMMA BelowItself == \A n : Below(n, n)
  BY DEF Below

(* The blocks of the slot that is written. *)
LEMMA OwnBlocks ==
  ASSUME NEW G \in SUBSET Slot,
         IInv, BlockInv(G), NEW s \in G
  PROVE  /\ iNodes[s].indirect >= 0 =>
              /\ iNodes[s].indirect \in FreshMap \ freeBlocks
              /\ \A u \in G : iNodes[u].indirect = iNodes[s].indirect => u = s
         /\ \A k \in 0 .. DIRECT_POINTERS + INDIRECT_POINTERS - 1 :
              BlockNumber(s, k) >= 0 => BlockNumber(s, k) \in FreshMap \ freeBlocks
  <1>1. \A u \in G : Held(iNodes, DiskToBe, u, IndirectRole) = iNodes[u].indirect
    BY HeldInMemory
  <1>2. \A k \in 0 .. DIRECT_POINTERS + INDIRECT_POINTERS - 1 :
          k \in Roles /\ Held(iNodes, DiskToBe, s, k) = BlockNumber(s, k)
    BY HeldInMemory, RoleNumbers
  <1>3. IndirectRole \in Roles /\ ~(-1 >= 0)
    BY RoleNumbers
  <1>4. QED
    BY <1>1, <1>2, <1>3 DEF BlockInv, Sound

(* sfs_fwrite writes a block that the file has. *)
LEMMA KnownBlockApart ==
  ASSUME NEW G \in SUBSET Slot,
         IInv, BlockInv(G), Covers(G), WriteKnownBlock
  PROVE  BlockInv(G)'
  <1> DEFINE b == BlockNumber(call.fd, blockIndex)
             bytes == SubSeq(call.fileData, blockIndex * DISK_BLOCK_SIZE + 1,
                             (blockIndex + 1) * DISK_BLOCK_SIZE)
             x == At(b, DataBlock(bytes))
  <1>1. /\ Writing /\ MoreBlocks /\ blockIndex < DIRECT_POINTERS + INDIRECT_POINTERS
        /\ b >= 0 /\ WriteData(<< >>, b) /\ iNodes' = iNodes /\ freeBlocks' = freeBlocks
    BY DEF WriteKnownBlock
  <1>2. /\ call.fd \in G /\ call.fd \in Slot
        /\ blockIndex \in 0 .. DIRECT_POINTERS + INDIRECT_POINTERS - 1
    BY <1>1, WriteInProgress, RoleNumbers DEF Covers, Writing
  <1>3. b \in FreshMap
    BY <1>1, <1>2, OwnBlocks
  <1>4. b \in Block /\ bytes \in Bytes
    BY <1>1, <1>3, DataOfBlock, Places
  <1>5. pending = << >> /\ pending' = << x >> /\ disk' = disk
    BY <1>1 DEF WriteData, Writing
  <1> HIDE DEF b, bytes
  <1>6. x \in BlockWrite /\ PointersIn(x.contents) = NoPointers /\ x.at = b
    BY <1>4, WriteParts
  <1> HIDE DEF x
  <1>7. DiskToBe' = Put(DiskToBe, x)
    BY <1>5, <1>6, WritesIssued DEF IInv
  <1>8. Sound(G, iNodes, Put(DiskToBe, x), freeBlocks)
    BY <1>6, Typed, OtherPutLoses, SoundWhenLost DEF BlockInv
  <1>9. /\ Put(DiskToBe, x)[iNodeTableIndex] = DiskToBe[iNodeTableIndex]
        /\ Put(DiskToBe, x)[FreeBlockListIndex] = DiskToBe[FreeBlockListIndex]
    BY <1>3, <1>6, Typed, PutIs, Places DEF Disks
  <1>10. TableSaved(G)'
    BY <1>1, <1>7, <1>9, BelowStays, BelowItself DEF BlockInv
  <1>11. MapSaved'
    BY <1>1, <1>7, <1>9 DEF BlockInv, MapSaved
  <1>12. QED
    BY <1>1, <1>7, <1>8, <1>10, <1>11 DEF BlockInv

(* It gives the file a block under a direct pointer. *)
LEMMA NewDirectApart ==
  ASSUME NEW G \in SUBSET Slot,
         IInv, BlockInv(G), Covers(G), WriteNewDirect
  PROVE  BlockInv(G)'
  <1> DEFINE b == Min(freeBlocks)
             k == blockIndex
             fd == call.fd
             bytes == SubSeq(call.fileData, k * DISK_BLOCK_SIZE + 1,
                             (k + 1) * DISK_BLOCK_SIZE)
             x == At(b, DataBlock(bytes))
             m == MapWrite(freeBlocks')
             d == DiskToBe
             e == Put(Put(d, m), x)
             t == iNodes
             u == WithDirect(t, fd, k, b)
  <1>1. /\ Writing /\ MoreBlocks /\ k < DIRECT_POINTERS /\ t[fd].direct[k] < 0
        /\ freeBlocks # {} /\ freeBlocks' = freeBlocks \ {b} /\ iNodes' = u
        /\ WriteData(<< m >>, b)
    BY DEF WriteNewDirect, WithDirect
  <1>2. fd \in G /\ fd \in Slot /\ k \in Nat /\ bytes \in Bytes
    BY <1>1, WriteInProgress, DataOfBlock DEF Covers, Writing
  <1>3. /\ t \in Tables /\ freeBlocks \in SUBSET Allocatable /\ d \in Disks
        /\ Sound(G, t, d, freeBlocks) /\ freeBlocks \subseteq FreshMap
    BY Typed DEF BlockInv, Sound
  <1>4. b \in freeBlocks /\ b \in FreshMap /\ b \in Block /\ b \in SoundPointer
    BY <1>1, <1>3, LowestFree
  <1>5. pending = << >> /\ pending' = Append(<< m >>, x) /\ disk' = disk
    BY <1>1 DEF WriteData, Writing
  <1> HIDE DEF b, bytes, k, fd, t
  <1>6. k \in 0 .. DIRECT_POINTERS - 1 /\ k \in Roles /\ t[fd].direct[k] = -1
    <2>1. k \in 0 .. DIRECT_POINTERS - 1 /\ k \in Roles
      BY <1>1, <1>2, RoleNumbers DEF Roles, IndirectRole
    <2>2. t[fd].direct[k] \in SoundPointer
      BY <1>2, <1>3, <2>1, HeldType
    <2>3. QED
      BY <1>1, <2>1, <2>2, Sizes
  <1>7. /\ u \in Tables /\ \A s \in G : Below(t[s], u[s])
        /\ \A s \in G, r \in Roles :
             Held(u, d, s, r) = IF s = fd /\ r = k THEN b ELSE Held(t, d, s, r)
    BY <1>2, <1>3, <1>4, <1>6, DirectChanged
  <1>8. /\ x \in BlockWrite /\ PointersIn(x.contents) = NoPointers /\ x.at = b
        /\ m \in BlockWrite /\ PointersIn(m.contents) = NoPointers
        /\ m.at = FreeBlockListIndex
        /\ m.contents.is = "map" /\ m.contents.free = freeBlocks'
    BY <1>1, <1>2, <1>3, <1>4, WriteParts
  <1> HIDE DEF x, m, u
  <1>9. DiskToBe' = e
    <2>1. pending' = << m, x >>
      BY <1>5, <1>8, Appended
    <2>2. QED
      BY <1>5, <1>8, <2>1, WritesIssued DEF IInv
  <1>10. /\ Put(d, m) \in Disks /\ e \in Disks
         /\ e[iNodeTableIndex] = d[iNodeTableIndex]
         /\ e[FreeBlockListIndex] = m.contents
    BY <1>3, <1>4, <1>8, PutIs, Places DEF Disks
  <1>11. Sound(G, u, e, freeBlocks \ {b})
    <2>1. ASSUME NEW s \in G, NEW r \in Roles
          PROVE  Held(u, e, s, r) \in {-1, Held(u, d, s, r)}
      <3>1. Held(u, Put(d, m), s, r) \in {-1, Held(u, d, s, r)}
        BY <1>3, <1>7, <1>8, OtherPutLoses
      <3>2. Held(u, e, s, r) \in {-1, Held(u, Put(d, m), s, r)}
        BY <1>7, <1>8, <1>10, OtherPutLoses
      <3>3. QED
        BY <3>1, <3>2
    <2> HIDE DEF e, d
    <2>2. QED
      BY <1>2, <1>3, <1>4, <1>6, <1>7, <2>1, SoundWhenOneGiven
  <1>12. TableSaved(G)'
    BY <1>1, <1>7, <1>9, <1>10, BelowStays DEF BlockInv, t
  <1>13. MapSaved'
    BY <1>8, <1>9, <1>10 DEF MapSaved
  <1>14. QED
    BY <1>1, <1>9, <1>11, <1>12, <1>13 DEF BlockInv

(* Or under an indirect pointer. *)
LEMMA NewIndirectApart ==
  ASSUME NEW G \in SUBSET Slot,
         IInv, BlockInv(G), Covers(G), WriteNewIndirect
  PROVE  BlockInv(G)'
  <1> DEFINE b == Min(freeBlocks)
             k == blockIndex
             fd == call.fd
             i == Indirect
             pointers == [IndirectPointers(fd) EXCEPT ![k - DIRECT_POINTERS] = b]
             bytes == SubSeq(call.fileData, k * DISK_BLOCK_SIZE + 1,
                             (k + 1) * DISK_BLOCK_SIZE)
             m == MapWrite(freeBlocks')
             w == At(i, PointerBlock(pointers))
             x == At(b, DataBlock(bytes))
             t == iNodes
             d == DiskToBe
             e == Put(Put(Put(d, m), w), x)
  <1>1. /\ Writing /\ MoreBlocks
        /\ k \in DIRECT_POINTERS .. DIRECT_POINTERS + INDIRECT_POINTERS - 1
        /\ i >= 0 /\ i = t[fd].indirect /\ freeBlocks # {}
        /\ freeBlocks' = freeBlocks \ {b} /\ iNodes' = t
        /\ WriteData(<< m, w >>, b)
    BY DEF WriteNewIndirect, Indirect
  <1>2. fd \in G /\ fd \in Slot /\ k \in Nat /\ bytes \in Bytes
    BY <1>1, WriteInProgress, DataOfBlock DEF Covers, Writing
  <1>3. /\ t \in Tables /\ freeBlocks \in SUBSET Allocatable /\ d \in Disks
        /\ Sound(G, t, d, freeBlocks) /\ freeBlocks \subseteq FreshMap
    BY Typed DEF BlockInv, Sound
  <1>4. b \in freeBlocks /\ b \in FreshMap /\ b \in Block /\ b \in SoundPointer
    BY <1>1, <1>3, LowestFree
  <1>5. pending = << >> /\ pending' = Append(<< m, w >>, x) /\ disk' = disk
    BY <1>1 DEF WriteData, Writing
  <1>6. /\ IndirectPointers(fd) \in Pointers
        /\ PointersIn(d[i]) = IndirectPointers(fd)
    BY <1>1, <1>2, BlockNumbers, HeldInMemory DEF IInv
  <1>7. i \in FreshMap /\ i \in Block /\ \A s \in G : t[s].indirect = i => s = fd
    BY <1>1, <1>2, OwnBlocks, Places
  <1>8. k \in Roles /\ k # IndirectRole /\ k >= DIRECT_POINTERS
        /\ k - DIRECT_POINTERS \in 0 .. INDIRECT_POINTERS - 1
    BY <1>1, <1>2, RoleNumbers DEF Roles, IndirectRole
  <1>9. /\ pointers \in Pointers
        /\ \A j \in 0 .. INDIRECT_POINTERS - 1 :
             pointers[j] = IF j = k - DIRECT_POINTERS THEN b ELSE IndirectPointers(fd)[j]
    BY <1>4, <1>6, <1>8 DEF Pointers
  <1> HIDE DEF b, bytes, k, fd, i, pointers
  <1>10. /\ x \in BlockWrite /\ PointersIn(x.contents) = NoPointers /\ x.at = b
         /\ m \in BlockWrite /\ PointersIn(m.contents) = NoPointers
         /\ m.at = FreeBlockListIndex
         /\ m.contents.is = "map" /\ m.contents.free = freeBlocks'
         /\ w \in BlockWrite /\ PointersIn(w.contents) = pointers /\ w.at = i
    BY <1>1, <1>2, <1>3, <1>4, <1>7, <1>9, WriteParts
  <1> HIDE DEF x, m, w, t
  <1>11. DiskToBe' = e
    BY <1>5, <1>10, WithDataLast DEF IInv
  <1>12. /\ Put(d, m) \in Disks /\ Put(Put(d, m), w) \in Disks /\ e \in Disks
         /\ e[iNodeTableIndex] = d[iNodeTableIndex]
         /\ e[FreeBlockListIndex] = m.contents
    BY <1>3, <1>4, <1>7, <1>10, PutIs, Places DEF Disks
  <1>13. Sound(G, t, e, freeBlocks \ {b})
    <2>1. ASSUME NEW s \in G, NEW r \in Roles
          PROVE  \/ Held(t, e, s, r) \in {-1, Held(t, d, s, r)}
                 \/ s = fd /\ r = k /\ Held(t, e, s, r) = b
      <3>1. Held(t, Put(d, m), s, r) \in {-1, Held(t, d, s, r)}
        BY <1>3, <1>10, OtherPutLoses
      <3>2. Held(t, e, s, r) \in {-1, Held(t, Put(Put(d, m), w), s, r)}
        BY <1>3, <1>10, <1>12, OtherPutLoses
      <3>3. Held(t, Put(Put(d, m), w), s, r)
              = IF r >= DIRECT_POINTERS /\ r # IndirectRole /\ t[s].indirect = i
                THEN pointers[r - DIRECT_POINTERS]
                ELSE Held(t, Put(d, m), s, r)
        BY <1>3, <1>10, <1>12, HeldAfterPut
      <3>4. CASE r >= DIRECT_POINTERS /\ r # IndirectRole /\ t[s].indirect = i
        <4>1. s = fd
          BY <1>7, <3>4
        <4>2. r - DIRECT_POINTERS \in 0 .. INDIRECT_POINTERS - 1 /\ r \in Nat
          BY <3>4, RoleNumbers
        <4>3. Held(t, d, s, r) = IndirectPointers(fd)[r - DIRECT_POINTERS]
          BY <1>1, <1>6, <3>4, <4>2, <4>1, RoleNumbers DEF Held
        <4>4. r - DIRECT_POINTERS = k - DIRECT_POINTERS => r = k
          BY <1>2, <4>2, RoleNumbers
        <4>5. QED
          BY <1>9, <3>2, <3>3, <3>4, <4>1, <4>2, <4>3, <4>4
      <3>5. CASE ~(r >= DIRECT_POINTERS /\ r # IndirectRole /\ t[s].indirect = i)
        BY <3>1, <3>2, <3>3, <3>5
      <3>6. QED
        BY <3>4, <3>5
    <2> HIDE DEF e, d
    <2>2. QED
      BY <1>2, <1>3, <1>4, <1>8, <2>1, SoundWhenOneGiven
  <1>14. TableSaved(G)'
    BY <1>1, <1>11, <1>12, BelowStays, BelowItself DEF BlockInv, t
  <1>15. MapSaved'
    BY <1>10, <1>11, <1>12 DEF MapSaved
  <1>16. QED
    BY <1>1, <1>11, <1>13, <1>14, <1>15 DEF BlockInv

(* The first block beyond the direct pointers comes with one of pointers:  *)
(* two blocks, in two roles.                                               *)
LEMMA FirstIndirectApart ==
  ASSUME NEW G \in SUBSET Slot,
         IInv, BlockInv(G), Covers(G), WriteFirstIndirect
  PROVE  BlockInv(G)'
  <1> DEFINE i == Min(freeBlocks)
             b == Min(freeBlocks \ {i})
             k == blockIndex
             fd == call.fd
             pointers == [NoPointers EXCEPT ![0] = b]
             bytes == SubSeq(call.fileData, k * DISK_BLOCK_SIZE + 1,
                             (k + 1) * DISK_BLOCK_SIZE)
             l == MapWrite(freeBlocks \ {i})
             m == MapWrite(freeBlocks')
             w == At(i, PointerBlock(pointers))
             x == At(b, DataBlock(bytes))
             t == iNodes
             u == WithIndirect(t, fd, i)
             d == DiskToBe
             e == Put(Put(Put(Put(d, l), m), w), x)
  <1>1. /\ Writing /\ MoreBlocks /\ t[fd].indirect < 0
        /\ Cardinality(freeBlocks) >= 2
        /\ freeBlocks' = freeBlocks \ {i, b} /\ iNodes' = u
        /\ WriteData(<< l, m, w >>, b)
    BY DEF WriteFirstIndirect, Indirect, WithIndirect
  <1>2. fd \in G /\ fd \in Slot /\ k \in Nat /\ bytes \in Bytes
    BY <1>1, WriteInProgress, DataOfBlock DEF Covers, Writing
  <1>3. /\ t \in Tables /\ freeBlocks \in SUBSET Allocatable /\ d \in Disks
        /\ Sound(G, t, d, freeBlocks) /\ freeBlocks \subseteq FreshMap
    BY Typed DEF BlockInv, Sound
  <1>4. i \in freeBlocks /\ i \in Block /\ i \in SoundPointer
    BY <1>1, <1>3, TwoFree, LowestFree
  <1>5. b \in freeBlocks /\ b # i /\ b \in Block /\ b \in SoundPointer
    <2>1. freeBlocks \ {i} # {} /\ freeBlocks \ {i} \in SUBSET Allocatable
      BY <1>1, <1>3, TwoFree
    <2>2. b \in freeBlocks \ {i} /\ b \in Block /\ b \in SoundPointer
      BY <2>1, LowestFree
    <2>3. QED
      BY <2>2
  <1>6. pending = << >> /\ pending' = Append(<< l, m, w >>, x) /\ disk' = disk
    BY <1>1 DEF WriteData, Writing
  <1> HIDE DEF b, bytes, k, fd, i, t
  <1>7. /\ pointers \in Pointers
        /\ \A j \in 0 .. INDIRECT_POINTERS - 1 : pointers[j] = IF j = 0 THEN b ELSE -1
    BY <1>5, RoleNumbers DEF Pointers, NoPointers, SoundPointer
  <1> HIDE DEF pointers
  <1>8. t[fd].indirect = -1
    BY <1>1, <1>2, <1>3, HeldType
  <1>9. /\ u \in Tables /\ u[fd].indirect = i
        /\ \A s \in G : s # fd => u[s].indirect = t[s].indirect
        /\ \A s \in G : Below(t[s], u[s])
        /\ \A s \in G, r \in Roles :
             s # fd \/ r < DIRECT_POINTERS => Held(u, d, s, r) = Held(t, d, s, r)
    BY <1>2, <1>3, <1>4, <1>8, IndirectChanged
  <1>10. freeBlocks \ {i} \in SUBSET Allocatable /\ freeBlocks' \in SUBSET Allocatable
    BY <1>1, <1>3
  <1>11. /\ x \in BlockWrite /\ PointersIn(x.contents) = NoPointers /\ x.at = b
         /\ l \in BlockWrite /\ PointersIn(l.contents) = NoPointers
         /\ l.at = FreeBlockListIndex
         /\ m \in BlockWrite /\ PointersIn(m.contents) = NoPointers
         /\ m.at = FreeBlockListIndex
         /\ m.contents.is = "map" /\ m.contents.free = freeBlocks'
         /\ w \in BlockWrite /\ PointersIn(w.contents) = pointers /\ w.at = i
    BY <1>2, <1>4, <1>5, <1>7, <1>10, WriteParts
  <1> HIDE DEF x, m, l, w, u
  <1>12. DiskToBe' = e
    BY <1>6, <1>11, WithDataLast DEF IInv
  <1>13. /\ Put(d, l) \in Disks /\ Put(Put(d, l), m) \in Disks
         /\ Put(Put(Put(d, l), m), w) \in Disks /\ e \in Disks
         /\ e[iNodeTableIndex] = d[iNodeTableIndex]
         /\ e[FreeBlockListIndex] = m.contents
    <2>1. i \in FreshMap /\ b \in FreshMap
      BY <1>3, <1>4, <1>5
    <2>2. Put(d, l) \in Disks /\ Put(Put(d, l), m) \in Disks
      BY <1>3, <1>11, PutIs DEF Disks
    <2>3. Put(Put(Put(d, l), m), w) \in Disks /\ e \in Disks
      BY <1>11, <2>2, PutIs DEF Disks
    <2>4. /\ Put(d, l)[iNodeTableIndex] = d[iNodeTableIndex]
          /\ Put(Put(d, l), m)[iNodeTableIndex] = d[iNodeTableIndex]
          /\ Put(Put(d, l), m)[FreeBlockListIndex] = m.contents
      BY <1>3, <1>11, <2>2, PutIs, Places DEF Disks
    <2>5. /\ Put(Put(Put(d, l), m), w)[iNodeTableIndex] = d[iNodeTableIndex]
          /\ Put(Put(Put(d, l), m), w)[FreeBlockListIndex] = m.contents
      BY <1>11, <2>1, <2>2, <2>4, PutIs, Places DEF Disks
    <2>6. /\ e[iNodeTableIndex] = d[iNodeTableIndex]
          /\ e[FreeBlockListIndex] = m.contents
      BY <1>11, <2>1, <2>3, <2>5, PutIs, Places DEF Disks
    <2>7. QED
      BY <2>2, <2>3, <2>6
  <1>14. Sound(G, u, e, freeBlocks \ {i, b})
    <2> DEFINE before(s, r) == Held(u, Put(Put(d, l), m), s, r)
    <2>1. \A s \in G, r \in Roles : before(s, r) \in {-1, Held(u, d, s, r)}
      <3>1. \A s \in G, r \in Roles : Held(u, Put(d, l), s, r) \in {-1, Held(u, d, s, r)}
        BY <1>3, <1>9, <1>11, OtherPutLoses
      <3>2. \A s \in G, r \in Roles : before(s, r) \in {-1, Held(u, Put(d, l), s, r)}
        BY <1>9, <1>11, <1>13, OtherPutLoses
      <3>3. QED
        BY <3>1, <3>2
    <2>2. \A s \in G, r \in Roles :
            \/ Held(u, e, s, r) = -1
            \/ Held(u, e, s, r) = IF r >= DIRECT_POINTERS /\ r # IndirectRole
                                       /\ u[s].indirect = i
                                  THEN pointers[r - DIRECT_POINTERS] ELSE before(s, r)
      <3>1. \A s \in G, r \in Roles :
              Held(u, e, s, r) \in {-1, Held(u, Put(Put(Put(d, l), m), w), s, r)}
        BY <1>9, <1>11, <1>13, OtherPutLoses
      <3>2. \A s \in G, r \in Roles :
              Held(u, Put(Put(Put(d, l), m), w), s, r)
                = IF r >= DIRECT_POINTERS /\ r # IndirectRole /\ u[s].indirect = i
                  THEN pointers[r - DIRECT_POINTERS] ELSE before(s, r)
        BY <1>9, <1>11, <1>13, HeldAfterPut
      <3>3. QED
        BY <3>1, <3>2
    <2> HIDE DEF before
    <2>3. \A s \in G : u[s].indirect = i => s = fd
      <3>1. \A s \in G : t[s].indirect # i
        <4>1. \A s \in G : Held(t, d, s, IndirectRole) = t[s].indirect
          BY HeldInMemory DEF t
        <4>2. \A s \in G : Held(t, d, s, IndirectRole) = -1
                              \/ Held(t, d, s, IndirectRole) \notin freeBlocks
          BY <1>3, RoleNumbers DEF Sound
        <4>3. -1 \notin freeBlocks
          BY <1>3, Places
        <4>4. QED
          BY <1>4, <4>1, <4>2, <4>3
      <3>2. QED
        BY <1>9, <3>1
    <2>4. ASSUME NEW s \in G, NEW r \in Roles
          PROVE  \/ Held(u, e, s, r) \in {-1, Held(t, d, s, r)}
                 \/ s = fd /\ r = IndirectRole /\ Held(u, e, s, r) = i
                 \/ s = fd /\ r = DIRECT_POINTERS /\ Held(u, e, s, r) = b
      <3>1. CASE s # fd \/ r < DIRECT_POINTERS
        <4>1. Held(u, e, s, r) \in {-1, before(s, r)}
          BY <2>2, <2>3, <3>1, RoleNumbers
        <4>2. QED
          BY <1>9, <2>1, <3>1, <4>1
      <3>2. CASE s = fd /\ r = IndirectRole
        <4>1. Held(u, e, s, r) = i
          BY <1>9, <3>2, RoleNumbers DEF Held, IndirectRole
        <4>2. QED
          BY <3>2, <4>1
      <3>3. CASE s = fd /\ r >= DIRECT_POINTERS /\ r # IndirectRole
        <4>1. r - DIRECT_POINTERS \in 0 .. INDIRECT_POINTERS - 1 /\ r \in Nat
              /\ DIRECT_POINTERS \in Nat
          BY <3>3, RoleNumbers
        <4>2. Held(u, e, s, r) = -1 \/ Held(u, e, s, r) = pointers[r - DIRECT_POINTERS]
          BY <1>9, <2>2, <3>3
        <4>3. r - DIRECT_POINTERS = 0 => r = DIRECT_POINTERS
          BY <4>1
        <4>4. QED
          BY <1>7, <3>3, <4>1, <4>2, <4>3
      <3>4. QED
        BY <3>1, <3>2, <3>3, RoleNumbers
    <2> HIDE DEF e, d
    <2>5. freeBlocks \ {i, b} \subseteq freeBlocks
          /\ freeBlocks \ (freeBlocks \ {i, b}) = {i, b}
      BY <1>4, <1>5
    <2>6. /\ -1 \notin freeBlocks
          /\ \A s \in G, r \in Roles : Held(t, d, s, r) \notin freeBlocks
      BY <1>3, Places DEF Sound
    <2>7. \A j, n \in Roles : Held(u, e, fd, j) \in {i, b}
                               /\ Held(u, e, fd, j) = Held(u, e, fd, n) => j = n
      BY <1>2, <1>4, <1>5, <2>4, <2>6
    <2>8. QED
      BY <1>2, <1>3, <1>4, <1>5, <2>4, <2>5, <2>7, SoundWhenGiven
  <1>15. TableSaved(G)'
    BY <1>1, <1>9, <1>12, <1>13, BelowStays DEF BlockInv, t
  <1>16. MapSaved'
    BY <1>11, <1>12, <1>13 DEF MapSaved
  <1>17. QED
    BY <1>1, <1>12, <1>14, <1>15, <1>16 DEF BlockInv

(* An error return without a write. *)
LEMMA QuietFailureApart ==
  ASSUME NEW G \in SUBSET Slot,
         IInv, BlockInv(G), Writing, WriteFails(<< >>), iNodes' = iNodes,
         freeBlocks' = freeBlocks
  PROVE  BlockInv(G)'
  <1>1. pending = << >> /\ pending' = << >> /\ disk' = disk
    BY DEF Writing, WriteFails
  <1>2. DiskToBe' = DiskToBe
    BY <1>1, WritesIssued DEF IInv
  <1>3. QED
    BY <1>2, TablesUntouched

(* An error return after one write that takes no role but may leave the    *)
(* map damaged.                                                            *)
LEMMA FailureApart ==
  ASSUME NEW G \in SUBSET Slot,
         IInv, BlockInv(G), Writing, NEW x \in BlockWrite, WriteFails(<< x >>),
         iNodes' = iNodes, freeBlocks' = freeBlocks, x.at # iNodeTableIndex,
         x.contents.is # "map",
         \A s \in G, r \in Roles :
           Held(iNodes, Put(DiskToBe, x), s, r) \in {-1, Held(iNodes, DiskToBe, s, r)}
  PROVE  BlockInv(G)'
  <1> DEFINE e == Put(DiskToBe, x)
  <1>1. pending = << >> /\ pending' = << x >> /\ disk' = disk
    BY DEF Writing, WriteFails
  <1>2. DiskToBe' = e
    BY <1>1, WritesIssued DEF IInv
  <1>3. Sound(G, iNodes, e, freeBlocks)
    BY SoundWhenLost DEF BlockInv
  <1>4. /\ e[iNodeTableIndex] = DiskToBe[iNodeTableIndex]
        /\ \/ e[FreeBlockListIndex] = DiskToBe[FreeBlockListIndex]
           \/ e[FreeBlockListIndex].is # "map"
    BY Typed, PutIs, Places DEF Disks
  <1> HIDE DEF e
  <1>5. TableSaved(G)'
    BY <1>2, <1>4, BelowStays, BelowItself DEF BlockInv
  <1>6. MapSaved'
    BY <1>2, <1>4 DEF BlockInv, MapSaved
  <1>7. QED
    BY <1>2, <1>3, <1>5, <1>6 DEF BlockInv

(* The block of pointers is written again as it was. *)
LEMMA NoBlockLeftApart ==
  ASSUME NEW G \in SUBSET Slot,
         IInv, BlockInv(G), Covers(G), NoBlockLeft
  PROVE  BlockInv(G)'
  <1> DEFINE i == Indirect
             fd == call.fd
             x == At(i, PointerBlock(IndirectPointers(fd)))
  <1>1. /\ Writing /\ iNodes' = iNodes /\ freeBlocks' = freeBlocks
        /\ blockIndex < DIRECT_POINTERS \/ i >= 0
        /\ WriteFails(IF blockIndex < DIRECT_POINTERS THEN << >> ELSE << x >>)
    BY DEF NoBlockLeft
  <1>2. CASE blockIndex < DIRECT_POINTERS
    BY <1>1, <1>2, QuietFailureApart
  <1>3. CASE ~(blockIndex < DIRECT_POINTERS)
    <2>1. /\ fd \in G /\ fd \in Slot /\ i >= 0 /\ i = iNodes[fd].indirect
          /\ WriteFails(<< x >>)
      BY <1>1, <1>3, WriteInProgress DEF Indirect, Covers, Writing
    <2>2. /\ i \in FreshMap /\ i \in Block
          /\ IndirectPointers(fd) \in Pointers
          /\ PointersIn(DiskToBe[i]) = IndirectPointers(fd)
      BY <2>1, OwnBlocks, Places, BlockNumbers, HeldInMemory DEF IInv
    <2> HIDE DEF i, fd
    <2>3. /\ x \in BlockWrite /\ PointersIn(x.contents) = IndirectPointers(fd)
          /\ x.at = i /\ x.contents.is = "pointers"
      BY <2>2, WriteParts
    <2> HIDE DEF x
    <2>4. ASSUME NEW s \in G, NEW r \in Roles
          PROVE  Held(iNodes, Put(DiskToBe, x), s, r) = Held(iNodes, DiskToBe, s, r)
      <3>1. Held(iNodes, Put(DiskToBe, x), s, r)
              = IF r >= DIRECT_POINTERS /\ r # IndirectRole /\ iNodes[s].indirect = i
                THEN IndirectPointers(fd)[r - DIRECT_POINTERS]
                ELSE Held(iNodes, DiskToBe, s, r)
        BY <2>3, Typed, HeldAfterPut
      <3>2. r >= DIRECT_POINTERS /\ r # IndirectRole /\ iNodes[s].indirect = i
              => Held(iNodes, DiskToBe, s, r) = IndirectPointers(fd)[r - DIRECT_POINTERS]
        BY <2>1, <2>2, RoleNumbers DEF Held
      <3>3. QED
        BY <3>1, <3>2
    <2>5. i # iNodeTableIndex
      BY <2>2, Places
    <2>6. QED
      BY <1>1, <2>1, <2>3, <2>4, <2>5, FailureApart
  <1>4. QED
    BY <1>2, <1>3

(* The write that goes astray is of a block of pointers that points        *)
(* nowhere.  It misses the i-node table, but not always the map.           *)
LEMMA NoBlockForPointersApart ==
  ASSUME NEW G \in SUBSET Slot,
         IInv, BlockInv(G), Covers(G), NoBlockForPointers
  PROVE  BlockInv(G)'
  <1> DEFINE last == DIRECT_POINTERS - 1
             fd == call.fd
             next == iNodes[fd].direct[last] + 1
             x == At(next, PointerBlock(NoPointers))
  <1>1. /\ Writing /\ iNodes' = iNodes /\ freeBlocks' = freeBlocks
        /\ WriteFails(<< x >>)
    BY DEF NoBlockForPointers
  <1>2. fd \in G /\ fd \in Slot
    BY <1>1, WriteInProgress DEF Covers, Writing
  <1>3. last \in 0 .. DIRECT_POINTERS - 1 /\ last \in Roles /\ last < DIRECT_POINTERS
    BY RoleNumbers DEF Roles, IndirectRole
  <1> HIDE DEF last, fd
  <1>4. /\ iNodes[fd].direct[last] = Held(iNodes, DiskToBe, fd, last)
        /\ iNodes[fd].direct[last] \in SoundPointer
    BY <1>2, <1>3, Typed, HeldType DEF Held
  <1>5. iNodes[fd].direct[last] = -1 \/ iNodes[fd].direct[last] \in FreshMap
    BY <1>2, <1>3, <1>4 DEF BlockInv, Sound
  <1>6. next \in Block
    BY <1>4, Sizes DEF SoundPointer, Allocatable, Block
  <1>7. next # iNodeTableIndex
    BY <1>5, Places DEF iNodeTableIndex
  <1> HIDE DEF next
  <1>8. NoPointers \in Pointers
    BY DEF NoPointers, Pointers, SoundPointer
  <1>9. /\ x \in BlockWrite /\ PointersIn(x.contents) = NoPointers
        /\ x.at = next /\ x.contents.is = "pointers"
    BY <1>6, <1>8, WriteParts
  <1> HIDE DEF x
  <1>10. \A s \in G, r \in Roles :
           Held(iNodes, Put(DiskToBe, x), s, r) \in {-1, Held(iNodes, DiskToBe, s, r)}
    BY <1>9, Typed, OtherPutLoses
  <1>11. QED
    BY <1>1, <1>7, <1>9, <1>10, FailureApart

(* The last free block becomes a block of pointers that points nowhere. *)
LEMMA NoBlockForFirstPointerApart ==
  ASSUME NEW G \in SUBSET Slot,
         IInv, BlockInv(G), Covers(G), NoBlockForFirstPointer
  PROVE  BlockInv(G)'
  <1> DEFINE i == Min(freeBlocks)
             fd == call.fd
             m == MapWrite({})
             w == At(i, PointerBlock(NoPointers))
             t == iNodes
             u == WithIndirect(t, fd, i)
             d == DiskToBe
             e == Put(Put(d, m), w)
  <1>1. /\ Writing /\ t[fd].indirect < 0 /\ Cardinality(freeBlocks) = 1
        /\ freeBlocks' = {} /\ iNodes' = u /\ WriteFails(<< m, w >>)
    BY DEF NoBlockForFirstPointer, Indirect, WithIndirect
  <1>2. fd \in G /\ fd \in Slot
    BY <1>1, WriteInProgress DEF Covers, Writing
  <1>3. /\ t \in Tables /\ freeBlocks \in SUBSET Allocatable /\ d \in Disks
        /\ Sound(G, t, d, freeBlocks) /\ freeBlocks \subseteq FreshMap
    BY Typed DEF BlockInv, Sound
  <1>4. i \in freeBlocks /\ i \in FreshMap /\ i \in Block /\ i \in SoundPointer
    BY <1>1, <1>3, TwoFree, LowestFree
  <1>5. pending = << >> /\ pending' = << m, w >> /\ disk' = disk
    BY <1>1 DEF WriteFails, Writing
  <1> HIDE DEF fd, i, t
  <1>6. t[fd].indirect = -1
    BY <1>1, <1>2, <1>3, HeldType
  <1>7. /\ u \in Tables /\ u[fd].indirect = i
        /\ \A s \in G : Below(t[s], u[s])
        /\ \A s \in G, r \in Roles :
             s # fd \/ r < DIRECT_POINTERS => Held(u, d, s, r) = Held(t, d, s, r)
    BY <1>2, <1>3, <1>4, <1>6, IndirectChanged
  <1>8. NoPointers \in Pointers /\ {} \in SUBSET Allocatable
    BY DEF NoPointers, Pointers, SoundPointer
  <1>9. /\ m \in BlockWrite /\ PointersIn(m.contents) = NoPointers
        /\ m.at = FreeBlockListIndex
        /\ m.contents.is = "map" /\ m.contents.free = {}
        /\ w \in BlockWrite /\ PointersIn(w.contents) = NoPointers /\ w.at = i
    BY <1>4, <1>8, WriteParts
  <1> HIDE DEF m, w, u
  <1>10. DiskToBe' = e
    BY <1>5, <1>9, WritesIssued DEF IInv
  <1>11. /\ Put(d, m) \in Disks /\ e \in Disks
         /\ e[iNodeTableIndex] = d[iNodeTableIndex]
         /\ e[FreeBlockListIndex] = m.contents
    BY <1>3, <1>4, <1>9, PutIs, Places DEF Disks
  <1>12. ASSUME NEW s \in G, NEW r \in Roles
         PROVE  \/ Held(u, e, s, r) \in {-1, Held(t, d, s, r)}
                \/ s = fd /\ r = IndirectRole /\ Held(u, e, s, r) = i
    <2>1. Held(u, Put(d, m), s, r) \in {-1, Held(u, d, s, r)}
      BY <1>3, <1>7, <1>9, OtherPutLoses
    <2>2. Held(u, e, s, r) \in {-1, Held(u, Put(d, m), s, r)}
      BY <1>7, <1>9, <1>11, OtherPutLoses
    <2>3. CASE s # fd \/ r < DIRECT_POINTERS
      BY <1>7, <2>1, <2>2, <2>3
    <2>4. CASE s = fd /\ r = IndirectRole
      <3>1. Held(u, e, s, r) = i
        BY <1>7, <2>4, RoleNumbers DEF Held, IndirectRole
      <3>2. QED
        BY <2>4, <3>1
    <2>5. CASE s = fd /\ r >= DIRECT_POINTERS /\ r # IndirectRole
      <3>1. Held(u, e, s, r) = NoPointers[r - DIRECT_POINTERS]
        BY <1>7, <1>9, <1>11, <2>5, HeldAfterPut
      <3>2. NoPointers[r - DIRECT_POINTERS] = -1
        BY <2>5, RoleNumbers DEF NoPointers
      <3>3. QED
        BY <3>1, <3>2
    <2>6. QED
      BY <2>3, <2>4, <2>5, RoleNumbers
  <1>13. Sound(G, u, e, {})
    <2> HIDE DEF e, d
    <2>1. Sound(G, u, e, freeBlocks \ {i})
      BY <1>2, <1>3, <1>4, <1>12, RoleNumbers, SoundWhenOneGiven
    <2>2. QED
      BY <2>1, SoundWhenLost
  <1>14. TableSaved(G)'
    BY <1>1, <1>7, <1>10, <1>11, BelowStays DEF BlockInv, t
  <1>15. MapSaved'
    BY <1>1, <1>9, <1>10, <1>11 DEF MapSaved
  <1>16. QED
    BY <1>1, <1>10, <1>13, <1>14, <1>15 DEF BlockInv

(* The last write of sfs_fwrite saves the table with the new size. *)
LEMMA WriteEndsApart ==
  ASSUME NEW G \in SUBSET Slot,
         IInv, BlockInv(G), WriteEnds
  PROVE  BlockInv(G)'
  <1> DEFINE size == call.fileSize
             fd == call.fd
             t == iNodes
             u == WithSize(t, fd, size)
             x == TableWrite(u)
             d == DiskToBe
             e == Put(d, x)
  <1>1. /\ Writing /\ iNodes' = u /\ freeBlocks' = freeBlocks
        /\ pending = << >> /\ pending' = << x >> /\ disk' = disk
    BY DEF WriteEnds, WithSize, Writing
  <1>2. fd \in Slot /\ t \in Tables /\ d \in Disks
    BY <1>1, WriteInProgress, Typed
  <1>3. size \in 0 .. MaxFileSize \cup {-1}
    <2>1. IInv'
      BY EndKeeps
    <2>2. iNodes'[fd] \in SoundInode
      BY <1>2, <2>1 DEF IInv, MemoryOK
    <2>3. iNodes'[fd].size \in 0 .. MaxFileSize \cup {-1}
      BY <2>2 DEF SoundInode
    <2>4. t[fd] \in SoundInode
      BY <1>2 DEF Tables
    <2>5. iNodes'[fd].size = size
      BY <1>1, <1>2, <2>4 DEF WithSize, Tables, SoundInode
    <2>6. QED
      BY <2>3, <2>5
  <1> HIDE DEF size, fd, t
  <1>4. /\ u \in Tables
        /\ \A s \in G, r \in Roles : Held(u, d, s, r) = Held(t, d, s, r)
    BY <1>2, <1>3, SizeChanged
  <1> HIDE DEF u
  <1>5. /\ x \in BlockWrite /\ PointersIn(x.contents) = NoPointers
        /\ x.at = iNodeTableIndex
        /\ x.contents.is = "inodes" /\ x.contents.inodes = u
    BY <1>4, WriteParts
  <1> HIDE DEF x
  <1>6. DiskToBe' = e
    BY <1>1, <1>5, WritesIssued DEF IInv
  <1>7. /\ e[iNodeTableIndex] = x.contents
        /\ e[FreeBlockListIndex] = d[FreeBlockListIndex]
    BY <1>2, <1>5, PutIs, Places DEF Disks
  <1>8. Sound(G, u, e, freeBlocks)
    <2>1. \A s \in G, r \in Roles : Held(u, e, s, r) \in {-1, Held(t, d, s, r)}
      BY <1>2, <1>4, <1>5, OtherPutLoses
    <2>2. QED
      BY <2>1, SoundWhenLost DEF BlockInv, t
  <1>9. TableSaved(G)'
    BY <1>1, <1>5, <1>6, <1>7, BelowItself DEF TableSaved
  <1>10. MapSaved'
    BY <1>1, <1>6, <1>7 DEF BlockInv, MapSaved
  <1>11. QED
    BY <1>1, <1>6, <1>8, <1>9, <1>10 DEF BlockInv

(* A new file: its i-node, then its name.  The directory may be written    *)
(* over a block that a file got: the file loses pointers by it.            *)
LEMMA OpenNewApart ==
  ASSUME NEW G \in SUBSET Slot,
         IInv, BlockInv(G), NEW n \in Name, OpenNew(n)
  PROVE  BlockInv(G)'
  <1> DEFINE fd == Min(EmptySlots)
             t == iNodes
             u == WithSize(t, fd, 0)
             x == TableWrite(u)
             y == DirectoryWrite(directoryEntries')
             d == DiskToBe
             e == Put(Put(d, x), y)
  <1>1. /\ iNodes' = u /\ freeBlocks' = freeBlocks /\ EmptySlots # {}
        /\ pending = << >> /\ pending' = << x, y >> /\ disk' = disk
    BY DEF OpenNew, WithSize, Idle
  <1>2. /\ fd \in Slot /\ t \in Tables /\ d \in Disks
        /\ 0 \in 0 .. MaxFileSize \cup {-1}
    <2>1. EmptySlots \in SUBSET Nat /\ EmptySlots \subseteq Slot
      BY DEF EmptySlots, Slot
    <2>2. fd \in EmptySlots
      BY <1>1, <2>1, MinIsMember
    <2>3. 0 \in 0 .. MaxFileSize
      BY Sizes
    <2>4. QED
      BY <2>1, <2>2, <2>3, Typed
  <1>3. directoryEntries' \in Names
    <2>1. IInv'
      BY OpenKeeps DEF sfs_fopen
    <2>2. QED
      BY <2>1 DEF IInv, MemoryOK
  <1> HIDE DEF fd, t
  <1>4. /\ u \in Tables
        /\ \A s \in G, r \in Roles : Held(u, d, s, r) = Held(t, d, s, r)
    BY <1>2, SizeChanged
  <1> HIDE DEF u
  <1>5. /\ x \in BlockWrite /\ PointersIn(x.contents) = NoPointers
        /\ x.at = iNodeTableIndex
        /\ x.contents.is = "inodes" /\ x.contents.inodes = u
        /\ y \in BlockWrite /\ PointersIn(y.contents) = NoPointers
        /\ y.at = RootDirectoryIndex
    BY <1>3, <1>4, WriteParts
  <1> HIDE DEF x, y
  <1>6. DiskToBe' = e
    BY <1>1, <1>5, WritesIssued DEF IInv
  <1>7. /\ Put(d, x) \in Disks
        /\ e[iNodeTableIndex] = x.contents
        /\ e[FreeBlockListIndex] = d[FreeBlockListIndex]
    BY <1>2, <1>5, PutIs, Places DEF Disks
  <1>8. Sound(G, u, e, freeBlocks)
    <2>1. \A s \in G, r \in Roles : Held(u, Put(d, x), s, r) \in {-1, Held(t, d, s, r)}
      BY <1>2, <1>4, <1>5, OtherPutLoses
    <2>2. \A s \in G, r \in Roles : Held(u, e, s, r) \in {-1, Held(u, Put(d, x), s, r)}
      BY <1>4, <1>5, <1>7, OtherPutLoses
    <2>3. \A s \in G, r \in Roles : Held(u, e, s, r) \in {-1, Held(t, d, s, r)}
      BY <2>1, <2>2
    <2>4. QED
      BY <2>3, SoundWhenLost DEF BlockInv, t
  <1>9. TableSaved(G)'
    BY <1>1, <1>5, <1>6, <1>7, BelowItself DEF TableSaved
  <1>10. MapSaved'
    BY <1>1, <1>6, <1>7 DEF BlockInv, MapSaved
  <1>11. QED
    BY <1>1, <1>6, <1>8, <1>9, <1>10 DEF BlockInv

(* A file is removed: its blocks of data become free, and no other file    *)
(* had one of them.                                                        *)
LEMMA RemoveFileApart ==
  ASSUME NEW G \in SUBSET Slot,
         IInv, BlockInv(G), Covers(G), NEW n \in Name, RemoveFile(n)
  PROVE  BlockInv(G)'
  <1> DEFINE fd == Min(SlotsOf(n))
             free == freeBlocks
             left == free \cup DataBlocks(fd)
             t == iNodes
             u == [t EXCEPT ![fd] = UnusedInode]
             x == DirectoryWrite(directoryEntries')
             y == MapWrite(left)
             z == TableWrite(u)
             d == DiskToBe
             e == Put(Put(Put(d, x), y), z)
  <1>1. /\ SlotsOf(n) # {} /\ iNodes' = u /\ freeBlocks' = left
        /\ pending = << >> /\ pending' = << x, y, z >> /\ disk' = disk
    BY DEF RemoveFile, Idle
  <1>2. fd \in G /\ fd \in Slot /\ t \in Tables /\ d \in Disks
    <2>1. SlotsOf(n) \in SUBSET Nat /\ SlotsOf(n) \subseteq Slot
      BY DEF SlotsOf, Slot
    <2>2. fd \in SlotsOf(n)
      BY <1>1, <2>1, MinIsMember
    <2>3. fd \in Named
      BY <2>1, <2>2, NameAssumption DEF SlotsOf, Matches, Named
    <2>4. QED
      BY <2>1, <2>2, <2>3, Typed DEF Covers
  <1>3. directoryEntries' \in Names /\ u \in Tables /\ left \in SUBSET Allocatable
    <2>1. IInv'
      BY RemoveKeeps DEF sfs_remove
    <2>2. QED
      BY <1>1, <2>1 DEF IInv, MemoryOK, Tables
  <1>4. /\ free \subseteq FreshMap
        /\ \A s \in G, r \in Roles :
             Held(t, d, s, r) = -1 \/ Held(t, d, s, r) \in FreshMap \ free
        /\ \A s, v \in G, j, l \in Roles :
             Held(t, d, s, j) # -1 /\ Held(t, d, s, j) = Held(t, d, v, l)
               => s = v /\ j = l
    BY DEF BlockInv, Sound
  <1>5. \A b \in DataBlocks(fd) : \E j \in Roles : b = Held(t, d, fd, j) /\ b # -1
    BY <1>2, HeldInMemory, RoleNumbers DEF DataBlocks
  <1>6. \A s \in G : s # fd => u[s] = t[s]
    BY <1>2 DEF Tables
  <1>7. u[fd] = UnusedInode
    BY <1>2 DEF Tables
  <1> HIDE DEF fd, t, u, free, left
  <1>8. /\ x \in BlockWrite /\ PointersIn(x.contents) = NoPointers
        /\ x.at = RootDirectoryIndex
        /\ y \in BlockWrite /\ PointersIn(y.contents) = NoPointers
        /\ y.at = FreeBlockListIndex
        /\ y.contents.is = "map" /\ y.contents.free = left
        /\ z \in BlockWrite /\ PointersIn(z.contents) = NoPointers
        /\ z.at = iNodeTableIndex
        /\ z.contents.is = "inodes" /\ z.contents.inodes = u
    BY <1>3, WriteParts
  <1> HIDE DEF x, y, z
  <1>9. DiskToBe' = e
    BY <1>1, <1>8, WritesIssued DEF IInv
  <1>10. /\ Put(d, x) \in Disks /\ Put(Put(d, x), y) \in Disks
         /\ e[iNodeTableIndex] = z.contents
         /\ e[FreeBlockListIndex] = y.contents
    BY <1>2, <1>8, PutIs, Places DEF Disks
  <1>11. ASSUME NEW s \in G, NEW r \in Roles
         PROVE  /\ s = fd => Held(u, e, s, r) = -1
                /\ s # fd => Held(u, e, s, r) \in {-1, Held(t, d, s, r)}
    <2>1. s = fd => Held(u, e, s, r) = -1
      BY <1>7, UnusedHoldsNothing
    <2>2. s # fd => Held(u, d, s, r) = Held(t, d, s, r)
      BY <1>6 DEF Held
    <2>3. Held(u, Put(d, x), s, r) \in {-1, Held(u, d, s, r)}
      BY <1>2, <1>3, <1>8, OtherPutLoses
    <2>4. Held(u, Put(Put(d, x), y), s, r) \in {-1, Held(u, Put(d, x), s, r)}
      BY <1>3, <1>8, <1>10, OtherPutLoses
    <2>5. Held(u, e, s, r) \in {-1, Held(u, Put(Put(d, x), y), s, r)}
      BY <1>3, <1>8, <1>10, OtherPutLoses
    <2>6. QED
      BY <2>1, <2>2, <2>3, <2>4, <2>5
  <1> HIDE DEF e, d
  <1>12. Sound(G, u, e, left)
    <2>1. left \subseteq FreshMap
      BY <1>2, <1>4, <1>5 DEF left
    <2>2. \A s \in G, r \in Roles :
            Held(u, e, s, r) = -1 \/ Held(u, e, s, r) \in FreshMap \ left
      BY <1>2, <1>4, <1>5, <1>11 DEF left
    <2>3. \A s, v \in G, j, l \in Roles :
            Held(u, e, s, j) # -1 /\ Held(u, e, s, j) = Held(u, e, v, l)
              => s = v /\ j = l
      BY <1>4, <1>11
    <2>4. QED
      BY <2>1, <2>2, <2>3 DEF Sound
  <1>13. TableSaved(G)'
    BY <1>1, <1>8, <1>9, <1>10, BelowItself DEF TableSaved
  <1>14. MapSaved'
    BY <1>1, <1>8, <1>9, <1>10 DEF MapSaved
  <1>15. QED
    BY <1>1, <1>9, <1>12, <1>13, <1>14 DEF BlockInv

(* Fewer pointers, fewer roles. *)
LEMMA BelowLoses ==
  ASSUME NEW t \in Tables, NEW u \in Tables, NEW d, NEW s \in Slot, NEW r \in Roles,
         Below(u[s], t[s])
  PROVE  Held(u, d, s, r) \in {-1, Held(t, d, s, r)}
  <1>1. r < DIRECT_POINTERS => r \in 0 .. DIRECT_POINTERS - 1
    BY RoleNumbers
  <1>2. u[s].indirect = -1 => ~(u[s].indirect >= 0)
    OBVIOUS
  <1>3. QED
    BY <1>1, <1>2 DEF Held, Below

(* No write is under way after the step: the disk itself. *)
LEMMA NothingPendingNext ==
  ASSUME NEW d \in Disks, disk' = d, pending' = << >>
  PROVE  DiskToBe' = d
  <1>1. \A b \in Block : Latest(b)' = d[b]
    BY DEF Latest
  <1>2. d = [b \in Block |-> d[b]]
    BY DEF Disks
  <1>3. QED
    BY <1>1, <1>2 DEF DiskToBe

(* What mksfs(1) makes. *)
LEMMA FreshBlocks ==
  /\ FreshDisk \in Disks /\ FreshInodes \in Tables
  /\ \A G \in SUBSET Slot : Sound(G, FreshInodes, FreshDisk, FreshMap)
  /\ FreshDisk[iNodeTableIndex].is = "inodes"
  /\ FreshDisk[iNodeTableIndex].inodes = FreshInodes
  /\ FreshDisk[FreeBlockListIndex].is = "map"
  /\ FreshDisk[FreeBlockListIndex].free = FreshMap
  <1>1. FreshDisk \in Disks /\ FreshInodes \in Tables
    BY FreshStateOK DEF Disks, Tables
  <1>2. \A s \in Slot, r \in Roles : Held(FreshInodes, FreshDisk, s, r) = -1
    BY UnusedHoldsNothing DEF FreshInodes
  <1>3. \A G \in SUBSET Slot : Sound(G, FreshInodes, FreshDisk, FreshMap)
    BY <1>2 DEF Sound
  <1>4. /\ SuperBlockIndex # iNodeTableIndex /\ SuperBlockIndex # FreeBlockListIndex
        /\ iNodeTableIndex # RootDirectoryIndex /\ iNodeTableIndex # FreeBlockListIndex
        /\ RootDirectoryIndex # FreeBlockListIndex
    BY Places, LayoutAssumption DEF SuperBlockIndex, iNodeTableIndex
  <1>5. /\ FreshDisk[iNodeTableIndex] = TableBlock(FreshInodes)
        /\ FreshDisk[FreeBlockListIndex] = MapBlock(FreshMap)
    BY <1>4, Places DEF FreshDisk
  <1>6. QED
    BY <1>1, <1>3, <1>5 DEF TableBlock, MapBlock

LEMMA FreshApart ==
  ASSUME NEW G \in SUBSET Slot,
         IInv, BlockInv(G), mksfs_fresh
  PROVE  BlockInv(G)'
  <1>1. /\ iNodes' = FreshInodes /\ freeBlocks' = FreshMap
        /\ disk' = FreshDisk /\ pending' = << >>
    BY DEF mksfs_fresh, Idle
  <1>2. DiskToBe' = FreshDisk
    BY <1>1, FreshBlocks, NothingPendingNext
  <1>3. QED
    BY <1>1, <1>2, FreshBlocks, BelowItself DEF BlockInv, TableSaved, MapSaved

(* mksfs(0) reads the tables back: no block becomes free, no pointer is    *)
(* gained.                                                                 *)
LEMMA RemountApart ==
  ASSUME NEW G \in SUBSET Slot,
         IInv, BlockInv(G), Remount
  PROVE  BlockInv(G)'
  <1> DEFINE d == DiskToBe
             saved == d[iNodeTableIndex].inodes
  <1>1. /\ d = disk /\ d \in Disks /\ pending' = << >> /\ disk' = disk
        /\ iNodes \in Tables
    BY NothingPending, Typed DEF IInv, Remount, Idle
  <1>2. DiskToBe' = d
    BY <1>1, NothingPendingNext
  <1>3. /\ \A s \in G : iNodes'[s] = IF s < InodesOnDisk THEN saved[s] ELSE iNodes[s]
        /\ freeBlocks' = freeBlocks
        /\ d[FreeBlockListIndex].is = "map" /\ d[FreeBlockListIndex].free = freeBlocks
    BY <1>1 DEF Remount, mksfs_existing, Mountable, BlockInv, MapSaved
  <1>4. /\ d[iNodeTableIndex].is = "inodes"
        /\ \A s \in G : Below(saved[s], iNodes[s])
    BY DEF BlockInv, TableSaved
  <1>5. iNodes' \in Tables
    <2>1. IInv'
      BY MountKeeps
    <2>2. QED
      BY <2>1 DEF IInv, MemoryOK, Tables
  <1> HIDE DEF saved, d
  <1>6. Sound(G, iNodes', d, freeBlocks)
    <2>1. \A s \in G : Below(iNodes'[s], iNodes[s])
      BY <1>3, <1>4, BelowItself
    <2>2. \A s \in G, r \in Roles :
            Held(iNodes', d, s, r) \in {-1, Held(iNodes, d, s, r)}
      BY <1>1, <1>5, <2>1, BelowLoses
    <2>3. QED
      BY <2>2, SoundWhenLost DEF BlockInv, d
  <1>7. TableSaved(G)'
    BY <1>2, <1>3, <1>4, BelowItself DEF TableSaved, saved
  <1>8. MapSaved'
    BY <1>2, <1>3 DEF MapSaved
  <1>9. QED
    BY <1>2, <1>3, <1>6, <1>7, <1>8 DEF BlockInv

(* The calls that change neither a table nor the disk. *)
LEMMA QuietApart ==
  ASSUME NEW G \in SUBSET Slot,
         IInv, BlockInv(G), UNCHANGED << iNodes, freeBlocks, disk, pending >>
  PROVE  BlockInv(G)'
  <1>1. DiskToBe' = DiskToBe
    BY DEF DiskToBe, Latest
  <1>2. QED
    BY <1>1, TablesUntouched

LEMMA FlushApart ==
  ASSUME NEW G \in SUBSET Slot,
         IInv, BlockInv(G), Flush
  PROVE  BlockInv(G)'
  <1>1. iNodes' = iNodes /\ freeBlocks' = freeBlocks
    BY DEF Flush, memory
  <1>2. DiskToBe' = DiskToBe
    BY FlushedTheSame DEF IInv
  <1>3. QED
    BY <1>1, <1>2, TablesUntouched

(* Every step of a process keeps the roles apart. *)
LEMMA BlocksInductive ==
  ASSUME NEW G \in SUBSET Slot,
         IInv, BlockInv(G), Covers(G), [Process]_vars
  PROVE  BlockInv(G)'
  <1>1. ASSUME NEW n \in Name, sfs_fopen(n) PROVE BlockInv(G)'
    <2>1. CASE OpenNew(n)
      BY <2>1, OpenNewApart
    <2>2. CASE OpenExisting(n) \/ OpenFails(n)
      BY <2>2, QuietApart DEF OpenExisting, OpenFails, memory
    <2>3. QED
      BY <1>1, <2>1, <2>2 DEF sfs_fopen
  <1>2. CASE Refuse
    BY <1>2, QuietApart DEF Refuse, memory
  <1>3. ASSUME NEW n \in Name, sfs_remove(n) PROVE BlockInv(G)'
    BY <1>2, <1>3, RemoveFileApart DEF sfs_remove
  <1>4. ASSUME NEW fd \in Slot, NEW to, NEW outcome, MovePointer(fd, to, outcome)
        PROVE  BlockInv(G)'
    BY <1>4, QuietApart DEF MovePointer
  <1>5. ASSUME NEW fd \in Slot,
               \/ sfs_fclose(fd)
               \/ \E location \in 0 .. MaxFileSize : sfs_fseek(fd, location)
               \/ \E count \in 0 .. MaxCount : sfs_fread(fd, count)
        PROVE  BlockInv(G)'
    BY <1>2, <1>4, <1>5 DEF sfs_fclose, sfs_fseek, sfs_fread
  <1>6. ASSUME NEW fd \in Slot, NEW buf \in Buffer, sfs_fwrite(fd, buf)
        PROVE  BlockInv(G)'
    <2>1. CASE WriteBegins(fd, buf)
      BY <2>1, QuietApart DEF WriteBegins
    <2>2. QED
      BY <1>2, <1>6, <2>1 DEF sfs_fwrite
  <1>7. CASE WriteLoop
    <2>1. CASE FileTooLarge
      BY <2>1, QuietFailureApart DEF FileTooLarge
    <2>2. QED
      BY <1>7, <2>1, KnownBlockApart, NewDirectApart, NewIndirectApart,
         FirstIndirectApart, NoBlockLeftApart, NoBlockForFirstPointerApart,
         NoBlockForPointersApart, WriteEndsApart DEF WriteLoop
  <1>8. CASE Flush
    BY <1>8, FlushApart
  <1>9. CASE mksfs_fresh \/ Remount
    BY <1>9, FreshApart, RemountApart
  <1>10. CASE UNCHANGED vars
    BY <1>10, QuietApart DEF vars, memory
  <1>11. QED
    BY <1>1, <1>3, <1>5, <1>6, <1>7, <1>8, <1>9, <1>10 DEF Process, Call

LEMMA BlocksInitially ==
  ASSUME NEW G \in SUBSET Slot, Init
  PROVE  BlockInv(G)
  <1>1. /\ iNodes = FreshInodes /\ freeBlocks = FreshMap
        /\ disk = FreshDisk /\ pending = << >>
    BY DEF Init
  <1>2. DiskToBe = FreshDisk
    BY <1>1, Initially, NothingPending DEF IInv
  <1>3. QED
    BY <1>1, <1>2, FreshBlocks, BelowItself DEF BlockInv, TableSaved, MapSaved

(* All the slots cover whatever the directory says. *)
LEMMA AllSlotsCover == IInv => Covers(Slot)
  <1> SUFFICES ASSUME IInv PROVE Covers(Slot)
    OBVIOUS
  <1>1. call.op = "sfs_fwrite" => call.fd \in Slot
    BY DEF IInv, CallOK, WriteCall, OtherCall
  <1>2. QED
    BY <1>1 DEF Covers, Named

LEMMA BlocksApart == ProcessSpec => [](IInv /\ BlockInv(Slot))
  <1>1. Init => IInv /\ BlockInv(Slot)
    BY Initially, BlocksInitially
  <1>2. IInv /\ BlockInv(Slot) /\ [Process]_vars => (IInv /\ BlockInv(Slot))'
    <2>1. [Process]_vars => [Next]_vars
      BY DEF Next
    <2>2. QED
      BY <2>1, Inductive, BlocksInductive, AllSlotsCover
  <1>3. QED
    BY <1>1, <1>2, PTL DEF ProcessSpec

-----------------------------------------------------------------------------
(* The theorems, for a process that no restart interrupts.                 *)

(* sfs_fwrite allocates and sfs_remove frees across two tables and the     *)
(* blocks of pointers, with writes that may fail half way and a directory  *)
(* that may be written over a file's block: no block ever serves two       *)
(* purposes.                                                               *)
THEOREM BlocksNotShared == ProcessSpec => []NoSharedBlocks
  <1>1. IInv /\ BlockInv(Slot) => NoSharedBlocks
    BY SoundBlocks DEF BlockInv
  <1>2. QED
    BY <1>1, BlocksApart, PTL

(* A block that an i-node reaches, directly or through a block of          *)
(* pointers, is never free and never one of the tables: allocateBlock will *)
(* not hand it to another file.                                            *)
THEOREM BlocksOccupied == ProcessSpec => []OwnedBlocksOccupied
  <1>1. IInv /\ BlockInv(Slot) => OwnedBlocksOccupied
    BY SoundBlocks DEF BlockInv
  <1>2. QED
    BY <1>1, BlocksApart, PTL

=============================================================================
