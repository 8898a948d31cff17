-------------------------------- MODULE Sfs --------------------------------
(***************************************************************************)
(* The mini file system of sfs_api.c on the emulated disk of disk_emu.c.   *)
(*                                                                         *)
(* One process calls the API, one call at a time.  A call changes the      *)
(* in-memory tables and writes blocks of the disk one after the other; the *)
(* writes a step of the model has issued and the disk has not taken yet    *)
(* are `pending`, and Flush hands the oldest to the disk.  No call goes on *)
(* before its writes are on the disk, so memory never runs ahead of more   *)
(* than one step, but Restart (the process dies and another one mounts the *)
(* disk) may fall between any two writes.  sfs_fwrite is one step per      *)
(* iteration of its loop over the blocks of the file; the other calls are  *)
(* one step.                                                               *)
(*                                                                         *)
(* Abstractions.  A table (i-nodes, directory, free block list) that the   *)
(* code writes with one write_blocks call is one block here, and its write *)
(* is atomic.  linkCount is never read and is left out, as is the field    *)
(* `location` of the directory, which only sfs_getnextfilename sets.       *)
(***************************************************************************)
EXTENDS Integers, FiniteSetsExt, Sequences

CONSTANTS
  Name,                 \* file names of 1 .. MAX_FILENAME_LENGTH characters
  LongName,             \* those of exactly MAX_FILENAME_LENGTH characters
  Empty,                \* the name of an unused directory slot
  Byte, Junk,           \* bytes written; the value of uninitialised memory
  TOTAL_FILES, DIRECT_POINTERS, INDIRECT_POINTERS, DISK_BLOCK_SIZE,
  FirstFree,            \* blocks 0 .. FirstFree-1 are taken by mksfs(1)
  RootDirectoryIndex, FreeBlockListIndex,
  DirSlotsOnDisk,       \* directory slots, and i-nodes, that fit in the
  InodesOnDisk,         \* blocks in which their tables are saved
  MaxCount              \* bound: bytes asked for in one read or write

SuperBlockIndex == 0
iNodeTableIndex == 1

(* RootDirectoryIndex (301) lies among the blocks that files can get.      *)
ASSUME LayoutAssumption ==
  /\ {FirstFree, RootDirectoryIndex, FreeBlockListIndex} \subseteq Nat
  /\ iNodeTableIndex < FirstFree
  /\ FirstFree <= RootDirectoryIndex
  /\ RootDirectoryIndex < FreeBlockListIndex
ASSUME SizeAssumption ==
  /\ {TOTAL_FILES, DIRECT_POINTERS, INDIRECT_POINTERS, DISK_BLOCK_SIZE}
       \subseteq Nat \ {0}
  /\ {DirSlotsOnDisk, InodesOnDisk} \subseteq 0 .. TOTAL_FILES
  /\ MaxCount \in Nat
ASSUME NameAssumption == LongName \subseteq Name /\ Empty \notin Name
ASSUME ByteAssumption == Junk \notin Byte
(* Empty also stands for the content of a file that does not exist.        *)
ASSUME EmptyAssumption == Empty \notin Seq(Byte \cup {Junk})

Slot == 0 .. TOTAL_FILES - 1            \* i-node number = descriptor = slot
Block == 0 .. FreeBlockListIndex
Allocatable == 0 .. FreeBlockListIndex - 1
Pointer == Block \cup {-1}

VARIABLES
  directoryEntries,     \* rootDirectoryCache: name of each slot
  iNodes,               \* iNodesTableCache
  freeBlocks,           \* freeBlockListCache: blocks marked FreeBlock
  read_writePointers,   \* openFDTCache, -1 when the slot is not open
  disk,                 \* what each block of the disk holds
  pending,              \* block writes issued, oldest first
  call,                 \* the call in progress
  result,               \* outcome of the last call, and the bytes it read
  interrupted           \* a restart fell before the last write of sfs_remove

memory == << directoryEntries, iNodes, freeBlocks, read_writePointers >>
vars == << memory, disk, pending, call, result, interrupted >>

NoCall == [op |-> "none", fd |-> -1]
Success == [ok |-> TRUE, data |-> << >>]
Failure == [ok |-> FALSE, data |-> << >>]

-----------------------------------------------------------------------------
(* What a block of the disk may hold.                                      *)

Zeros == [is |-> "zeros"]
SuperBlock == [is |-> "super"]
TableBlock(inodes) == [is |-> "inodes", inodes |-> inodes]
DirectoryBlock(names) == [is |-> "directory", names |-> names]
MapBlock(free) == [is |-> "map", free |-> free]
PointerBlock(pointers) == [is |-> "pointers", pointers |-> pointers]
DataBlock(bytes) == [is |-> "data", bytes |-> bytes]

At(b, contents) == [at |-> b, contents |-> contents]
MapWrite(free) == At(FreeBlockListIndex, MapBlock(free))
TableWrite(inodes) == At(iNodeTableIndex, TableBlock(inodes))
DirectoryWrite(names) == At(RootDirectoryIndex, DirectoryBlock(names))

(* What block b holds once every pending write is on the disk.             *)
Latest(b) ==
  LET writes == {i \in DOMAIN pending : pending[i].at = b}
  IN  IF writes = {} THEN disk[b] ELSE pending[Max(writes)].contents

NoPointers == [k \in 0 .. INDIRECT_POINTERS - 1 |-> -1]
UnusedInode ==
  [size |-> -1, direct |-> [k \in 0 .. DIRECT_POINTERS - 1 |-> -1],
   indirect |-> -1]
(* An i-node that a new process has not read from the disk.                *)
ZeroInode ==
  [size |-> 0, direct |-> [k \in 0 .. DIRECT_POINTERS - 1 |-> 0],
   indirect |-> 0]

-----------------------------------------------------------------------------
(* Blocks and bytes of a file.                                             *)

Ceiling(size) ==
  size \div DISK_BLOCK_SIZE + (IF size % DISK_BLOCK_SIZE = 0 THEN 0 ELSE 1)

(* The pointers in the indirect block of slot s.  When it was overwritten  *)
(* with something else the code reads garbage pointers: a call that goes   *)
(* through the first n blocks of the file and meets this is not modelled.  *)
IndirectPointers(s) ==
  LET b == iNodes[s].indirect
      held == Latest(b)
  IN  IF b >= 0 /\ held.is = "pointers" THEN held.pointers ELSE NoPointers

Readable(s, n) ==
  n > DIRECT_POINTERS /\ iNodes[s].indirect >= 0
    => Latest(iNodes[s].indirect).is = "pointers"

BlockNumber(s, k) ==
  IF k < DIRECT_POINTERS THEN iNodes[s].direct[k]
  ELSE IndirectPointers(s)[k - DIRECT_POINTERS]

BlocksInUse(s) == 0 .. Ceiling(iNodes[s].size) - 1
AllBlocksKnown(s) == \A k \in BlocksInUse(s) : BlockNumber(s, k) >= 0

Content(s) ==
  [i \in 1 .. iNodes[s].size |->
     LET b == BlockNumber(s, (i - 1) \div DISK_BLOCK_SIZE)
         held == Latest(b)
     IN  IF b >= 0 /\ held.is = "data"
         THEN held.bytes[((i - 1) % DISK_BLOCK_SIZE) + 1] ELSE Junk]

(* Slip: the pointers are not tested for -1.                               *)
DataBlocks_NoTest(s) ==
  {BlockNumber(s, k) : k \in 0 .. DIRECT_POINTERS + INDIRECT_POINTERS - 1}

(* Blocks that hold data of slot s, and those it keeps from other files.   *)
DataBlocks(s) ==
  {BlockNumber(s, k) : k \in 0 .. DIRECT_POINTERS + INDIRECT_POINTERS - 1}
    \ {-1}
OwnedBlocks(s) == DataBlocks(s) \cup ({iNodes[s].indirect} \ {-1})

-----------------------------------------------------------------------------
(* mksfs(1): what the memory and a disk of zeros are filled with.          *)

FreshNames == [s \in Slot |-> Empty]
FreshInodes == [s \in Slot |-> UnusedInode]
FreshMap == FirstFree .. FreeBlockListIndex - 1
FreshDisk ==
  [b \in Block |->
     CASE b = SuperBlockIndex -> SuperBlock
       [] b = iNodeTableIndex -> TableBlock(FreshInodes)
       [] b = RootDirectoryIndex -> DirectoryBlock(FreshNames)
       [] b = FreeBlockListIndex -> MapBlock(FreshMap)
       [] OTHER -> Zeros]

Init ==
  /\ directoryEntries = FreshNames
  /\ iNodes = FreshInodes
  /\ freeBlocks = FreshMap
  /\ read_writePointers = [s \in Slot |-> -1]
  /\ disk = FreshDisk
  /\ pending = << >>
  /\ call = NoCall
  /\ result = Success
  /\ interrupted = FALSE

(* Nothing is in progress and every write is on the disk.                  *)
Idle == pending = << >> /\ call = NoCall

Flush ==
  /\ pending # << >>
  /\ disk' = [disk EXCEPT ![Head(pending).at] = Head(pending).contents]
  /\ pending' = Tail(pending)
  /\ call' = IF Len(pending) = 1 /\ call.op # "sfs_fwrite" THEN NoCall
             ELSE call
  /\ UNCHANGED << memory, result, interrupted >>

-----------------------------------------------------------------------------
(* Names.  strncpy leaves a name of MAX_FILENAME_LENGTH characters without *)
(* a terminator: strcmp reads on into the next slot and finds the name     *)
(* only when that slot is unused.                                          *)

Matches(s, n) ==
  /\ directoryEntries[s] = n
  /\ n \in LongName /\ s + 1 \in Slot => directoryEntries[s + 1] = Empty

SlotsOf(n) == {s \in Slot : Matches(s, n)}
EmptySlots == {s \in Slot : directoryEntries[s] = Empty}

OpenExisting(n) ==
  /\ Idle
  /\ SlotsOf(n) # {}
  /\ LET fd == Min(SlotsOf(n))
     IN  read_writePointers' = [read_writePointers EXCEPT ![fd] = iNodes[fd].size]
  /\ result' = Success
  /\ UNCHANGED << directoryEntries, iNodes, freeBlocks, disk, pending, call,
                  interrupted >>

(* Slip: the directory is saved before the i-node it points to.            *)
OpenNew_DirectoryFirst(n) ==
  /\ Idle
  /\ SlotsOf(n) = {} /\ EmptySlots # {}
  /\ LET fd == Min(EmptySlots)
     IN  /\ read_writePointers' = [read_writePointers EXCEPT ![fd] = 0]
         /\ iNodes' = [iNodes EXCEPT ![fd].size = 0]
         /\ directoryEntries' = [directoryEntries EXCEPT ![fd] = n]
         /\ call' = [op |-> "sfs_fopen", fd |-> fd]
  /\ pending' = << DirectoryWrite(directoryEntries'), TableWrite(iNodes') >>
  /\ result' = Success
  /\ UNCHANGED << freeBlocks, disk, interrupted >>

(* The block pointers of the i-node are not reset.                         *)
OpenNew(n) ==
  /\ Idle
  /\ SlotsOf(n) = {} /\ EmptySlots # {}
  /\ LET fd == Min(EmptySlots)
     IN  /\ read_writePointers' = [read_writePointers EXCEPT ![fd] = 0]
         /\ iNodes' = [iNodes EXCEPT ![fd].size = 0]
         /\ directoryEntries' = [directoryEntries EXCEPT ![fd] = n]
         /\ call' = [op |-> "sfs_fopen", fd |-> fd]
  /\ pending' = << TableWrite(iNodes'), DirectoryWrite(directoryEntries') >>
  /\ result' = Success
  /\ UNCHANGED << freeBlocks, disk, interrupted >>

OpenFails(n) ==
  /\ Idle
  /\ SlotsOf(n) = {} /\ EmptySlots = {}
  /\ result' = Failure
  /\ UNCHANGED << memory, disk, pending, call, interrupted >>

sfs_fopen(n) == OpenExisting(n) \/ OpenNew(n) \/ OpenFails(n)

-----------------------------------------------------------------------------
(* The calls on a descriptor.  One that is not open, or another check that *)
(* fails, leaves everything as it was.                                     *)

IsOpen(fd) == read_writePointers[fd] >= 0

Refuse ==
  /\ Idle
  /\ result' = Failure
  /\ UNCHANGED << memory, disk, pending, call, interrupted >>

MovePointer(fd, to, outcome) ==
  /\ Idle
  /\ read_writePointers' = [read_writePointers EXCEPT ![fd] = to]
  /\ result' = outcome
  /\ UNCHANGED << directoryEntries, iNodes, freeBlocks, disk, pending, call,
                  interrupted >>

sfs_fclose(fd) ==
  \/ ~IsOpen(fd) /\ Refuse
  \/ IsOpen(fd) /\ MovePointer(fd, -1, Success)

sfs_fseek(fd, location) ==
  LET allowed == IsOpen(fd) /\ location <= iNodes[fd].size
  IN  \/ ~allowed /\ Refuse
      \/ allowed /\ MovePointer(fd, location, Success)

(* Slip: the pointer moves by the count asked for.                         *)
sfs_fread_MovesByCount(fd, count) ==
  /\ IsOpen(fd)
  /\ MovePointer(fd, read_writePointers[fd] + count,
       [ok |-> TRUE, data |-> SubSeq(Content(fd), read_writePointers[fd] + 1,
          Min({read_writePointers[fd] + count, iNodes[fd].size}))])

(* Reads min(count, bytes to the end of the file) bytes.                   *)
sfs_fread(fd, count) ==
  LET rw == read_writePointers[fd]
      bytes == Min({count, iNodes[fd].size - rw})
      readable == Readable(fd, Ceiling(iNodes[fd].size))
  IN  \/ ~IsOpen(fd) /\ Refuse
      \/ IsOpen(fd) /\ readable /\ ~AllBlocksKnown(fd) /\ Refuse
      \/ /\ IsOpen(fd) /\ readable /\ AllBlocksKnown(fd)
         /\ MovePointer(fd, rw + bytes,
              [ok |-> TRUE, data |-> SubSeq(Content(fd), rw + 1, rw + bytes)])

-----------------------------------------------------------------------------
(* Slip: the size is saved before the blocks.                              *)
WriteBegins_SizeFirst(fd, buf) ==
  LET rw == read_writePointers[fd]
      read == AllBlocksKnown(fd)
      size == Max({rw + Len(buf), iNodes[fd].size})
      Overlaid(i) == IF i \in rw + 1 .. rw + Len(buf) THEN buf[i - rw]
                     ELSE IF read /\ i <= iNodes[fd].size THEN Content(fd)[i]
                     ELSE Junk
  IN  /\ Idle
      /\ IsOpen(fd) /\ Readable(fd, Ceiling(size))
      /\ call' = [op |-> "sfs_fwrite", fd |-> fd, blockIndex |-> 0,
                  rwPointer |-> rw, fileSize |-> size, old |-> Content(fd),
                  fileData |-> [i \in 1 .. Ceiling(size) * DISK_BLOCK_SIZE
                                  |-> Overlaid(i)]]
      /\ read_writePointers' =
           [read_writePointers EXCEPT ![fd] = IF read THEN iNodes[fd].size ELSE 0]
      /\ iNodes' = [iNodes EXCEPT ![fd].size = size]
      /\ pending' = << TableWrite(iNodes') >>
      /\ UNCHANGED << directoryEntries, freeBlocks, disk, result, interrupted >>

(***************************************************************************)
(* sfs_fwrite reads the whole file, lays the new bytes over it from the    *)
(* read-write pointer on, and writes every block of the result again,      *)
(* allocating blocks as it goes.  The read leaves the pointer at the end   *)
(* of the file (or at 0 when it fails); the size and the pointer change    *)
(* when the last block is written.  Memory from malloc is Junk.            *)
(***************************************************************************)
WriteBegins(fd, buf) ==
  LET rw == read_writePointers[fd]
      read == AllBlocksKnown(fd)
      size == Max({rw + Len(buf), iNodes[fd].size})
      Overlaid(i) == IF i \in rw + 1 .. rw + Len(buf) THEN buf[i - rw]
                     ELSE IF read /\ i <= iNodes[fd].size THEN Content(fd)[i]
                     ELSE Junk
  IN  /\ Idle
      /\ IsOpen(fd) /\ Readable(fd, Ceiling(size))
      /\ call' = [op |-> "sfs_fwrite", fd |-> fd, blockIndex |-> 0,
                  rwPointer |-> rw, fileSize |-> size, old |-> Content(fd),
                  fileData |-> [i \in 1 .. Ceiling(size) * DISK_BLOCK_SIZE
                                  |-> Overlaid(i)]]
      /\ read_writePointers' =
           [read_writePointers EXCEPT ![fd] = IF read THEN iNodes[fd].size ELSE 0]
      /\ UNCHANGED << directoryEntries, iNodes, freeBlocks, disk, pending,
                      result, interrupted >>

sfs_fwrite(fd, buf) ==
  \/ ~IsOpen(fd) /\ Refuse
  \/ WriteBegins(fd, buf)

(* The loop of sfs_fwrite is about to take its next block.                 *)
Writing ==
  /\ call.op = "sfs_fwrite"
  /\ pending = << >>

blockIndex == call.blockIndex
MoreBlocks == blockIndex < Ceiling(call.fileSize)
Indirect == iNodes[call.fd].indirect

(* This iteration writes that block of the file to block b of the disk.       *)
WriteData(tables, b) ==
  /\ pending' = Append(tables,
       At(b, DataBlock(SubSeq(call.fileData, blockIndex * DISK_BLOCK_SIZE + 1,
                              (blockIndex + 1) * DISK_BLOCK_SIZE))))
  /\ call' = [call EXCEPT !.blockIndex = blockIndex + 1]
  /\ UNCHANGED << directoryEntries, read_writePointers, disk, result,
                  interrupted >>

WriteKnownBlock ==
  /\ Writing /\ MoreBlocks
  /\ blockIndex < DIRECT_POINTERS + INDIRECT_POINTERS
  /\ BlockNumber(call.fd, blockIndex) >= 0
  /\ WriteData(<< >>, BlockNumber(call.fd, blockIndex))
  /\ UNCHANGED << iNodes, freeBlocks >>

(* Slip: the map is saved before the block is marked in it.                *)
WriteNewDirect_StaleMap ==
  /\ Writing /\ MoreBlocks
  /\ blockIndex < DIRECT_POINTERS /\ iNodes[call.fd].direct[blockIndex] < 0
  /\ freeBlocks # {}
  /\ LET b == Min(freeBlocks)
     IN  /\ freeBlocks' = freeBlocks \ {b}
         /\ iNodes' = [iNodes EXCEPT ![call.fd].direct[blockIndex] = b]
         /\ WriteData(<< MapWrite(freeBlocks) >>, b)

(* allocateBlock: the lowest free block, the map saved at once.            *)
WriteNewDirect ==
  /\ Writing /\ MoreBlocks
  /\ blockIndex < DIRECT_POINTERS /\ iNodes[call.fd].direct[blockIndex] < 0
  /\ freeBlocks # {}
  /\ LET b == Min(freeBlocks)
     IN  /\ freeBlocks' = freeBlocks \ {b}
         /\ iNodes' = [iNodes EXCEPT ![call.fd].direct[blockIndex] = b]
         /\ WriteData(<< MapWrite(freeBlocks') >>, b)

(* Slip: allocateBlock leaves the block it returns marked free.            *)
WriteNewIndirect_NotMarked ==
  /\ Writing /\ MoreBlocks
  /\ blockIndex \in DIRECT_POINTERS .. DIRECT_POINTERS + INDIRECT_POINTERS - 1
  /\ Indirect >= 0 /\ BlockNumber(call.fd, blockIndex) < 0
  /\ freeBlocks # {}
  /\ LET b == Min(freeBlocks)
         pointers == [IndirectPointers(call.fd) EXCEPT
                        ![blockIndex - DIRECT_POINTERS] = b]
     IN  WriteData(<< MapWrite(freeBlocks),
                      At(Indirect, PointerBlock(pointers)) >>, b)
  /\ UNCHANGED << iNodes, freeBlocks >>

WriteNewIndirect ==
  /\ Writing /\ MoreBlocks
  /\ blockIndex \in DIRECT_POINTERS .. DIRECT_POINTERS + INDIRECT_POINTERS - 1
  /\ Indirect >= 0 /\ BlockNumber(call.fd, blockIndex) < 0
  /\ freeBlocks # {}
  /\ LET b == Min(freeBlocks)
         pointers == [IndirectPointers(call.fd) EXCEPT
                        ![blockIndex - DIRECT_POINTERS] = b]
     IN  /\ freeBlocks' = freeBlocks \ {b}
         /\ WriteData(<< MapWrite(freeBlocks'),
                         At(Indirect, PointerBlock(pointers)) >>, b)
  /\ UNCHANGED iNodes

(* The file outgrows its direct pointers: one block for the pointers and   *)
(* one for the data.                                                       *)
WriteFirstIndirect ==
  /\ Writing /\ MoreBlocks
  /\ blockIndex >= DIRECT_POINTERS /\ Indirect < 0
  /\ Cardinality(freeBlocks) >= 2
  /\ LET i == Min(freeBlocks)
         b == Min(freeBlocks \ {i})
     IN  /\ freeBlocks' = freeBlocks \ {i, b}
         /\ iNodes' = [iNodes EXCEPT ![call.fd].indirect = i]
         /\ WriteData(<< MapWrite(freeBlocks \ {i}), MapWrite(freeBlocks'),
                         At(i, PointerBlock([NoPointers EXCEPT ![0] = b])) >>, b)

(* An error return, after the writes given.                                *)
WriteFails(writes) ==
  /\ pending' = writes
  /\ call' = IF writes = << >> THEN NoCall
             ELSE [op |-> "return", fd |-> call.fd]
  /\ result' = Failure
  /\ UNCHANGED << directoryEntries, read_writePointers, disk, interrupted >>

(* The file would need more blocks than an i-node can point to.            *)
FileTooLarge ==
  /\ Writing /\ MoreBlocks
  /\ blockIndex >= DIRECT_POINTERS + INDIRECT_POINTERS /\ Indirect >= 0
  /\ WriteFails(<< >>)
  /\ UNCHANGED << iNodes, freeBlocks >>

(* allocateBlock finds nothing.  An indirect block is saved again as it was. *)
NoBlockLeft ==
  /\ Writing /\ MoreBlocks
  /\ blockIndex < DIRECT_POINTERS + INDIRECT_POINTERS
  /\ BlockNumber(call.fd, blockIndex) < 0
  /\ blockIndex < DIRECT_POINTERS \/ Indirect >= 0
  /\ freeBlocks = {}
  /\ WriteFails(IF blockIndex < DIRECT_POINTERS THEN << >>
                ELSE << At(Indirect, PointerBlock(IndirectPointers(call.fd))) >>)
  /\ UNCHANGED << iNodes, freeBlocks >>

(* The last free block becomes an indirect block that points nowhere.      *)
NoBlockForFirstPointer ==
  /\ Writing /\ MoreBlocks
  /\ blockIndex >= DIRECT_POINTERS /\ Indirect < 0
  /\ Cardinality(freeBlocks) = 1
  /\ LET i == Min(freeBlocks)
     IN  /\ iNodes' = [iNodes EXCEPT ![call.fd].indirect = i]
         /\ WriteFails(<< MapWrite({}), At(i, PointerBlock(NoPointers)) >>)
  /\ freeBlocks' = {}

(* No block for the pointers either: the code calls write_blocks(-1, ...), *)
(* whose fseek to a negative offset fails, and the block of pointers goes  *)
(* where the last write ended: behind the file's last direct block.        *)
NoBlockForPointers ==
  /\ Writing /\ MoreBlocks
  /\ blockIndex >= DIRECT_POINTERS /\ Indirect < 0
  /\ freeBlocks = {}
  /\ WriteFails(<< At(iNodes[call.fd].direct[DIRECT_POINTERS - 1] + 1,
                      PointerBlock(NoPointers)) >>)
  /\ UNCHANGED << iNodes, freeBlocks >>

(* Slip: the i-node table is not saved.                                    *)
WriteEnds_NotSaved ==
  /\ Writing /\ ~MoreBlocks
  /\ read_writePointers' = [read_writePointers EXCEPT ![call.fd] = call.fileSize]
  /\ iNodes' = [iNodes EXCEPT ![call.fd].size = call.fileSize]
  /\ call' = NoCall
  /\ result' = Success
  /\ UNCHANGED << directoryEntries, freeBlocks, disk, pending, interrupted >>

WriteEnds ==
  /\ Writing /\ ~MoreBlocks
  /\ read_writePointers' = [read_writePointers EXCEPT ![call.fd] = call.fileSize]
  /\ iNodes' = [iNodes EXCEPT ![call.fd].size = call.fileSize]
  /\ pending' = << TableWrite(iNodes') >>
  /\ call' = [op |-> "return", fd |-> call.fd]
  /\ result' = Success
  /\ UNCHANGED << directoryEntries, freeBlocks, disk, interrupted >>

-----------------------------------------------------------------------------
(* Slip: the pointers of the i-node are left.                              *)
RemoveFile_KeepsPointers(n) ==
  LET fd == Min(SlotsOf(n))
  IN  /\ Idle
      /\ SlotsOf(n) # {} /\ Readable(fd, DIRECT_POINTERS + 1)
      /\ freeBlocks' = freeBlocks \cup DataBlocks(fd)
      /\ iNodes' = [iNodes EXCEPT ![fd].size = -1]
      /\ read_writePointers' = [read_writePointers EXCEPT ![fd] = -1]
      /\ directoryEntries' = [directoryEntries EXCEPT ![fd] = Empty]
      /\ pending' = << DirectoryWrite(directoryEntries'), MapWrite(freeBlocks'),
                       TableWrite(iNodes') >>
      /\ call' = [op |-> "sfs_remove", fd |-> fd]
      /\ result' = Success
      /\ UNCHANGED << disk, interrupted >>

(* Slip: the descriptor is not closed.                                     *)
RemoveFile_KeepsOpen(n) ==
  LET fd == Min(SlotsOf(n))
  IN  /\ Idle
      /\ SlotsOf(n) # {} /\ Readable(fd, DIRECT_POINTERS + 1)
      /\ freeBlocks' = freeBlocks \cup DataBlocks(fd)
      /\ iNodes' = [iNodes EXCEPT ![fd] = UnusedInode]
      /\ directoryEntries' = [directoryEntries EXCEPT ![fd] = Empty]
      /\ pending' = << DirectoryWrite(directoryEntries'), MapWrite(freeBlocks'),
                       TableWrite(iNodes') >>
      /\ call' = [op |-> "sfs_remove", fd |-> fd]
      /\ result' = Success
      /\ UNCHANGED << read_writePointers, disk, interrupted >>

(* The blocks of data become free; the block of pointers does not.         *)
RemoveFile(n) ==
  LET fd == Min(SlotsOf(n))
  IN  /\ Idle
      /\ SlotsOf(n) # {} /\ Readable(fd, DIRECT_POINTERS + 1)
      /\ freeBlocks' = freeBlocks \cup DataBlocks(fd)
      /\ iNodes' = [iNodes EXCEPT ![fd] = UnusedInode]
      /\ read_writePointers' = [read_writePointers EXCEPT ![fd] = -1]
      /\ directoryEntries' = [directoryEntries EXCEPT ![fd] = Empty]
      /\ pending' = << DirectoryWrite(directoryEntries'), MapWrite(freeBlocks'),
                       TableWrite(iNodes') >>
      /\ call' = [op |-> "sfs_remove", fd |-> fd]
      /\ result' = Success
      /\ UNCHANGED << disk, interrupted >>

sfs_remove(n) ==
  \/ SlotsOf(n) = {} /\ Refuse
  \/ RemoveFile(n)

-----------------------------------------------------------------------------
(* mksfs again.                                                            *)

(* mksfs(1).  One step: nothing of the old files is to survive it, and a   *)
(* disk that is half formatted is not mounted.                             *)
mksfs_fresh ==
  /\ Idle
  /\ directoryEntries' = FreshNames
  /\ iNodes' = FreshInodes
  /\ freeBlocks' = FreshMap
  /\ read_writePointers' = [s \in Slot |-> -1]
  /\ disk' = FreshDisk
  /\ result' = Success
  /\ UNCHANGED << pending, call, interrupted >>

(* The tables can be read back; what happens otherwise is not modelled.    *)
Mountable ==
  /\ disk[iNodeTableIndex].is = "inodes"
  /\ disk[RootDirectoryIndex].is = "directory"
  /\ disk[FreeBlockListIndex].is = "map"

(* mksfs(0): the ends of the directory and of the i-node table, which were *)
(* never saved, keep what the memory holds.  The block of the super block  *)
(* is longer than superBlockCache; what it overruns is the i-node table,   *)
(* which follows it in the build and is read next.                         *)
mksfs_existing(namesInMemory, inodesInMemory) ==
  /\ Mountable
  /\ directoryEntries' =
       [s \in Slot |-> IF s < DirSlotsOnDisk
                        THEN disk[RootDirectoryIndex].names[s]
                        ELSE namesInMemory[s]]
  /\ iNodes' = [s \in Slot |-> IF s < InodesOnDisk
                                THEN disk[iNodeTableIndex].inodes[s]
                                ELSE inodesInMemory[s]]
  /\ freeBlocks' = disk[FreeBlockListIndex].free
  /\ read_writePointers' = [s \in Slot |-> -1]
  /\ result' = Success

Remount ==
  /\ Idle
  /\ mksfs_existing(directoryEntries, iNodes)
  /\ UNCHANGED << disk, pending, call, interrupted >>

(* The process ends, at any point, and a new one mounts the disk.          *)
Restart ==
  /\ mksfs_existing(FreshNames, [s \in Slot |-> ZeroInode])
  /\ pending' = << >>
  /\ call' = NoCall
  /\ interrupted' = (interrupted \/ (call.op = "sfs_remove" /\ Len(pending) = 1))
  /\ UNCHANGED disk

-----------------------------------------------------------------------------
Buffer == UNION {[1 .. count -> Byte] : count \in 0 .. MaxCount}
MaxFileSize == (DIRECT_POINTERS + INDIRECT_POINTERS) * DISK_BLOCK_SIZE

WriteLoop ==
  \/ WriteKnownBlock \/ WriteNewDirect \/ WriteNewIndirect
  \/ WriteFirstIndirect \/ FileTooLarge \/ NoBlockLeft
  \/ NoBlockForFirstPointer \/ NoBlockForPointers \/ WriteEnds

Call ==
  \/ \E n \in Name : sfs_fopen(n) \/ sfs_remove(n)
  \/ \E fd \in Slot :
       \/ sfs_fclose(fd)
       \/ \E location \in 0 .. MaxFileSize : sfs_fseek(fd, location)
       \/ \E count \in 0 .. MaxCount : sfs_fread(fd, count)
       \/ \E buf \in Buffer : sfs_fwrite(fd, buf)

(* One process that is never interrupted.                                  *)
Process == Call \/ WriteLoop \/ Flush \/ mksfs_fresh \/ Remount
Next == Process \/ Restart

Spec == Init /\ [][Next]_vars
ProcessSpec == Init /\ [][Process]_vars

(* A bound for TLC: no file has the block of the root directory.  Since    *)
(* that block is marked free, the disk is never full then.                 *)
Room == RootDirectoryIndex \in freeBlocks

(* And none has passed a restart that left blocks both free and in use.    *)
SoundRoom == Room /\ ~interrupted

-----------------------------------------------------------------------------
(* Properties.                                                             *)

Inode ==
  [size : 0 .. MaxFileSize \cup {-1},
   direct : [0 .. DIRECT_POINTERS - 1 -> Pointer],
   indirect : Pointer]
Bytes == [1 .. DISK_BLOCK_SIZE -> Byte \cup {Junk}]

(* Every table and every block of the disk has the shape the code gives it. *)
TypeOK ==
  /\ directoryEntries \in [Slot -> Name \cup {Empty}]
  /\ iNodes \in [Slot -> Inode]
  /\ freeBlocks \subseteq Allocatable
  /\ read_writePointers \in [Slot -> 0 .. MaxFileSize \cup {-1}]
  /\ \A b \in Block :
       \/ Latest(b) \in {Zeros, SuperBlock}
       \/ Latest(b).is = "inodes" /\ Latest(b).inodes \in [Slot -> Inode]
       \/ Latest(b).is = "directory"
            /\ Latest(b).names \in [Slot -> Name \cup {Empty}]
       \/ Latest(b).is = "map" /\ Latest(b).free \subseteq Allocatable
       \/ Latest(b).is = "pointers"
            /\ Latest(b).pointers \in [0 .. INDIRECT_POINTERS - 1 -> Pointer]
       \/ Latest(b).is = "data" /\ Latest(b).bytes \in Bytes
  /\ \A i \in DOMAIN pending : pending[i].at \in Block
  /\ call.fd \in Slot \cup {-1}
  /\ interrupted \in BOOLEAN

(* sfs_fwrite allocates and sfs_remove frees across two tables and the     *)
(* blocks of pointers: no block ever serves two purposes, in one file or   *)
(* in two.  (A restart before the last write of sfs_remove leaves i-nodes  *)
(* that point to blocks marked free.)                                      *)
NoSharedBlocks ==
  ~interrupted =>
    /\ \A s, t \in Slot : s # t => OwnedBlocks(s) \cap OwnedBlocks(t) = {}
    /\ \A s \in Slot :
         /\ iNodes[s].indirect \notin DataBlocks(s)
         /\ \A j, l \in 0 .. DIRECT_POINTERS + INDIRECT_POINTERS - 1 :
              j # l /\ BlockNumber(s, j) >= 0
                => BlockNumber(s, j) # BlockNumber(s, l)

(* A block that an i-node reaches is marked occupied, and is none of those *)
(* mksfs took for the super block and the i-node table: sfs_fwrite will    *)
(* not hand it to another file.                                            *)
OwnedBlocksOccupied ==
  ~interrupted =>
    \A s \in Slot : OwnedBlocks(s) \cap (freeBlocks \cup 0 .. FirstFree - 1) = {}

(* An open descriptor belongs to a file of the directory and its pointer   *)
(* lies within that file, whatever sfs_fopen, sfs_fseek, a failed write or *)
(* sfs_remove did before: sfs_fread never copies from outside its buffer.  *)
PointerWithinFile ==
  \A fd \in Slot : IsOpen(fd) =>
    /\ directoryEntries[fd] # Empty
    /\ read_writePointers[fd] <= iNodes[fd].size

(* A file of the directory has its i-node, a block for each of its bytes,  *)
(* and data in every one of them, at every moment and after a restart at   *)
(* any moment: sfs_fopen and sfs_fwrite write what a table points to       *)
(* before the table, sfs_remove the directory first.                       *)
FilesWhole ==
  ~interrupted =>
    \A s \in Slot : directoryEntries[s] # Empty =>
      /\ iNodes[s].size >= 0
      /\ AllBlocksKnown(s)
      /\ \A i \in BlocksInUse(s) : Latest(BlockNumber(s, i)).is = "data"

InWrite(s) == call.op = "sfs_fwrite" /\ call.fd = s

(* A restart in the middle of a call finds every other file as it was.     *)
RestartSparesOtherFiles ==
  [][Restart /\ ~interrupted =>
       \A s \in Slot \ {call.fd} :
         /\ directoryEntries'[s] = directoryEntries[s]
         /\ directoryEntries[s] # Empty => Content(s)' = Content(s)]_vars

(* A restart while sfs_fwrite appends to a file finds the file as it was   *)
(* before the call: the new size is the last thing written.                *)
AppendSurvivesRestart ==
  [][Restart /\ ~interrupted =>
       \A s \in Slot :
         InWrite(s) /\ SubSeq(call.fileData, 1, Len(call.old)) = call.old
           => Content(s)' = call.old]_vars

(* What the comments and tests of the file system expect and the code does *)
(* not do: see the findings in the README.                                 *)

(* sfs_api.h: the file persists in the root directory.  The block of the   *)
(* directory on the disk holds the directory.                              *)
RootDirectoryPersists ==
  Idle => disk[RootDirectoryIndex] = DirectoryBlock(directoryEntries)

(* sfs_test2.c: when the disk is full a write fails without damage to the  *)
(* files that were created before.                                         *)
WriteSparesOtherFiles ==
  [][\A s, t \in Slot : s # t /\ InWrite(s) /\ directoryEntries[t] # Empty
       => Content(t)' = Content(t)]_vars

(* The tables, blocks and pointers implement files by name: what is read   *)
(* is what was written, a write or a removal touches one file, a failed    *)
(* write does not grow it, and mounting finds every file.                  *)
SlotOf(n) == CHOOSE s \in Slot : directoryEntries[s] = n
Exists(n) == \E s \in Slot : directoryEntries[s] = n
Absent == Empty      \* any value that is not a sequence of bytes

(* A file that sfs_fwrite is at work on is as it was before the call.       *)
FilesByName ==
  [n \in Name |->
     IF ~Exists(n) THEN Absent
     ELSE IF InWrite(SlotOf(n)) THEN call.old ELSE Content(SlotOf(n))]
PositionsByName ==
  [n \in Name |->
     IF ~Exists(n) THEN -1
     ELSE IF InWrite(SlotOf(n)) THEN call.rwPointer
     ELSE read_writePointers[SlotOf(n)]]

Files == INSTANCE SfsFiles WITH
  MaxFiles <- TOTAL_FILES, content <- FilesByName, position <- PositionsByName

AbstractFiles == Files!Spec

=============================================================================
