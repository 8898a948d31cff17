-------------------------- MODULE SfsRestartProofs --------------------------
(***************************************************************************)
(* Theorems about restarts.  A process may end between any two writes to   *)
(* the disk.  When every file has a slot whose i-node and whose directory  *)
(* entry are saved, a new process finds every file but the one that the    *)
(* interrupted call was about, as it was; and that one, when sfs_fwrite    *)
(* was appending to it, as it was before the call.                         *)
(***************************************************************************)
EXTENDS SfsFilesProofs

-----------------------------------------------------------------------------
(* What a new process would find on disk d.                                *)

(* The slots whose directory entry and i-node are saved.  Those with a     *)
(* file are among them: a process that restarts forgets the others.        *)
SavedSlots == {s \in Slot : s < DirSlotsOnDisk /\ s < InodesOnDisk}
TablesFit == Named \subseteq SavedSlots

(* What the theorems ask for until a restart left blocks both free and in  *)
(* use.                                                                    *)
Within == ~interrupted => Room /\ TablesFit

TableOn(d) == d[iNodeTableIndex].inodes
NamesOn(d) == d[RootDirectoryIndex].names
FreeOn(d) == d[FreeBlockListIndex].free
FileOn(d, s) == [i \in 1 .. TableOn(d)[s].size |-> ByteAt(TableOn(d), d, s, i)]

(* The tables, and for each name of the directory a whole file.            *)
CanMount(d) ==
  /\ d[iNodeTableIndex].is = "inodes"
  /\ d[RootDirectoryIndex].is = "directory"
  /\ d[FreeBlockListIndex].is = "map"
  /\ \A s \in Slot : NamesOn(d)[s] # Empty
       => s \in SavedSlots /\ Whole(TableOn(d), d, s)

(* The files of memory, but for that of slot x.                            *)
SparedOn(d, names, files, x) ==
  \A s \in Slot \ {x} :
    /\ NamesOn(d)[s] = names[s]
    /\ names[s] # Empty => FileOn(d, s) = files[s]

(* The file that call c is writing: no byte is other than c found it or    *)
(* leaves it.                                                              *)
WrittenOn(d, c) ==
  c.op = "sfs_fwrite" =>
    /\ NamesOn(d)[c.fd] # Empty
    /\ TableOn(d)[c.fd].size = Len(c.old)
    /\ \A i \in 1 .. Len(c.old) :
         ByteAt(TableOn(d), d, c.fd, i) \in {c.old[i], c.fileData[i]}

SoundOn(d) == Sound(SavedSlots, TableOn(d), d, FreeOn(d))

(* All of it, with so many writes of call c left to do: only before its    *)
(* last one has sfs_remove saved blocks as free that an i-node points to.  *)
Found(d, left, names, files, c) ==
  /\ CanMount(d)
  /\ SparedOn(d, names, files, c.fd)
  /\ WrittenOn(d, c)
  /\ (c.op = "sfs_remove" /\ left = 1) \/ SoundOn(d)

(* The disk with the first j of the pending writes.                        *)
After(j) == [b \in Block |-> Holds(disk, SubSeq(pending, 1, j), b)]
FileContents == [s \in Slot |-> Content(s)]

CrashInv ==
  \A j \in 0 .. Len(pending) :
    Found(After(j), Len(pending) - j, directoryEntries, FileContents, call)

MapKept == DiskToBe[FreeBlockListIndex].is = "map"

(* After a restart that left blocks both free and in use nothing is known. *)
RestartInv ==
  /\ IInv
  /\ \/ interrupted
     \/ /\ BlockInv(SavedSlots) /\ FilesInv /\ WriteInv
        /\ MapKept /\ CrashInv

-----------------------------------------------------------------------------
(* What one write leaves of it.                                            *)

(* What the tables on a disk are made of. *)
LEMMA TablesOnDisk ==
  ASSUME NEW d \in Disks, CanMount(d)
  PROVE  /\ TableOn(d) \in Tables /\ NamesOn(d) \in Names
         /\ FreeOn(d) \in SUBSET Allocatable
  <1>1. /\ d[iNodeTableIndex] \in Contents /\ d[RootDirectoryIndex] \in Contents
        /\ d[FreeBlockListIndex] \in Contents
    BY Places DEF Disks
  <1>2. TableOn(d) \in Tables
    BY <1>1, Kinds DEF CanMount, TableOn, Tables
  <1>3. NamesOn(d) \in Names
    BY <1>1, Kinds DEF CanMount, NamesOn
  <1>4. FreeOn(d) \in SUBSET Allocatable
    BY <1>1, Kinds DEF CanMount, FreeOn
  <1>5. QED
    BY <1>2, <1>3, <1>4

(* The bytes of a whole file. *)
LEMMA BytesOfWhole ==
  ASSUME NEW t \in Tables, NEW d, NEW s \in Slot, Whole(t, d, s)
  PROVE  /\ t[s].size \in Nat
         /\ \A i \in 1 .. t[s].size :
              BlockOf(i) \in DataRoles /\ HasData(t, d, s, BlockOf(i))
  <1>1. t[s].size >= 0 /\ WholeTo(t, d, s, Ceiling(t[s].size))
    BY DEF Whole
  <1>2. t[s] \in SoundInode
    BY DEF Tables
  <1>3. t[s].size \in 0 .. MaxFileSize \cup {-1}
    BY <1>2 DEF SoundInode
  <1>4. t[s].size \in 0 .. MaxFileSize /\ t[s].size \in Nat
    BY <1>1, <1>3, Sizes
  <1>5. \A i \in 1 .. t[s].size :
          BlockOf(i) \in 0 .. Ceiling(t[s].size) - 1 /\ BlockOf(i) \in DataRoles
    BY <1>4, PlaceOfByte
  <1>6. QED
    BY <1>1, <1>4, <1>5 DEF WholeTo

(* A whole file of which nothing is lost. *)
LEMMA BytesKept ==
  ASSUME NEW t \in Tables, NEW d, NEW u, NEW e, NEW s \in Slot, Whole(t, d, s),
         u[s].size = t[s].size, Keeps(t, d, u, e, s, -1)
  PROVE  /\ Whole(u, e, s)
         /\ \A i \in 1 .. t[s].size : ByteAt(u, e, s, i) = ByteAt(t, d, s, i)
  <1>1. Whole(u, e, s)
    BY WholeKept
  <1>2. \A i \in 1 .. t[s].size :
          BlockOf(i) \in DataRoles /\ HasData(t, d, s, BlockOf(i))
    BY BytesOfWhole
  <1>3. \A k : HasData(t, d, s, k) => Held(t, d, s, k) # -1
    BY DEF HasData
  <1>4. \A i \in 1 .. t[s].size : ByteAt(u, e, s, i) = ByteAt(t, d, s, i)
    BY <1>2, <1>3, ByteKept
  <1>5. QED
    BY <1>1, <1>4

(* A table is saved, or none, and names are taken out of the directory. *)
LEMMA StillMounts ==
  ASSUME NEW d \in Disks, NEW e, CanMount(d),
         e[iNodeTableIndex] = d[iNodeTableIndex],
         e[RootDirectoryIndex].is = "directory", e[FreeBlockListIndex].is = "map",
         \A s \in Slot : NamesOn(e)[s] \in {NamesOn(d)[s], Empty},
         \A s \in SavedSlots : Keeps(TableOn(d), d, TableOn(d), e, s, -1)
  PROVE  /\ CanMount(e) /\ TableOn(e) = TableOn(d)
         /\ \A s \in Slot : NamesOn(d)[s] # Empty =>
              /\ FileOn(e, s) = FileOn(d, s)
              /\ \A i \in 1 .. TableOn(d)[s].size :
                   ByteAt(TableOn(e), e, s, i) = ByteAt(TableOn(d), d, s, i)
  <1>1. TableOn(e) = TableOn(d) /\ TableOn(d) \in Tables
    BY TablesOnDisk DEF TableOn
  <1>2. ASSUME NEW s \in Slot, NamesOn(d)[s] # Empty
        PROVE  /\ s \in SavedSlots /\ Whole(TableOn(d), e, s)
               /\ \A i \in 1 .. TableOn(d)[s].size :
                    ByteAt(TableOn(d), e, s, i) = ByteAt(TableOn(d), d, s, i)
    <2>1. s \in SavedSlots /\ Whole(TableOn(d), d, s)
      BY <1>2 DEF CanMount
    <2>2. QED
      BY <1>1, <2>1, BytesKept
  <1>3. CanMount(e)
    BY <1>1, <1>2 DEF CanMount, TableOn
  <1>4. QED
    BY <1>1, <1>2, <1>3 DEF FileOn

(* Then every file but that of slot x is spared as before. *)
LEMMA StillSpared ==
  ASSUME NEW d \in Disks, NEW e, CanMount(d),
         e[iNodeTableIndex] = d[iNodeTableIndex],
         e[RootDirectoryIndex].is = "directory", e[FreeBlockListIndex].is = "map",
         NEW x, \A s \in Slot : NamesOn(e)[s] \in {NamesOn(d)[s], Empty},
         \A s \in Slot \ {x} : NamesOn(e)[s] = NamesOn(d)[s],
         \A s \in SavedSlots : Keeps(TableOn(d), d, TableOn(d), e, s, -1),
         NEW names, NEW files, SparedOn(d, names, files, x)
  PROVE  CanMount(e) /\ TableOn(e) = TableOn(d) /\ SparedOn(e, names, files, x)
  <1>1. /\ CanMount(e) /\ TableOn(e) = TableOn(d)
        /\ \A s \in Slot : NamesOn(d)[s] # Empty => FileOn(e, s) = FileOn(d, s)
    BY StillMounts
  <1>2. QED
    BY <1>1 DEF SparedOn

(* And so is what is known of the file being written. *)
LEMMA StillWritten ==
  ASSUME NEW d \in Disks, NEW e, CanMount(d),
         e[iNodeTableIndex] = d[iNodeTableIndex],
         e[RootDirectoryIndex] = d[RootDirectoryIndex], e[FreeBlockListIndex].is = "map",
         \A s \in SavedSlots : Keeps(TableOn(d), d, TableOn(d), e, s, -1),
         NEW c, c.op = "sfs_fwrite" => c.fd \in Slot, WrittenOn(d, c)
  PROVE  WrittenOn(e, c)
  <1>1. NamesOn(e) = NamesOn(d) /\ e[RootDirectoryIndex].is = "directory"
    BY DEF NamesOn, CanMount
  <1>2. /\ TableOn(e) = TableOn(d)
        /\ \A s \in Slot : NamesOn(d)[s] # Empty =>
             \A i \in 1 .. TableOn(d)[s].size :
               ByteAt(TableOn(e), e, s, i) = ByteAt(TableOn(d), d, s, i)
    BY <1>1, StillMounts
  <1>3. QED
    BY <1>1, <1>2 DEF WrittenOn

-----------------------------------------------------------------------------
(* The disk to be, when a step is over.                                    *)

(* What is known between two calls, and between two writes of one. *)
Settled ==
  /\ IInv /\ BlockInv(SavedSlots) /\ FilesInv /\ WriteInv /\ MapKept
  /\ TablesFit

LEMMA SavedSlotsAreSlots == SavedSlots \in SUBSET Slot
  BY DEF SavedSlots

LEMMA SettledCovers == Settled => Covers(SavedSlots)
  BY DEF Settled, TablesFit, Covers, WriteInv, WriteMeant

(* The table saved leads to the bytes that the one in memory leads to. *)
LEMMA SameBytes ==
  ASSUME Settled, NEW v \in {iNodes, Saved}, NEW s \in Named
  PROVE  /\ v \in Tables /\ s \in SavedSlots /\ s \in Slot
         /\ v[s].size = iNodes[s].size /\ Whole(v, DiskToBe, s)
         /\ \A i \in 1 .. iNodes[s].size :
              ByteAt(v, DiskToBe, s, i) = ByteAt(iNodes, DiskToBe, s, i)
  <1>1. /\ IInv /\ BlockInv(SavedSlots) /\ FilesInv /\ s \in SavedSlots /\ s \in Slot
        /\ SavedSlots \in SUBSET Slot
    BY SavedSlotsAreSlots DEF Settled, TablesFit
  <1>2. Sub(SavedSlots, v)
    BY <1>1, SubTables
  <1>3. v \in Tables
    BY <1>2 DEF Sub
  <1>4. v[s].size = iNodes[s].size /\ Whole(v, DiskToBe, s)
    BY <1>1 DEF FilesInv
  <1>5. \A i \in 1 .. iNodes[s].size :
          BlockOf(i) \in DataRoles /\ HasData(v, DiskToBe, s, BlockOf(i))
    BY <1>1, <1>3, <1>4, BytesOfWhole
  <1>6. \A k \in DataRoles : HasData(v, DiskToBe, s, k)
          => Held(v, DiskToBe, s, k) = Held(iNodes, DiskToBe, s, k)
    BY <1>1, <1>2, SubRoles DEF HasData, DataRoles
  <1>7. QED
    BY <1>1, <1>3, <1>4, <1>5, <1>6 DEF ByteAt

(* A disk that leads to the same bytes as memory. *)
LEMMA SparedFrom ==
  ASSUME Settled, NEW v \in {iNodes, Saved}, NEW e,
         e[iNodeTableIndex].is = "inodes", e[FreeBlockListIndex].is = "map",
         e[RootDirectoryIndex] = DiskToBe[RootDirectoryIndex],
         \A s \in Named : /\ TableOn(e)[s].size = v[s].size
                          /\ Keeps(v, DiskToBe, TableOn(e), e, s, -1)
  PROVE  /\ CanMount(e)
         /\ SparedOn(e, directoryEntries, FileContents, -1)
         /\ \A s \in Named :
              /\ TableOn(e)[s].size = iNodes[s].size
              /\ \A i \in 1 .. iNodes[s].size :
                   ByteAt(TableOn(e), e, s, i) = ByteAt(iNodes, DiskToBe, s, i)
  <1>1. IInv /\ FilesInv
    BY DEF Settled
  <1>2. e[RootDirectoryIndex].is = "directory" /\ NamesOn(e) = directoryEntries
    BY <1>1 DEF FilesInv, NamesOn, DirectoryBlock
  <1>3. ASSUME NEW s \in Named
        PROVE  /\ s \in SavedSlots /\ Whole(TableOn(e), e, s)
               /\ TableOn(e)[s].size = iNodes[s].size
               /\ \A i \in 1 .. iNodes[s].size :
                    ByteAt(TableOn(e), e, s, i) = ByteAt(iNodes, DiskToBe, s, i)
    <2>1. /\ v \in Tables /\ s \in SavedSlots /\ s \in Slot
          /\ v[s].size = iNodes[s].size /\ Whole(v, DiskToBe, s)
          /\ \A i \in 1 .. iNodes[s].size :
               ByteAt(v, DiskToBe, s, i) = ByteAt(iNodes, DiskToBe, s, i)
      BY SameBytes
    <2>2. Whole(TableOn(e), e, s)
      BY <2>1, BytesKept
    <2>3. \A i \in 1 .. v[s].size :
            ByteAt(TableOn(e), e, s, i) = ByteAt(v, DiskToBe, s, i)
      BY <2>1, BytesKept
    <2>4. QED
      BY <2>1, <2>2, <2>3
  <1>4. CanMount(e)
    BY <1>2, <1>3 DEF CanMount, Named
  <1>5. ASSUME NEW s \in Named PROVE FileOn(e, s) = Content(s)
    <2>1. /\ Content(s) \in Data /\ Len(Content(s)) = iNodes[s].size
          /\ \A i \in 1 .. iNodes[s].size :
               Content(s)[i] = ByteAt(iNodes, DiskToBe, s, i)
      BY <1>1, FilesAreRead DEF FilesRead
    <2>2. Content(s) = [i \in 1 .. iNodes[s].size |-> Content(s)[i]]
      BY <2>1 DEF Data
    <2>3. QED
      BY <1>3, <2>1, <2>2 DEF FileOn
  <1>6. SparedOn(e, directoryEntries, FileContents, -1)
    BY <1>2, <1>5 DEF SparedOn, Named, FileContents
  <1>7. QED
    BY <1>3, <1>4, <1>6

(* The disk to be can be mounted, and holds the files.                     *)
DiskFound ==
  /\ CanMount(DiskToBe) /\ SoundOn(DiskToBe)
  /\ SparedOn(DiskToBe, directoryEntries, FileContents, -1)
  /\ WrittenOn(DiskToBe, call)
  /\ TableOn(DiskToBe) = Saved /\ FreeOn(DiskToBe) = freeBlocks

LEMMA SettledFound == Settled => DiskFound
  <1> SUFFICES ASSUME Settled PROVE DiskFound
    OBVIOUS
  <1>1. /\ IInv /\ BlockInv(SavedSlots) /\ FilesInv /\ WriteInv
        /\ DiskToBe[FreeBlockListIndex].is = "map"
        /\ SavedSlots \in SUBSET Slot
    BY SavedSlotsAreSlots DEF Settled, MapKept
  <1>2. /\ TableOn(DiskToBe) = Saved
        /\ DiskToBe[iNodeTableIndex].is = "inodes"
        /\ FreeOn(DiskToBe) = freeBlocks
    BY <1>1 DEF BlockInv, TableSaved, MapSaved, TableOn, Saved, FreeOn
  <1>3. /\ CanMount(DiskToBe)
        /\ SparedOn(DiskToBe, directoryEntries, FileContents, -1)
        /\ \A s \in Named :
              /\ Saved[s].size = iNodes[s].size
              /\ \A i \in 1 .. iNodes[s].size :
                   ByteAt(Saved, DiskToBe, s, i) = ByteAt(iNodes, DiskToBe, s, i)
    <2>1. \A s \in Named : Keeps(Saved, DiskToBe, Saved, DiskToBe, s, -1)
      BY DEF Keeps
    <2>2. QED
      BY <1>1, <1>2, <2>1, SparedFrom
  <1>4. SoundOn(DiskToBe)
    <2>1. Sub(SavedSlots, Saved)
      BY <1>1, SubTables
    <2>2. \A s \in SavedSlots, r \in Roles :
            Held(Saved, DiskToBe, s, r) \in {-1, Held(iNodes, DiskToBe, s, r)}
      BY <1>1, <2>1, SubRoles
    <2>3. Sound(SavedSlots, iNodes, DiskToBe, freeBlocks)
      BY <1>1 DEF BlockInv
    <2>4. Sound(SavedSlots, Saved, DiskToBe, freeBlocks)
      BY <1>1, <2>2, <2>3, SoundWhenLost
    <2>5. QED
      BY <1>2, <2>4 DEF SoundOn
  <1>5. WrittenOn(DiskToBe, call)
    <2>1. SUFFICES ASSUME call.op = "sfs_fwrite" PROVE WrittenOn(DiskToBe, call)
      BY DEF WrittenOn
    <2>2. /\ WriteMeant /\ WriteDone /\ call.fd \in Named /\ call \in WriteCall
          /\ Len(call.old) = iNodes[call.fd].size
      BY <1>1, <2>1 DEF WriteInv, WriteMeant, IInv, CallOK, OtherCall
    <2>3. NamesOn(DiskToBe)[call.fd] # Empty
      BY <1>1, <2>2 DEF FilesInv, NamesOn, DirectoryBlock, Named
    <2>4. ASSUME NEW i \in 1 .. Len(call.old)
          PROVE  ByteAt(iNodes, DiskToBe, call.fd, i) \in {call.old[i], call.fileData[i]}
      <3>1. /\ Len(call.old) \in Nat /\ blockIndex \in Nat /\ BlockOf(i) \in Nat
        <4>1. Len(call.old) \in Nat /\ blockIndex \in Nat
          BY <2>2 DEF WriteCall, Data, blockIndex
        <4>2. QED
          BY <4>1, PlaceOfByte, CeilingBound
      <3>2. CASE BlockOf(i) >= blockIndex
        BY <2>2, <3>2 DEF WriteDone
      <3>3. CASE BlockOf(i) < blockIndex
        <4>1. BlockOf(i) \in 0 .. blockIndex - 1
          BY <3>1, <3>3
        <4>2. DiskToBe[Held(iNodes, DiskToBe, call.fd, BlockOf(i))] = DataBlock(DataOf(BlockOf(i)))
          BY <2>2, <4>1 DEF WriteDone
        <4>3. DataBlock(DataOf(BlockOf(i))).bytes[OffsetOf(i)] = call.fileData[i]
          BY <3>1, ByteOfData
        <4>4. QED
          BY <4>2, <4>3 DEF ByteAt
      <3>4. QED
        BY <3>1, <3>2, <3>3
    <2>5. QED
      BY <1>2, <1>3, <2>2, <2>3, <2>4 DEF WrittenOn
  <1>6. QED
    BY <1>2, <1>3, <1>4, <1>5 DEF DiskFound

LEMMA SettledFoundNext == Settled' => DiskFound'
  BY SettledFound, PTL

(* When every write is on the disk, that is all there is to know. *)
LEMMA SettledCrash == Settled /\ pending = << >> => CrashInv
  <1> SUFFICES ASSUME Settled, pending = << >> PROVE CrashInv
    OBVIOUS
  <1>1. /\ CanMount(DiskToBe) /\ SoundOn(DiskToBe) /\ WrittenOn(DiskToBe, call)
        /\ SparedOn(DiskToBe, directoryEntries, FileContents, -1)
    BY SettledFound DEF DiskFound
  <1>2. SparedOn(DiskToBe, directoryEntries, FileContents, call.fd)
    <2>1. -1 \notin Slot
      BY DEF Slot
    <2>2. QED
      BY <1>1, <2>1 DEF SparedOn
  <1>3. \A left : Found(DiskToBe, left, directoryEntries, FileContents, call)
    BY <1>1, <1>2 DEF Found
  <1>4. \A j \in 0 .. Len(pending) : After(j) = DiskToBe
    <2>1. 0 .. Len(pending) = {0} /\ SubSeq(pending, 1, 0) = << >>
      OBVIOUS
    <2>2. After(0) = DiskToBe
      BY <2>1 DEF After, DiskToBe, Latest, Holds
    <2>3. QED
      BY <2>1, <2>2
  <1>5. QED
    BY <1>3, <1>4 DEF CrashInv

LEMMA SettledCrashNext == Settled' /\ (pending = << >>)' => CrashInv'
  BY SettledCrash, PTL

(* A file spared is spared whatever slot is left out of account. *)
LEMMA SparedButOne ==
  ASSUME NEW d, NEW names, NEW files, SparedOn(d, names, files, -1), NEW x
  PROVE  SparedOn(d, names, files, x)
  <1>1. -1 \notin Slot
    BY DEF Slot
  <1>2. QED
    BY <1>1 DEF SparedOn

-----------------------------------------------------------------------------
(* The disks between the writes of a step.                                 *)

(* A write reaches the disk: the disks still to come are the same. *)
LEMMA AfterFlush ==
  ASSUME DiskOK, Flush, NEW j \in 0 .. Len(pending')
  PROVE  After(j)' = After(j + 1)
  <1>1. /\ pending \in Seq(BlockWrite) /\ pending # << >>
        /\ disk \in [Block -> Contents]
        /\ disk' = Put(disk, Head(pending)) /\ pending' = Tail(pending)
    BY DEF DiskOK, Flush, Put
  <1> DEFINE w == SubSeq(pending, 1, j + 1)
  <1>2. Len(pending) \in Nat /\ Len(Tail(pending)) = Len(pending) - 1
    BY <1>1
  <1>3. j \in Nat /\ j + 1 <= Len(pending)
    BY <1>1, <1>2
  <1>4. /\ w \in Seq(BlockWrite) /\ Len(w) = j + 1
        /\ \A i \in 1 .. j + 1 : w[i] = pending[i]
    BY <1>1, <1>2, <1>3
  <1>5. w # << >> /\ Head(w) = Head(pending)
    BY <1>1, <1>3, <1>4
  <1>6. Tail(w) = SubSeq(Tail(pending), 1, j)
    <2>1. Tail(w) \in Seq(BlockWrite) /\ Len(Tail(w)) = j
      BY <1>3, <1>4, <1>5
    <2>2. SubSeq(Tail(pending), 1, j) \in Seq(BlockWrite)
          /\ Len(SubSeq(Tail(pending), 1, j)) = j
      BY <1>1, <1>2, <1>3
    <2>3. \A i \in 1 .. j : Tail(w)[i] = SubSeq(Tail(pending), 1, j)[i]
      BY <1>1, <1>2, <1>3, <1>4, <1>5
    <2>4. QED
      BY <2>1, <2>2, <2>3, SeqEqual
  <1> HIDE DEF w
  <1>7. \A b \in Block : Holds(Put(disk, Head(w)), Tail(w), b) = Holds(disk, w, b)
    BY <1>1, <1>4, <1>5, HoldsFlushed
  <1>8. After(j + 1) = [b \in Block |-> Holds(disk, w, b)]
    BY DEF After, w
  <1>9. After(j)' = [b \in Block |-> Holds(disk', SubSeq(pending', 1, j), b)]
    BY DEF After
  <1>10. \A b \in Block : Holds(disk', SubSeq(pending', 1, j), b) = Holds(disk, w, b)
    BY <1>1, <1>5, <1>6, <1>7
  <1>11. QED
    BY <1>8, <1>9, <1>10

(* The first of a number of writes. *)
LEMMA Prefixes ==
  ASSUME NEW w \in Seq(BlockWrite), NEW x \in BlockWrite
  PROVE  /\ SubSeq(w, 1, Len(w)) = w
         /\ Append(w, x) \in Seq(BlockWrite) /\ Len(Append(w, x)) = Len(w) + 1
         /\ \A j \in 0 .. Len(w) : SubSeq(Append(w, x), 1, j) = SubSeq(w, 1, j)
  <1>1. SubSeq(w, 1, Len(w)) = w
    BY SubSeqFull
  <1>2. Append(w, x) \in Seq(BlockWrite) /\ Len(Append(w, x)) = Len(w) + 1
    OBVIOUS
  <1>3. ASSUME NEW j \in 0 .. Len(w)
        PROVE  SubSeq(Append(w, x), 1, j) = SubSeq(w, 1, j)
    <2>1. /\ SubSeq(Append(w, x), 1, j) \in Seq(BlockWrite)
          /\ Len(SubSeq(Append(w, x), 1, j)) = j
          /\ \A i \in 1 .. j : SubSeq(Append(w, x), 1, j)[i] = Append(w, x)[i]
      BY <1>2
    <2>2. /\ SubSeq(w, 1, j) \in Seq(BlockWrite) /\ Len(SubSeq(w, 1, j)) = j
          /\ \A i \in 1 .. j : SubSeq(w, 1, j)[i] = w[i]
      OBVIOUS
    <2>3. \A i \in 1 .. j : Append(w, x)[i] = w[i]
      OBVIOUS
    <2>4. QED
      BY <2>1, <2>2, <2>3, SeqEqual
  <1>4. QED
    BY <1>1, <1>2, <1>3

LEMMA FirstWrites ==
  ASSUME NEW v \in BlockWrite
  PROVE  /\ << v >> \in Seq(BlockWrite) /\ Len(<< v >>) = 1
         /\ SubSeq(<< v >>, 1, 1) = << v >>
         /\ \A w \in BlockWrite :
              /\ << v, w >> = Append(<< v >>, w)
              /\ << v, w >> \in Seq(BlockWrite) /\ Len(<< v, w >>) = 2
              /\ SubSeq(<< v, w >>, 1, 1) = << v >>
              /\ SubSeq(<< v, w >>, 1, 2) = << v, w >>
         /\ \A w, x \in BlockWrite :
              /\ << v, w, x >> = Append(<< v, w >>, x)
              /\ << v, w, x >> \in Seq(BlockWrite) /\ Len(<< v, w, x >>) = 3
              /\ SubSeq(<< v, w, x >>, 1, 1) = << v >>
              /\ SubSeq(<< v, w, x >>, 1, 2) = << v, w >>
              /\ SubSeq(<< v, w, x >>, 1, 3) = << v, w, x >>
  <1>1. << v >> \in Seq(BlockWrite) /\ Len(<< v >>) = 1
    OBVIOUS
  <1>2. SubSeq(<< v >>, 1, 1) = << v >>
    BY <1>1, Prefixes
  <1>3. ASSUME NEW w \in BlockWrite
        PROVE  /\ << v, w >> = Append(<< v >>, w)
               /\ << v, w >> \in Seq(BlockWrite) /\ Len(<< v, w >>) = 2
               /\ SubSeq(<< v, w >>, 1, 1) = << v >>
               /\ SubSeq(<< v, w >>, 1, 2) = << v, w >>
    <2>1. << v, w >> = Append(<< v >>, w)
      OBVIOUS
    <2>2. << v, w >> \in Seq(BlockWrite) /\ Len(<< v, w >>) = 2
      BY <1>1, <2>1, Prefixes
    <2>3. SubSeq(<< v, w >>, 1, 2) = << v, w >>
      BY <2>2, Prefixes
    <2>4. SubSeq(<< v, w >>, 1, 1) = SubSeq(<< v >>, 1, 1)
      BY <1>1, <2>1, Prefixes
    <2>5. QED
      BY <1>2, <2>1, <2>2, <2>3, <2>4
  <1>4. ASSUME NEW w \in BlockWrite, NEW x \in BlockWrite
        PROVE  /\ << v, w, x >> = Append(<< v, w >>, x)
               /\ << v, w, x >> \in Seq(BlockWrite) /\ Len(<< v, w, x >>) = 3
               /\ SubSeq(<< v, w, x >>, 1, 1) = << v >>
               /\ SubSeq(<< v, w, x >>, 1, 2) = << v, w >>
               /\ SubSeq(<< v, w, x >>, 1, 3) = << v, w, x >>
    <2>1. << v, w, x >> = Append(<< v, w >>, x)
      OBVIOUS
    <2>2. << v, w, x >> \in Seq(BlockWrite) /\ Len(<< v, w, x >>) = 3
      BY <1>3, <2>1, Prefixes
    <2>3. SubSeq(<< v, w, x >>, 1, 3) = << v, w, x >>
      BY <2>2, Prefixes
    <2>4. /\ SubSeq(<< v, w, x >>, 1, 1) = SubSeq(<< v, w >>, 1, 1)
          /\ SubSeq(<< v, w, x >>, 1, 2) = SubSeq(<< v, w >>, 1, 2)
      BY <1>3, <2>1, Prefixes
    <2>5. QED
      BY <1>3, <2>1, <2>2, <2>3, <2>4
  <1>5. QED
    BY <1>1, <1>2, <1>3, <1>4

LEMMA FourWrites ==
  ASSUME NEW v \in BlockWrite, NEW w \in BlockWrite, NEW x \in BlockWrite,
         NEW y \in BlockWrite
  PROVE  /\ Len(<< v, w, x, y >>) = 4
         /\ SubSeq(<< v, w, x, y >>, 1, 1) = << v >>
         /\ SubSeq(<< v, w, x, y >>, 1, 2) = << v, w >>
         /\ SubSeq(<< v, w, x, y >>, 1, 3) = << v, w, x >>
         /\ SubSeq(<< v, w, x, y >>, 1, 4) = << v, w, x, y >>
  <1>1. << v, w, x, y >> = Append(<< v, w, x >>, y)
    OBVIOUS
  <1>2. /\ << v, w, x >> \in Seq(BlockWrite) /\ Len(<< v, w, x >>) = 3
        /\ SubSeq(<< v, w, x >>, 1, 1) = << v >>
        /\ SubSeq(<< v, w, x >>, 1, 2) = << v, w >>
        /\ SubSeq(<< v, w, x >>, 1, 3) = << v, w, x >>
    BY FirstWrites
  <1>3. << v, w, x, y >> \in Seq(BlockWrite) /\ Len(<< v, w, x, y >>) = 4
    BY <1>1, <1>2, Prefixes
  <1>4. SubSeq(<< v, w, x, y >>, 1, 4) = << v, w, x, y >>
    BY <1>3, Prefixes
  <1>5. /\ SubSeq(<< v, w, x, y >>, 1, 1) = SubSeq(<< v, w, x >>, 1, 1)
        /\ SubSeq(<< v, w, x, y >>, 1, 2) = SubSeq(<< v, w, x >>, 1, 2)
        /\ SubSeq(<< v, w, x, y >>, 1, 3) = SubSeq(<< v, w, x >>, 1, 3)
    BY <1>1, <1>2, Prefixes
  <1>6. QED
    BY <1>2, <1>3, <1>4, <1>5

(* A step that issues writes when none is pending. *)
LEMMA AfterIssued ==
  ASSUME DiskOK, pending = << >>, disk' = disk
  PROVE  /\ After(0)' = DiskToBe
         /\ \A v \in BlockWrite : pending' = << v >> => After(1)' = DiskToBe'
         /\ \A v, w \in BlockWrite : pending' = << v, w >> =>
              After(1)' = Put(DiskToBe, v) /\ After(2)' = DiskToBe'
         /\ \A v, w, x \in BlockWrite : pending' = << v, w, x >> =>
              /\ After(1)' = Put(DiskToBe, v) /\ After(2)' = Put(Put(DiskToBe, v), w)
              /\ After(3)' = DiskToBe'
         /\ \A v, w, x, y \in BlockWrite : pending' = << v, w, x, y >> =>
              /\ After(1)' = Put(DiskToBe, v) /\ After(2)' = Put(Put(DiskToBe, v), w)
              /\ After(3)' = Put(Put(Put(DiskToBe, v), w), x)
              /\ After(4)' = DiskToBe'
  <1> DEFINE On(w) == [b \in Block |-> Holds(disk, w, b)]
  <1>0. disk \in [Block -> Contents] /\ DiskToBe = disk
    BY NothingPending DEF DiskOK
  <1>1. DiskToBe' = On(pending')
    BY DEF DiskToBe, Latest, Holds
  <1>2. On(<< >>) = disk
    <2>1. \A b \in Block : Holds(disk, << >>, b) = disk[b]
      BY DEF Holds
    <2>2. QED
      BY <1>0, <2>1
  <1>3. ASSUME NEW w \in Seq(BlockWrite), NEW x \in BlockWrite
        PROVE  On(Append(w, x)) = Put(On(w), x)
    BY <1>0, PutLast
  <1>4. \A j : After(j)' = On(SubSeq(pending', 1, j))
    BY DEF After
  <1> HIDE DEF On
  <1>5. SubSeq(pending', 1, 0) = << >>
    OBVIOUS
  <1>6. ASSUME NEW v \in BlockWrite PROVE On(<< v >>) = Put(DiskToBe, v)
    <2>1. << >> \in Seq(BlockWrite) /\ << v >> = Append(<< >>, v)
      OBVIOUS
    <2>2. QED
      BY <1>0, <1>2, <1>3, <2>1
  <1>7. ASSUME NEW v \in BlockWrite, NEW w \in BlockWrite
        PROVE  On(<< v, w >>) = Put(Put(DiskToBe, v), w)
    <2>1. << v >> \in Seq(BlockWrite) /\ << v, w >> = Append(<< v >>, w)
      BY FirstWrites
    <2>2. QED
      BY <1>3, <1>6, <2>1
  <1>8. ASSUME NEW v \in BlockWrite, NEW w \in BlockWrite, NEW x \in BlockWrite
        PROVE  On(<< v, w, x >>) = Put(Put(Put(DiskToBe, v), w), x)
    <2>1. << v, w >> \in Seq(BlockWrite) /\ << v, w, x >> = Append(<< v, w >>, x)
      BY FirstWrites
    <2>2. QED
      BY <1>3, <1>7, <2>1
  <1>9. ASSUME NEW v \in BlockWrite, pending' = << v >> PROVE After(1)' = DiskToBe'
    BY <1>1, <1>4, <1>9, FirstWrites
  <1>10. ASSUME NEW v \in BlockWrite, NEW w \in BlockWrite, pending' = << v, w >>
         PROVE  After(1)' = Put(DiskToBe, v) /\ After(2)' = DiskToBe'
    <2>1. SubSeq(pending', 1, 1) = << v >> /\ SubSeq(pending', 1, 2) = pending'
      BY <1>10, FirstWrites
    <2>2. QED
      BY <1>1, <1>4, <1>6, <2>1
  <1>11. ASSUME NEW v \in BlockWrite, NEW w \in BlockWrite, NEW x \in BlockWrite,
                pending' = << v, w, x >>
         PROVE  /\ After(1)' = Put(DiskToBe, v) /\ After(2)' = Put(Put(DiskToBe, v), w)
                /\ After(3)' = DiskToBe'
    <2>1. /\ SubSeq(pending', 1, 1) = << v >> /\ SubSeq(pending', 1, 2) = << v, w >>
          /\ SubSeq(pending', 1, 3) = pending'
      BY <1>11, FirstWrites
    <2>2. QED
      BY <1>1, <1>4, <1>6, <1>7, <2>1
  <1>12. ASSUME NEW v \in BlockWrite, NEW w \in BlockWrite, NEW x \in BlockWrite,
                NEW y \in BlockWrite, pending' = << v, w, x, y >>
         PROVE  /\ After(1)' = Put(DiskToBe, v) /\ After(2)' = Put(Put(DiskToBe, v), w)
                /\ After(3)' = Put(Put(Put(DiskToBe, v), w), x)
                /\ After(4)' = DiskToBe'
    <2>0. /\ SubSeq(<< v, w, x, y >>, 1, 1) = << v >>
          /\ SubSeq(<< v, w, x, y >>, 1, 2) = << v, w >>
          /\ SubSeq(<< v, w, x, y >>, 1, 3) = << v, w, x >>
          /\ SubSeq(<< v, w, x, y >>, 1, 4) = << v, w, x, y >>
      BY FourWrites
    <2>1. SubSeq(pending', 1, 1) = << v >> /\ SubSeq(pending', 1, 2) = << v, w >>
      BY <1>12, <2>0, Zenon
    <2>2. SubSeq(pending', 1, 3) = << v, w, x >> /\ SubSeq(pending', 1, 4) = pending'
      BY <1>12, <2>0, Zenon
    <2>3. After(1)' = Put(DiskToBe, v) /\ After(2)' = Put(Put(DiskToBe, v), w)
      BY <1>4, <1>6, <1>7, <2>1
    <2>4. After(3)' = Put(Put(Put(DiskToBe, v), w), x)
      <3>1. After(3)' = On(<< v, w, x >>)
        BY <1>4, <2>2, Zenon
      <3>2. QED
        BY <1>8, <3>1
    <2>5. After(4)' = DiskToBe'
      BY <1>1, <1>4, <2>2
    <2>6. QED
      BY <2>3, <2>4, <2>5
  <1>13. After(0)' = DiskToBe
    BY <1>0, <1>2, <1>4, <1>5
  <1>14. QED
    BY <1>9, <1>10, <1>11, <1>12, <1>13

(* The step is about one slot and leaves the others, or goes on with the   *)
(* write that is under way.                                                *)
OthersStay ==
  \A s \in Slot \ {call'.fd} :
    /\ directoryEntries'[s] = directoryEntries[s]
    /\ s \in Named => Content(s)' = Content(s)
SameWrite ==
  call'.op = "sfs_fwrite" =>
    /\ call.op = "sfs_fwrite" /\ call'.fd = call.fd
    /\ call'.old = call.old /\ call'.fileData = call.fileData

(* What a disk held of memory before it, the disk holds after it. *)
LEMMA StillHeld ==
  ASSUME OthersStay, SameWrite, NEW d
  PROVE  /\ SparedOn(d, directoryEntries, FileContents, call'.fd)
              => SparedOn(d, directoryEntries', FileContents', call'.fd)
         /\ WrittenOn(d, call) => WrittenOn(d, call')
  <1>1. \A s \in Slot : FileContents[s] = Content(s) /\ FileContents'[s] = Content(s)'
    BY DEF FileContents
  <1>2. SparedOn(d, directoryEntries, FileContents, call'.fd)
          => SparedOn(d, directoryEntries', FileContents', call'.fd)
    BY <1>1 DEF SparedOn, OthersStay, Named
  <1>3. WrittenOn(d, call) => WrittenOn(d, call')
    BY DEF WrittenOn, SameWrite
  <1>4. QED
    BY <1>2, <1>3

(* The disk before the step, and the one after it, are as they have to be. *)
LEMMA EndsFound ==
  ASSUME Settled, Settled', OthersStay, SameWrite, NEW left
  PROVE  /\ Found(DiskToBe, left, directoryEntries', FileContents', call')
         /\ Found(DiskToBe', left, directoryEntries', FileContents', call')
  <1>1. DiskFound /\ DiskFound'
    BY SettledFound, SettledFoundNext
  <1>2. /\ CanMount(DiskToBe') /\ SoundOn(DiskToBe')
        /\ SparedOn(DiskToBe', directoryEntries', FileContents', -1)
        /\ WrittenOn(DiskToBe', call')
    BY <1>1 DEF DiskFound
  <1>3. SparedOn(DiskToBe', directoryEntries', FileContents', call'.fd)
    BY <1>2, SparedButOne
  <1>4. /\ CanMount(DiskToBe) /\ SoundOn(DiskToBe)
        /\ SparedOn(DiskToBe, directoryEntries, FileContents, -1)
        /\ WrittenOn(DiskToBe, call)
    BY <1>1 DEF DiskFound
  <1>5. SparedOn(DiskToBe, directoryEntries, FileContents, call'.fd)
    BY <1>4, SparedButOne
  <1>6. /\ SparedOn(DiskToBe, directoryEntries', FileContents', call'.fd)
        /\ WrittenOn(DiskToBe, call')
    BY <1>4, <1>5, StillHeld
  <1>7. QED
    BY <1>2, <1>3, <1>4, <1>6 DEF Found

(* Nothing is left to do but to look at the disks in between. *)
LEMMA CrashNext ==
  ASSUME NEW n \in Nat, Len(pending') = n,
         \A j \in 0 .. n :
           Found(After(j)', n - j, directoryEntries', FileContents', call')
  PROVE  CrashInv'
  BY DEF CrashInv

-----------------------------------------------------------------------------
(* Every step leaves disks that can be mounted.                            *)

(* A write reaches the disk. *)
LEMMA FlushCrash ==
  ASSUME Settled, Settled', CrashInv, Flush
  PROVE  CrashInv'
  <1>1. /\ pending \in Seq(BlockWrite) /\ pending # << >> /\ pending' = Tail(pending)
        /\ DiskOK /\ IInv /\ FilesInv /\ IInv' /\ FilesInv'
        /\ iNodes' = iNodes /\ directoryEntries' = directoryEntries
    BY DEF Flush, memory, Settled, IInv, DiskOK
  <1>2. Len(pending) \in Nat /\ Len(pending') = Len(pending) - 1
    BY <1>1
  <1>3. CASE call' # call
    <2>1. Len(pending) = 1
      BY <1>3 DEF Flush
    <2>2. (pending = << >>)'
      BY <1>1, <2>1
    <2>3. QED
      BY <2>2, SettledCrashNext
  <1>4. CASE call' = call
    <2>1. DiskToBe' = DiskToBe
      BY <1>1, FlushedTheSame
    <2>2. \A s \in Named : Content(s)' = Content(s)
      BY <1>1, <2>1, SameContent
    <2>3. OthersStay /\ SameWrite
      BY <1>1, <1>4, <2>2 DEF OthersStay, SameWrite
    <2>4. ASSUME NEW j \in 0 .. Len(pending')
          PROVE  Found(After(j)', Len(pending') - j, directoryEntries', FileContents', call')
      <3>1. After(j)' = After(j + 1)
        BY <1>1, AfterFlush
      <3>2. j + 1 \in 0 .. Len(pending) /\ Len(pending) - (j + 1) = Len(pending') - j
        BY <1>2
      <3>3. Found(After(j + 1), Len(pending) - (j + 1), directoryEntries, FileContents, call)
        BY <3>2 DEF CrashInv
      <3>4. PICK d : d = After(j + 1)
        OBVIOUS
      <3>5. Found(d, Len(pending') - j, directoryEntries, FileContents, call)
        BY <3>2, <3>3, <3>4
      <3>6. SparedOn(d, directoryEntries', FileContents', call'.fd) /\ WrittenOn(d, call')
        BY <1>4, <2>3, <3>5, StillHeld DEF Found
      <3>7. QED
        BY <1>4, <3>1, <3>4, <3>5, <3>6 DEF Found
    <2>5. QED
      BY <2>4 DEF CrashInv
  <1>5. QED
    BY <1>3, <1>4

(* A write of a block that no saved i-node points to, or of a map in which *)
(* no more blocks are free.                                                *)
LEMMA ApartFound ==
  ASSUME NEW d \in Disks, NEW x \in BlockWrite, CanMount(d), SoundOn(d),
         x.at # iNodeTableIndex, x.at # RootDirectoryIndex,
         x.at = FreeBlockListIndex
           => x.contents.is = "map" /\ x.contents.free \subseteq FreeOn(d),
         \A s \in SavedSlots, r \in Roles : Held(TableOn(d), d, s, r) # x.at
  PROVE  LET e == Put(d, x)
         IN  /\ e \in Disks /\ CanMount(e) /\ SoundOn(e) /\ TableOn(e) = TableOn(d)
             /\ FreeOn(e) \subseteq FreeOn(d)
             /\ \A s \in SavedSlots, r \in Roles :
                  Held(TableOn(d), e, s, r) = Held(TableOn(d), d, s, r)
             /\ \A names, files, y :
                  SparedOn(d, names, files, y) => SparedOn(e, names, files, y)
             /\ \A c : (c.op = "sfs_fwrite" => c.fd \in Slot) /\ WrittenOn(d, c)
                  => WrittenOn(e, c)
  <1> DEFINE e == Put(d, x)
  <1>1. /\ e \in Disks
        /\ \A b \in Block : e[b] = IF b = x.at THEN x.contents ELSE d[b]
    BY PutIs DEF Disks
  <1>2. /\ e[iNodeTableIndex] = d[iNodeTableIndex]
        /\ e[RootDirectoryIndex] = d[RootDirectoryIndex]
        /\ e[RootDirectoryIndex].is = "directory" /\ NamesOn(e) = NamesOn(d)
    BY <1>1, Places DEF CanMount, NamesOn
  <1>3. e[FreeBlockListIndex].is = "map" /\ FreeOn(e) \subseteq FreeOn(d)
    BY <1>1, Places DEF CanMount, FreeOn
  <1>4. TableOn(d) \in Tables /\ TableOn(e) = TableOn(d)
    BY <1>2, TablesOnDisk DEF TableOn
  <1>5. \A s \in SavedSlots :
          /\ Keeps(TableOn(d), d, TableOn(d), e, s, -1)
          /\ \A r \in Roles : Held(TableOn(d), e, s, r) = Held(TableOn(d), d, s, r)
    BY <1>4, ApartKeeps, SavedSlotsAreSlots
  <1> HIDE DEF e
  <1>6. CanMount(e)
    BY <1>2, <1>3, <1>5, StillMounts
  <1>7. SoundOn(e)
    <2>1. \A s \in SavedSlots, r \in Roles :
            Held(TableOn(d), e, s, r) \in {-1, Held(TableOn(d), d, s, r)}
      BY <1>5
    <2>2. Sound(SavedSlots, TableOn(d), d, FreeOn(d))
      BY DEF SoundOn
    <2>3. Sound(SavedSlots, TableOn(d), e, FreeOn(e))
      BY <1>3, <2>1, <2>2, SavedSlotsAreSlots, SoundWhenLost
    <2>4. QED
      BY <1>4, <2>3 DEF SoundOn
  <1>8. ASSUME NEW names, NEW files, NEW y, SparedOn(d, names, files, y)
        PROVE  SparedOn(e, names, files, y)
    BY <1>2, <1>3, <1>5, <1>8, StillSpared
  <1>9. ASSUME NEW c, c.op = "sfs_fwrite" => c.fd \in Slot, WrittenOn(d, c)
        PROVE  WrittenOn(e, c)
    BY <1>2, <1>3, <1>5, <1>9, StillWritten
  <1>10. QED
    BY <1>1, <1>3, <1>4, <1>5, <1>6, <1>7, <1>8, <1>9 DEF e

(* A disk between two writes of an allocation: the tables saved have the   *)
(* roles they had.                                                         *)
Between(e) ==
  /\ e \in Disks /\ CanMount(e) /\ SoundOn(e) /\ TableOn(e) = Saved
  /\ SparedOn(e, directoryEntries, FileContents, -1) /\ WrittenOn(e, call)
  /\ \A s \in SavedSlots, r \in Roles :
       Held(Saved, e, s, r) = Held(Saved, DiskToBe, s, r)

LEMMA BetweenBegins == Settled => Between(DiskToBe) /\ FreeOn(DiskToBe) = freeBlocks
  <1>1. Settled => DiskToBe \in Disks
    BY Typed DEF Settled
  <1>2. QED
    BY <1>1, SettledFound DEF Between, DiskFound

(* The slot that sfs_fwrite is at work on. *)
LEMMA SlotWritten == Settled => (call.op = "sfs_fwrite" => call.fd \in Slot)
  BY SavedSlotsAreSlots DEF Settled, WriteInv, WriteMeant, TablesFit

(* A block not in use is written, or the map when blocks were taken. *)
LEMMA BetweenGoesOn ==
  ASSUME Settled, NEW e, Between(e), NEW x \in BlockWrite,
         x.at # iNodeTableIndex, x.at # RootDirectoryIndex,
         x.at \notin FreshMap \ freeBlocks,
         x.at = FreeBlockListIndex
           => x.contents.is = "map" /\ x.contents.free \subseteq FreeOn(e)
  PROVE  /\ Between(Put(e, x))
         /\ FreeOn(Put(e, x)) = IF x.at = FreeBlockListIndex THEN x.contents.free
                                ELSE FreeOn(e)
  <1>1. /\ e \in Disks /\ CanMount(e) /\ SoundOn(e) /\ TableOn(e) = Saved
        /\ SparedOn(e, directoryEntries, FileContents, -1) /\ WrittenOn(e, call)
        /\ \A s \in SavedSlots, r \in Roles :
             Held(Saved, e, s, r) = Held(Saved, DiskToBe, s, r)
    BY DEF Between
  <1>2. /\ IInv /\ BlockInv(SavedSlots) /\ Sub(SavedSlots, Saved)
    BY SavedSlotsAreSlots, SubTables DEF Settled
  <1>3. x.at # -1
    BY Places DEF BlockWrite
  <1>4. \A s \in SavedSlots, r \in Roles : Held(Saved, e, s, r) # x.at
    BY <1>1, <1>2, <1>3, NoRole, SavedSlotsAreSlots
  <1>5. \A s \in SavedSlots, r \in Roles : Held(TableOn(e), e, s, r) # x.at
    BY <1>1, <1>4
  <1> DEFINE f == Put(e, x)
  <1>6. /\ f \in Disks /\ CanMount(f) /\ SoundOn(f) /\ TableOn(f) = TableOn(e)
        /\ \A s \in SavedSlots, r \in Roles :
             Held(TableOn(e), f, s, r) = Held(TableOn(e), e, s, r)
        /\ SparedOn(f, directoryEntries, FileContents, -1)
        /\ WrittenOn(f, call)
    BY <1>1, <1>5, ApartFound, SlotWritten
  <1>7. FreeOn(f) = IF x.at = FreeBlockListIndex THEN x.contents.free ELSE FreeOn(e)
    BY <1>1, PutIs, Places DEF FreeOn, Disks
  <1> HIDE DEF f
  <1>8. Between(f)
    BY <1>1, <1>6 DEF Between
  <1>9. QED
    BY <1>7, <1>8 DEF f

(* Such a disk is as it has to be. *)
LEMMA BetweenFound ==
  ASSUME Settled, OthersStay, SameWrite, NEW e, Between(e), NEW left
  PROVE  Found(e, left, directoryEntries', FileContents', call')
  <1>1. /\ CanMount(e) /\ SoundOn(e) /\ WrittenOn(e, call)
        /\ SparedOn(e, directoryEntries, FileContents, call'.fd)
    BY SparedButOne DEF Between
  <1>2. QED
    BY <1>1, StillHeld DEF Found

(* Data is written where no saved i-node has its block of pointers. *)
LEMMA SoundBeforeData ==
  ASSUME NEW d \in Disks, NEW x \in BlockWrite, TableOn(d) \in Tables,
         x.at # iNodeTableIndex, x.at # FreeBlockListIndex,
         \A s \in SavedSlots : TableOn(d)[s].indirect # x.at,
         SoundOn(Put(d, x))
  PROVE  SoundOn(d)
  <1> DEFINE e == Put(d, x)
  <1>1. TableOn(e) = TableOn(d) /\ FreeOn(e) = FreeOn(d)
    BY PutIs, Places DEF Disks, TableOn, FreeOn
  <1>2. \A s \in SavedSlots, r \in Roles :
          Held(TableOn(d), e, s, r) = Held(TableOn(d), d, s, r)
    BY HeldAfterPut, SavedSlotsAreSlots
  <1> HIDE DEF e
  <1>3. Sound(SavedSlots, TableOn(d), e, FreeOn(d))
    BY <1>1 DEF SoundOn, e
  <1>4. \A s \in SavedSlots, r \in Roles :
          Held(TableOn(d), d, s, r) \in {-1, Held(TableOn(d), e, s, r)}
    BY <1>2
  <1>5. Sound(SavedSlots, TableOn(d), d, FreeOn(d))
    BY <1>3, <1>4, SavedSlotsAreSlots, SoundWhenLost
  <1>6. QED
    BY <1>5 DEF SoundOn

-----------------------------------------------------------------------------
(* What each call leaves to the others.                                    *)

(* What is settled, part by part. *)
LEMMA SettledParts ==
  Settled => /\ IInv /\ BlockInv(SavedSlots) /\ FilesInv /\ WriteInv
             /\ Covers(SavedSlots) /\ MapKept /\ SavedSlots \in SUBSET Slot
  BY SettledCovers, SavedSlotsAreSlots DEF Settled

LEMMA SettledPartsNext ==
  Settled' => IInv' /\ BlockInv(SavedSlots)' /\ FilesInv' /\ WriteInv'
  BY DEF Settled

LEMMA IterationStays ==
  ASSUME Settled, Settled', Room, Room',
         WriteKnownBlock \/ WriteNewDirect \/ WriteNewIndirect \/ WriteFirstIndirect
  PROVE  OthersStay /\ SameWrite
  <1>1. PICK tables, c : WriteData(tables, c) /\ Writing
    BY SettledParts, Iterates
  <1>2. /\ call \in WriteCall /\ call.op = "sfs_fwrite"
        /\ call' = [call EXCEPT !.blockIndex = blockIndex + 1]
    BY <1>1, SettledParts, WriteInProgress DEF WriteData, Writing
  <1>3. /\ call'.op = "sfs_fwrite" /\ call'.fd = call.fd
        /\ call'.old = call.old /\ call'.fileData = call.fileData
    BY <1>2 DEF WriteCall
  <1>4. /\ directoryEntries' = directoryEntries
        /\ \A s \in Named : FileIn(s)' = FileIn(s)
    BY SettledParts, SettledPartsNext, IterationWrites
  <1>5. ASSUME NEW s \in Named, s # call'.fd PROVE Content(s)' = Content(s)
    <2>1. FileIn(s) = Content(s)
      BY <1>3, <1>5 DEF FileIn, InWrite
    <2>2. FileIn(s)' = Content(s)'
      BY <1>5 DEF FileIn, InWrite
    <2>3. QED
      BY <1>4, <2>1, <2>2
  <1>6. QED
    BY <1>2, <1>3, <1>4, <1>5 DEF OthersStay, SameWrite

(* sfs_fwrite returns. *)
LEMMA WriteEndsStays ==
  ASSUME Settled, Settled', Room, WriteEnds
  PROVE  OthersStay /\ SameWrite
  <1>1. /\ call' = [op |-> "return", fd |-> call.fd]
        /\ iNodes' = [iNodes EXCEPT ![call.fd].size = call.fileSize]
        /\ directoryEntries' = directoryEntries
    BY DEF WriteEnds
  <1>2. \A s \in SavedSlots : Keeps(iNodes, DiskToBe, iNodes', DiskToBe', s, -1)
    BY SettledParts, WriteEndsWhole
  <1>3. Named' = Named /\ Named \subseteq SavedSlots
    BY <1>1, SameNames DEF Settled, TablesFit
  <1>4. ASSUME NEW s \in Named, s # call'.fd PROVE Content(s)' = Content(s)
    <2>1. s \in SavedSlots /\ s \in Slot /\ s \in Named'
      BY <1>3, SavedSlotsAreSlots
    <2>2. iNodes'[s].size = iNodes[s].size
      <3>1. s # call.fd /\ iNodes \in Tables
        BY <1>1, <1>4, SettledParts, Typed
      <3>2. QED
        BY <1>1, <2>1, <3>1 DEF Tables
    <2>3. QED
      BY <1>2, <2>1, <2>2, SettledParts, SettledPartsNext, ContentKept DEF HasData
  <1>5. QED
    BY <1>1, <1>4 DEF OthersStay, SameWrite

(* sfs_fopen makes a file. *)
LEMMA OpenNewStays ==
  ASSUME Settled, Settled', Room, NEW n \in Name, OpenNew(n)
  PROVE  OthersStay /\ SameWrite
  <1>0. PICK f \in Slot : f = Min(EmptySlots)
    BY SettledParts, SlotTaken
  <1>1. /\ call' = [op |-> "sfs_fopen", fd |-> f]
        /\ iNodes' = [iNodes EXCEPT ![f].size = 0]
        /\ directoryEntries' = [directoryEntries EXCEPT ![f] = n]
    BY <1>0 DEF OpenNew
  <1>2. \A s \in SavedSlots : Keeps(iNodes, DiskToBe, iNodes', DiskToBe', s, -1)
    BY SettledParts, OpenNewWhole
  <1>3. /\ Named' = Named \cup {f} /\ Named \subseteq SavedSlots /\ f \notin Named
        /\ iNodes \in Tables /\ directoryEntries \in Names
    BY <1>0, SettledParts, SlotTaken, Typed DEF Settled, TablesFit, IInv, MemoryOK
  <1>4. ASSUME NEW s \in Named, s # call'.fd PROVE Content(s)' = Content(s)
    <2>1. s \in SavedSlots /\ s \in Slot /\ s \in Named' /\ s # f
      BY <1>1, <1>3, <1>4, SavedSlotsAreSlots
    <2>2. iNodes'[s].size = iNodes[s].size
      BY <1>1, <1>3, <2>1 DEF Tables
    <2>3. QED
      BY <1>2, <2>1, <2>2, SettledParts, SettledPartsNext, ContentKept DEF HasData
  <1>5. QED
    BY <1>1, <1>3, <1>4 DEF OthersStay, SameWrite, Names

(* sfs_remove takes one away. *)
LEMMA RemoveFileStays ==
  ASSUME Settled, Settled', Room, NEW n \in Name, RemoveFile(n)
  PROVE  OthersStay /\ SameWrite
  <1>0. PICK f \in Slot : f = Min(SlotsOf(n))
    BY SettledParts, SlotLeft
  <1>1. /\ call' = [op |-> "sfs_remove", fd |-> f]
        /\ iNodes' = [iNodes EXCEPT ![f] = UnusedInode]
        /\ directoryEntries' = [directoryEntries EXCEPT ![f] = Empty]
    BY <1>0 DEF RemoveFile
  <1>2. \A s \in SavedSlots \ {f} : Keeps(iNodes, DiskToBe, iNodes', DiskToBe', s, -1)
    BY <1>0, SettledParts, RemoveFileWhole
  <1>3. /\ Named' = Named \ {f} /\ Named \subseteq SavedSlots
        /\ iNodes \in Tables /\ directoryEntries \in Names
    BY <1>0, SettledParts, SlotLeft, Typed DEF Settled, TablesFit, IInv, MemoryOK
  <1>4. ASSUME NEW s \in Named, s # call'.fd PROVE Content(s)' = Content(s)
    <2>1. s \in SavedSlots /\ s \in Slot /\ s \in Named' /\ s # f
      BY <1>1, <1>3, <1>4, SavedSlotsAreSlots
    <2>2. iNodes'[s].size = iNodes[s].size
      BY <1>1, <1>3, <2>1 DEF Tables
    <2>3. QED
      BY <1>2, <2>1, <2>2, SettledParts, SettledPartsNext, ContentKept DEF HasData
  <1>5. QED
    BY <1>1, <1>3, <1>4 DEF OthersStay, SameWrite, Names

-----------------------------------------------------------------------------
(* A step with so many writes: the disks between them decide.              *)

(* A disk that is as it has to be after the step. *)
FoundNext(d, left) == Found(d, left, directoryEntries', FileContents', call')

LEMMA OneWrite ==
  ASSUME Settled, Settled', OthersStay, SameWrite, pending = << >>, disk' = disk,
         NEW v, pending' = << v >>
  PROVE  CrashInv'
  <1>1. DiskOK /\ pending' \in Seq(BlockWrite)
    BY SettledParts, SettledPartsNext DEF IInv, DiskOK
  <1>2. v \in BlockWrite /\ Len(pending') = 1
    BY <1>1
  <1>3. After(0)' = DiskToBe /\ After(1)' = DiskToBe'
    BY <1>1, <1>2, AfterIssued
  <1>4. \A left : FoundNext(DiskToBe, left) /\ FoundNext(DiskToBe', left)
    BY EndsFound DEF FoundNext
  <1>5. \A j \in 0 .. 1 : FoundNext(After(j)', 1 - j)
    <2>1. 0 .. 1 = {0, 1}
      OBVIOUS
    <2>2. QED
      BY <1>3, <1>4, <2>1
  <1>6. QED
    BY <1>2, <1>5, CrashNext DEF FoundNext

LEMMA TwoWrites ==
  ASSUME Settled, Settled', OthersStay, SameWrite, pending = << >>, disk' = disk,
         NEW v, NEW w, pending' = << v, w >>, FoundNext(Put(DiskToBe, v), 1)
  PROVE  CrashInv'
  <1>1. DiskOK /\ pending' \in Seq(BlockWrite)
    BY SettledParts, SettledPartsNext DEF IInv, DiskOK
  <1>2. v \in BlockWrite /\ w \in BlockWrite /\ Len(pending') = 2
    BY <1>1
  <1>3. After(0)' = DiskToBe /\ After(1)' = Put(DiskToBe, v) /\ After(2)' = DiskToBe'
    BY <1>1, <1>2, AfterIssued
  <1>4. \A left : FoundNext(DiskToBe, left) /\ FoundNext(DiskToBe', left)
    BY EndsFound DEF FoundNext
  <1>5. \A j \in 0 .. 2 : FoundNext(After(j)', 2 - j)
    <2>1. 0 .. 2 = {0, 1, 2} /\ 2 - 1 = 1
      OBVIOUS
    <2>2. QED
      BY <1>3, <1>4, <2>1
  <1>6. QED
    BY <1>2, <1>5, CrashNext DEF FoundNext

LEMMA ThreeWrites ==
  ASSUME Settled, Settled', OthersStay, SameWrite, pending = << >>, disk' = disk,
         NEW v, NEW w, NEW x, pending' = << v, w, x >>,
         FoundNext(Put(DiskToBe, v), 2), FoundNext(Put(Put(DiskToBe, v), w), 1)
  PROVE  CrashInv'
  <1>1. DiskOK /\ pending' \in Seq(BlockWrite)
    BY SettledParts, SettledPartsNext DEF IInv, DiskOK
  <1>2. v \in BlockWrite /\ w \in BlockWrite /\ x \in BlockWrite /\ Len(pending') = 3
    BY <1>1
  <1>3. /\ After(0)' = DiskToBe /\ After(1)' = Put(DiskToBe, v)
        /\ After(2)' = Put(Put(DiskToBe, v), w) /\ After(3)' = DiskToBe'
    BY <1>1, <1>2, AfterIssued
  <1>4. \A left : FoundNext(DiskToBe, left) /\ FoundNext(DiskToBe', left)
    BY EndsFound DEF FoundNext
  <1>5. \A j \in 0 .. 3 : FoundNext(After(j)', 3 - j)
    <2>1. 0 .. 3 = {0, 1, 2, 3} /\ 3 - 1 = 2 /\ 3 - 2 = 1
      OBVIOUS
    <2>2. QED
      BY <1>3, <1>4, <2>1
  <1>6. QED
    BY <1>2, <1>5, CrashNext DEF FoundNext

LEMMA FourWritesLeft ==
  ASSUME Settled, Settled', OthersStay, SameWrite, pending = << >>, disk' = disk,
         NEW v, NEW w, NEW x, NEW y, pending' = << v, w, x, y >>,
         FoundNext(Put(DiskToBe, v), 3), FoundNext(Put(Put(DiskToBe, v), w), 2),
         FoundNext(Put(Put(Put(DiskToBe, v), w), x), 1)
  PROVE  CrashInv'
  <1>1. DiskOK /\ pending' \in Seq(BlockWrite)
    BY SettledParts, SettledPartsNext DEF IInv, DiskOK
  <1>2. /\ v \in BlockWrite /\ w \in BlockWrite /\ x \in BlockWrite /\ y \in BlockWrite
        /\ Len(pending') = 4
    BY <1>1
  <1>3. /\ After(0)' = DiskToBe /\ After(1)' = Put(DiskToBe, v)
        /\ After(2)' = Put(Put(DiskToBe, v), w)
        /\ After(3)' = Put(Put(Put(DiskToBe, v), w), x) /\ After(4)' = DiskToBe'
    BY <1>1, <1>2, AfterIssued
  <1>4. \A left : FoundNext(DiskToBe, left) /\ FoundNext(DiskToBe', left)
    BY EndsFound DEF FoundNext
  <1>5. \A j \in 0 .. 4 : FoundNext(After(j)', 4 - j)
    <2>1. 0 .. 4 = {0, 1, 2, 3, 4} /\ 4 - 1 = 3 /\ 4 - 2 = 2 /\ 4 - 3 = 1
      OBVIOUS
    <2>2. QED
      BY <1>3, <1>4, <2>1
  <1>6. QED
    BY <1>2, <1>5, CrashNext DEF FoundNext

-----------------------------------------------------------------------------
(* The iterations of sfs_fwrite.                                           *)

(* The data is written after the tables. *)
LEMMA DataLast ==
  ASSUME NEW v, NEW w, NEW x, NEW y
  PROVE  /\ Append(<< v >>, w) = << v, w >>
         /\ Append(<< v, w >>, x) = << v, w, x >>
         /\ Append(<< v, w, x >>, y) = << v, w, x, y >>
  <1>1. << v, w >> = Append(<< v >>, w)
    OBVIOUS
  <1>2. << v, w, x >> = Append(<< v, w >>, x)
    OBVIOUS
  <1>3. << v, w, x, y >> = Append(<< v, w, x >>, y)
    OBVIOUS
  <1>4. QED
    BY <1>1, <1>2, <1>3

LEMMA KnownBlockCrash ==
  ASSUME Settled, Settled', Room, Room', WriteKnownBlock
  PROVE  CrashInv'
  <1> DEFINE x == At(BlockNumber(call.fd, blockIndex),
                     DataBlock(SubSeq(call.fileData, blockIndex * DISK_BLOCK_SIZE + 1,
                                      (blockIndex + 1) * DISK_BLOCK_SIZE)))
  <1>1. pending = << >> /\ disk' = disk /\ pending' = Append(<< >>, x)
    BY DEF WriteKnownBlock, WriteData, Writing
  <1> HIDE DEF x
  <1>2. pending' = << x >>
    BY <1>1
  <1>3. OthersStay /\ SameWrite
    BY IterationStays
  <1>4. QED
    BY <1>1, <1>2, <1>3, OneWrite

(* The map is saved, and points to nothing. *)
LEMMA NewDirectCrash ==
  ASSUME Settled, Settled', Room, Room', WriteNewDirect
  PROVE  CrashInv'
  <1> DEFINE m == MapWrite(freeBlocks')
             x == At(Min(freeBlocks),
                     DataBlock(SubSeq(call.fileData, blockIndex * DISK_BLOCK_SIZE + 1,
                                      (blockIndex + 1) * DISK_BLOCK_SIZE)))
  <1>1. /\ pending = << >> /\ disk' = disk /\ pending' = Append(<< m >>, x)
        /\ freeBlocks' \subseteq freeBlocks /\ freeBlocks' \in SUBSET Allocatable
    BY SettledParts, Typed DEF WriteNewDirect, WriteData, Writing
  <1>2. /\ m \in BlockWrite /\ m.at = FreeBlockListIndex
        /\ m.contents.is = "map" /\ m.contents.free = freeBlocks'
    BY <1>1, WriteParts
  <1> HIDE DEF x, m
  <1>3. pending' = << m, x >>
    BY <1>1, DataLast
  <1>4. Between(DiskToBe) /\ FreeOn(DiskToBe) = freeBlocks
    BY BetweenBegins
  <1>5. Between(Put(DiskToBe, m))
    BY <1>1, <1>2, <1>4, Places, BetweenGoesOn
  <1>6. OthersStay /\ SameWrite
    BY IterationStays
  <1>7. FoundNext(Put(DiskToBe, m), 1)
    BY <1>5, <1>6, BetweenFound DEF FoundNext
  <1>8. QED
    BY <1>1, <1>3, <1>6, <1>7, TwoWrites

(* Both blocks are taken and the pointers written before the i-node points *)
(* to them.                                                                *)
LEMMA FirstIndirectCrash ==
  ASSUME Settled, Settled', Room, Room', WriteFirstIndirect
  PROVE  CrashInv'
  <1> DEFINE i == Min(freeBlocks)
             b == Min(freeBlocks \ {i})
             pointers == [NoPointers EXCEPT ![0] = b]
             l == MapWrite(freeBlocks \ {i})
             m == MapWrite(freeBlocks')
             w == At(i, PointerBlock(pointers))
             x == At(b, DataBlock(SubSeq(call.fileData, blockIndex * DISK_BLOCK_SIZE + 1,
                                         (blockIndex + 1) * DISK_BLOCK_SIZE)))
  <1>1. /\ pending = << >> /\ disk' = disk /\ pending' = Append(<< l, m, w >>, x)
        /\ Cardinality(freeBlocks) >= 2 /\ freeBlocks' = freeBlocks \ {i, b}
    BY DEF WriteFirstIndirect, WriteData, Writing
  <1>2. freeBlocks \in SUBSET Allocatable /\ freeBlocks \subseteq FreshMap
    BY SettledParts, Typed DEF BlockInv, Sound
  <1>3. /\ i \in freeBlocks /\ i \in Block /\ i # RootDirectoryIndex /\ i \in FreshMap
    <2>1. i \in freeBlocks /\ i \in Block
      BY <1>1, <1>2, TwoFree, LowestFree
    <2>2. QED
      BY <1>1, <1>2, <2>1 DEF Room
  <1>4. b \in SoundPointer
    <2>1. freeBlocks \ {i} # {} /\ freeBlocks \ {i} \in SUBSET Allocatable
      BY <1>1, <1>2, TwoFree
    <2>2. QED
      BY <2>1, LowestFree
  <1>5. pointers \in Pointers
    BY <1>4, RoleNumbers DEF Pointers, NoPointers, SoundPointer
  <1>6. /\ freeBlocks \ {i} \in SUBSET Allocatable /\ freeBlocks' \in SUBSET Allocatable
        /\ freeBlocks \ {i} \subseteq freeBlocks /\ freeBlocks' \subseteq freeBlocks \ {i}
    BY <1>1, <1>2
  <1> HIDE DEF pointers, i, b
  <1>7. /\ l \in BlockWrite /\ l.at = FreeBlockListIndex
        /\ l.contents.is = "map" /\ l.contents.free = freeBlocks \ {i}
        /\ m \in BlockWrite /\ m.at = FreeBlockListIndex
        /\ m.contents.is = "map" /\ m.contents.free = freeBlocks'
        /\ w \in BlockWrite /\ w.at = i
    BY <1>3, <1>5, <1>6, WriteParts
  <1> HIDE DEF x, m, l, w
  <1>8. pending' = << l, m, w, x >>
    <2>1. << l, m, w, x >> = Append(<< l, m, w >>, x)
      OBVIOUS
    <2>2. QED
      BY <1>1, <2>1, Zenon
  <1>9. Between(DiskToBe) /\ FreeOn(DiskToBe) = freeBlocks
    BY BetweenBegins
  <1>10. Between(Put(DiskToBe, l)) /\ FreeOn(Put(DiskToBe, l)) = freeBlocks \ {i}
    BY <1>6, <1>7, <1>9, Places, BetweenGoesOn
  <1>11. PICK d1 : d1 = Put(DiskToBe, l)
    OBVIOUS
  <1>12. Between(Put(d1, m))
    BY <1>6, <1>7, <1>10, <1>11, Places, BetweenGoesOn
  <1>13. PICK d2 : d2 = Put(d1, m)
    OBVIOUS
  <1>14. Between(Put(d2, w))
    BY <1>3, <1>7, <1>12, <1>13, Places, BetweenGoesOn
  <1>15. OthersStay /\ SameWrite
    BY IterationStays
  <1>16. FoundNext(d1, 3) /\ FoundNext(d2, 2) /\ FoundNext(Put(d2, w), 1)
    BY <1>10, <1>11, <1>12, <1>13, <1>14, <1>15, BetweenFound DEF FoundNext
  <1>17. QED
    BY <1>1, <1>8, <1>11, <1>13, <1>15, <1>16, FourWritesLeft

(* The pointer is added to those of the file, and points to a block that   *)
(* is taken in the map; the data comes last.                               *)
LEMMA NewIndirectCrash ==
  ASSUME Settled, Settled', Room, Room', WriteNewIndirect
  PROVE  CrashInv'
  <1> DEFINE b == Min(freeBlocks)
             k == blockIndex
             fd == call.fd
             i == Indirect
             old == IndirectPointers(fd)
             pointers == [old EXCEPT ![k - DIRECT_POINTERS] = b]
             bytes == SubSeq(call.fileData, k * DISK_BLOCK_SIZE + 1,
                             (k + 1) * DISK_BLOCK_SIZE)
             m == MapWrite(freeBlocks')
             w == At(i, PointerBlock(pointers))
             x == At(b, DataBlock(bytes))
             d == DiskToBe
             d1 == Put(d, m)
             d2 == Put(d1, w)
  <1>0. /\ IInv /\ BlockInv(SavedSlots) /\ Covers(SavedSlots)
        /\ SavedSlots \in SUBSET Slot /\ Sub(SavedSlots, Saved)
        /\ call.fd \in SavedSlots
    <2>1. call.op = "sfs_fwrite"
      BY DEF WriteNewIndirect, Writing
    <2>2. QED
      BY <2>1, SettledParts, SubTables DEF Covers
  <1>1. /\ Writing /\ MoreBlocks
        /\ k \in DIRECT_POINTERS .. DIRECT_POINTERS + INDIRECT_POINTERS - 1
        /\ i >= 0 /\ i = iNodes[fd].indirect /\ BlockNumber(fd, k) < 0
        /\ freeBlocks # {} /\ freeBlocks' = freeBlocks \ {b}
        /\ WriteData(<< m, w >>, b)
    BY DEF WriteNewIndirect, Indirect
  <1>2. fd \in SavedSlots /\ fd \in Slot /\ k \in Nat /\ bytes \in Bytes
    BY <1>0, <1>1, WriteInProgress, DataOfBlock
  <1>3. /\ iNodes \in Tables /\ freeBlocks \in SUBSET Allocatable /\ d \in Disks
        /\ freeBlocks \subseteq FreshMap /\ Saved \in Tables
    BY <1>0, Typed DEF BlockInv, Sound, Sub
  <1>4. /\ b \in freeBlocks /\ b \in Block /\ b \in SoundPointer /\ b # -1
        /\ b # iNodeTableIndex /\ b # FreeBlockListIndex
    BY <1>1, <1>3, LowestFree, Places
  <1>5. pending = << >> /\ pending' = Append(<< m, w >>, x) /\ disk' = disk
    BY <1>1 DEF WriteData, Writing
  <1>6. /\ old \in Pointers /\ PointersIn(d[i]) = old
        /\ old[k - DIRECT_POINTERS] = BlockNumber(fd, k)
    <2>1. ~(k < DIRECT_POINTERS)
      BY <1>1, <1>2, RoleNumbers
    <2>2. QED
      BY <1>0, <1>1, <1>2, <2>1, BlockNumbers, HeldInMemory DEF IInv, BlockNumber
  <1>7. i \in FreshMap \ freeBlocks /\ i \in Block /\ i # -1 /\ i # RootDirectoryIndex
        /\ i # iNodeTableIndex /\ i # FreeBlockListIndex
    <2>1. i \in FreshMap \ freeBlocks
      BY <1>0, <1>1, <1>2, OwnBlocks
    <2>2. QED
      BY <2>1, Places DEF Room
  <1>8. k - DIRECT_POINTERS \in 0 .. INDIRECT_POINTERS - 1
    BY <1>1, <1>2, RoleNumbers
  <1>9. /\ pointers \in Pointers
        /\ \A j \in 0 .. INDIRECT_POINTERS - 1 : old[j] >= 0 => pointers[j] = old[j]
    <2>1. /\ pointers \in Pointers
          /\ \A j \in 0 .. INDIRECT_POINTERS - 1 :
               pointers[j] = IF j = k - DIRECT_POINTERS THEN b ELSE old[j]
      BY <1>4, <1>6, <1>8 DEF Pointers
    <2>2. ~(old[k - DIRECT_POINTERS] >= 0)
      <3>1. old[k - DIRECT_POINTERS] \in SoundPointer
        BY <1>6, <1>8 DEF Pointers
      <3>2. QED
        BY <1>1, <1>6, <3>1, Sizes
    <2>3. QED
      BY <1>8, <2>1, <2>2
  <1>10. Held(iNodes, d, fd, IndirectRole) = i
    BY <1>1, RoleNumbers DEF Held, IndirectRole
  <1>11. freeBlocks' \in SUBSET Allocatable /\ freeBlocks' \subseteq freeBlocks
    BY <1>1, <1>3
  <1> HIDE DEF b, bytes, k, fd, i, old, pointers
  <1>12. /\ x \in BlockWrite /\ x.at = b
         /\ m \in BlockWrite /\ m.at = FreeBlockListIndex
         /\ m.contents.is = "map" /\ m.contents.free = freeBlocks'
         /\ w \in BlockWrite /\ PointersIn(w.contents) = pointers /\ w.at = i
    BY <1>2, <1>4, <1>7, <1>9, <1>11, WriteParts
  <1> HIDE DEF x, m, w
  <1>13. pending' = << m, w, x >>
    BY <1>5, DataLast
  <1>14. Between(d1)
    <2>1. Between(d) /\ FreeOn(d) = freeBlocks
      BY BetweenBegins
    <2>2. QED
      BY <1>11, <1>12, <2>1, Places, BetweenGoesOn
  <1>15. /\ d1 \in Disks /\ CanMount(d1) /\ TableOn(d1) = Saved
         /\ SparedOn(d1, directoryEntries, FileContents, -1) /\ WrittenOn(d1, call)
         /\ \A s \in SavedSlots, r \in Roles : Held(Saved, d1, s, r) = Held(Saved, d, s, r)
    BY <1>14 DEF Between
  <1>16. d1[i] = d[i]
    BY <1>3, <1>7, <1>12, PutIs DEF Disks
  <1> HIDE DEF d1
  <1>17. /\ d2 \in Disks /\ d2[iNodeTableIndex] = d1[iNodeTableIndex]
         /\ d2[RootDirectoryIndex] = d1[RootDirectoryIndex]
         /\ d2[FreeBlockListIndex] = d1[FreeBlockListIndex]
    BY <1>7, <1>12, <1>15, PutIs, Places DEF Disks
  <1>18. ASSUME NEW s \in SavedSlots PROVE Keeps(Saved, d1, Saved, d2, s, -1)
    <2>1. \A r \in DataRoles : Held(Saved, d, s, r) # i
      BY <1>0, <1>2, <1>7, <1>10, OneRole, RoleNumbers
    <2>2. \A r \in DataRoles : Held(Saved, d1, s, r) # w.at
      BY <1>12, <1>15, <2>1 DEF DataRoles
    <2>3. \A j \in 0 .. INDIRECT_POINTERS - 1 :
            PointersIn(d1[w.at])[j] >= 0
              => PointersIn(w.contents)[j] = PointersIn(d1[w.at])[j]
      BY <1>6, <1>9, <1>12, <1>16
    <2>4. QED
      BY <1>0, <1>3, <1>12, <1>15, <2>2, <2>3, PointersKeep
  <1> HIDE DEF d2
  <1>19. /\ CanMount(d2) /\ TableOn(d2) = Saved
         /\ SparedOn(d2, directoryEntries, FileContents, -1)
    <2>1. NamesOn(d2) = NamesOn(d1)
      BY <1>17 DEF NamesOn
    <2>2. d2[RootDirectoryIndex].is = "directory" /\ d2[FreeBlockListIndex].is = "map"
      BY <1>15, <1>17 DEF CanMount
    <2>3. QED
      BY <1>15, <1>17, <1>18, <2>1, <2>2, StillSpared
  <1>20. WrittenOn(d2, call)
    <2>1. d2[FreeBlockListIndex].is = "map"
      BY <1>15, <1>17 DEF CanMount
    <2>2. QED
      BY <1>15, <1>17, <1>18, <2>1, StillWritten, SlotWritten
  <1>21. SoundOn(d2)
    <2>1. DiskToBe' = Put(d2, x)
      BY <1>0, <1>5, <1>12, WithDataLast DEF IInv, d1, d2, d
    <2>2. SoundOn(Put(d2, x))
      BY <2>1, SettledFoundNext DEF DiskFound
    <2>3. \A s \in SavedSlots : Saved[s].indirect # b
      BY <1>0, <1>4, NoRole
    <2>4. QED
      BY <1>3, <1>4, <1>12, <1>17, <1>19, <2>2, <2>3, SoundBeforeData
  <1>22. OthersStay /\ SameWrite
    BY IterationStays
  <1>23. FoundNext(d1, 2)
    BY <1>14, <1>22, BetweenFound DEF FoundNext
  <1>24. FoundNext(d2, 1)
    <2>1. SparedOn(d2, directoryEntries, FileContents, call'.fd)
      BY <1>19, SparedButOne
    <2>2. QED
      BY <1>19, <1>20, <1>21, <1>22, <2>1, StillHeld DEF Found, FoundNext
  <1>25. QED
    BY <1>5, <1>13, <1>22, <1>23, <1>24, ThreeWrites DEF d, d1, d2

-----------------------------------------------------------------------------
(* The steps that save the i-node table.                                   *)

LEMMA WriteEndsCrash ==
  ASSUME Settled, Settled', Room, WriteEnds
  PROVE  CrashInv'
  <1>1. /\ pending = << >> /\ disk' = disk /\ pending' = << TableWrite(iNodes') >>
    BY DEF WriteEnds, Writing
  <1>2. OthersStay /\ SameWrite
    BY WriteEndsStays
  <1>3. QED
    BY <1>1, <1>2, OneWrite

(* A new file has its i-node before its name. *)
LEMMA OpenNewCrash ==
  ASSUME Settled, Settled', Room, NEW n \in Name, OpenNew(n)
  PROVE  CrashInv'
  <1>0. PICK f \in Slot : f = Min(EmptySlots)
    BY SettledParts, SlotTaken
  <1> DEFINE u == WithSize(iNodes, f, 0)
             x == TableWrite(u)
             d == DiskToBe
             e == Put(d, x)
  <1>1. /\ pending = << >> /\ disk' = disk
        /\ pending' = << x, DirectoryWrite(directoryEntries') >>
        /\ call' = [op |-> "sfs_fopen", fd |-> f]
    BY <1>0 DEF OpenNew, WithSize, Idle
  <1>2. /\ IInv /\ BlockInv(SavedSlots) /\ SavedSlots \in SUBSET Slot
        /\ Sub(SavedSlots, iNodes) /\ d \in Disks /\ iNodes \in Tables
        /\ f \notin Named /\ Named \subseteq SavedSlots
    BY <1>0, SettledParts, SubTables, Typed, SlotTaken DEF Settled, TablesFit
  <1>3. /\ u \in Tables
        /\ \A s \in Slot, r \in Roles : Held(u, e, s, r) = Held(iNodes, e, s, r)
    <2>1. 0 \in 0 .. MaxFileSize \cup {-1}
      BY Sizes
    <2>2. QED
      BY <1>2, <2>1, SizeChanged
  <1>4. \A s \in Slot : s # f => u[s].size = iNodes[s].size
    BY <1>2 DEF WithSize, Tables
  <1> HIDE DEF u
  <1>5. /\ x \in BlockWrite /\ x.at = iNodeTableIndex
        /\ x.contents.is = "inodes" /\ x.contents.inodes = u
    BY <1>3, WriteParts
  <1> HIDE DEF x
  <1>6. /\ e[iNodeTableIndex] = x.contents
        /\ e[RootDirectoryIndex] = d[RootDirectoryIndex]
        /\ e[FreeBlockListIndex] = d[FreeBlockListIndex]
    BY <1>2, <1>5, PutIs, Places DEF Disks
  <1>7. ASSUME NEW s \in SavedSlots
        PROVE  /\ Keeps(iNodes, d, iNodes, e, s, -1)
               /\ \A r \in Roles : Held(iNodes, e, s, r) = Held(iNodes, d, s, r)
    <2>1. \A r \in Roles : Held(iNodes, d, s, r) # x.at
      BY <1>2, <1>5, NoRole, Places
    <2>2. QED
      BY <1>2, <1>5, <2>1, ApartKeeps
  <1> HIDE DEF e
  <1>8. ASSUME NEW s \in SavedSlots PROVE Keeps(iNodes, d, u, e, s, -1)
    <2>1. Keeps(iNodes, e, u, e, s, -1)
      BY <1>2, <1>3, TableKeeps DEF DataRoles
    <2>2. QED
      BY <1>7, <2>1, KeepsBoth
  <1>9. /\ TableOn(e) = u /\ FreeOn(e) = freeBlocks
        /\ e[iNodeTableIndex].is = "inodes" /\ e[FreeBlockListIndex].is = "map"
    <2>1. DiskFound /\ d[FreeBlockListIndex].is = "map"
      BY SettledFound DEF Settled, MapKept
    <2>2. QED
      BY <1>5, <1>6, <2>1 DEF TableOn, FreeOn, DiskFound
  <1>10. CanMount(e) /\ SparedOn(e, directoryEntries, FileContents, -1)
    <2>1. \A s \in Named : s \in SavedSlots /\ s \in Slot /\ s # f
      BY <1>2
    <2>2. \A s \in Named : /\ TableOn(e)[s].size = iNodes[s].size
                           /\ Keeps(iNodes, d, TableOn(e), e, s, -1)
      BY <1>4, <1>8, <1>9, <2>1
    <2>3. QED
      BY <1>6, <1>9, <2>2, SparedFrom
  <1>11. SoundOn(e)
    <2>1. \A s \in SavedSlots, r \in Roles : Held(u, e, s, r) \in {-1, Held(iNodes, d, s, r)}
      BY <1>2, <1>3, <1>7
    <2>2. Sound(SavedSlots, iNodes, d, freeBlocks)
      BY <1>2 DEF BlockInv
    <2>3. Sound(SavedSlots, u, e, freeBlocks)
      BY <1>2, <2>1, <2>2, SoundWhenLost
    <2>4. QED
      BY <1>9, <2>3 DEF SoundOn
  <1>12. OthersStay /\ SameWrite
    BY OpenNewStays
  <1>13. FoundNext(e, 1)
    <2>1. SparedOn(e, directoryEntries', FileContents', call'.fd)
      BY <1>10, <1>12, SparedButOne, StillHeld
    <2>2. WrittenOn(e, call')
      BY <1>1 DEF WrittenOn
    <2>3. QED
      BY <1>10, <1>11, <2>1, <2>2 DEF Found, FoundNext
  <1>14. QED
    BY <1>1, <1>12, <1>13, TwoWrites DEF e, d

(* A file is out of the directory before its blocks are free. *)
LEMMA RemoveFileCrash ==
  ASSUME Settled, Settled', Room, NEW n \in Name, RemoveFile(n)
  PROVE  CrashInv'
  <1>0. PICK f \in Slot : f = Min(SlotsOf(n))
    BY SettledParts, SlotLeft
  <1> DEFINE x == DirectoryWrite(directoryEntries')
             y == MapWrite(freeBlocks')
             d == DiskToBe
             d1 == Put(d, x)
             d2 == Put(d1, y)
  <1>1. /\ pending = << >> /\ disk' = disk
        /\ pending' = << x, y, TableWrite(iNodes') >>
        /\ call' = [op |-> "sfs_remove", fd |-> f]
        /\ directoryEntries' = [directoryEntries EXCEPT ![f] = Empty]
    BY <1>0 DEF RemoveFile, Idle
  <1>2. /\ IInv /\ BlockInv(SavedSlots) /\ SavedSlots \in SUBSET Slot
        /\ Sub(SavedSlots, Saved) /\ d \in Disks /\ Saved \in Tables
        /\ directoryEntries \in Names
    BY SettledParts, SubTables, Typed DEF Sub, IInv, MemoryOK
  <1>3. directoryEntries' \in Names /\ freeBlocks' \in SUBSET Allocatable
    BY SettledPartsNext DEF IInv, MemoryOK
  <1>4. /\ x \in BlockWrite /\ x.at = RootDirectoryIndex
        /\ x.contents = DirectoryBlock(directoryEntries')
        /\ y \in BlockWrite /\ y.at = FreeBlockListIndex /\ y.contents.is = "map"
    BY <1>3, WriteParts
  <1> HIDE DEF x, y
  <1>5. /\ CanMount(d) /\ SoundOn(d) /\ TableOn(d) = Saved /\ FreeOn(d) = freeBlocks
        /\ SparedOn(d, directoryEntries, FileContents, f)
        /\ NamesOn(d) = directoryEntries
    <2>1. DiskFound /\ FilesInv
      BY SettledFound, SettledParts
    <2>2. NamesOn(d) = directoryEntries
      BY <2>1 DEF FilesInv, NamesOn, DirectoryBlock
    <2>3. QED
      BY <2>1, <2>2, SparedButOne DEF DiskFound
  <1>6. /\ d1 \in Disks /\ d1[iNodeTableIndex] = d[iNodeTableIndex]
        /\ d1[FreeBlockListIndex] = d[FreeBlockListIndex]
        /\ d1[RootDirectoryIndex] = x.contents
    BY <1>2, <1>4, PutIs, Places DEF Disks
  <1>7. ASSUME NEW s \in SavedSlots
        PROVE  /\ Keeps(Saved, d, Saved, d1, s, -1)
               /\ \A r \in Roles : /\ Held(Saved, d1, s, r) = Held(Saved, d, s, r)
                                   /\ Held(Saved, d1, s, r) # FreeBlockListIndex
    <2>1. \A r \in Roles : /\ Held(Saved, d, s, r) # RootDirectoryIndex
                           /\ Held(Saved, d, s, r) # FreeBlockListIndex
      BY <1>2, NoRole, Places DEF Room
    <2>2. QED
      BY <1>2, <1>4, <2>1, ApartKeeps
  <1> HIDE DEF d1
  <1>8. /\ NamesOn(d1) = directoryEntries' /\ d1[RootDirectoryIndex].is = "directory"
        /\ d1[FreeBlockListIndex].is = "map"
    BY <1>4, <1>5, <1>6 DEF NamesOn, DirectoryBlock, CanMount
  <1>9. /\ \A s \in Slot : NamesOn(d1)[s] \in {NamesOn(d)[s], Empty}
        /\ \A s \in Slot \ {f} : NamesOn(d1)[s] = NamesOn(d)[s]
    BY <1>1, <1>2, <1>5, <1>8 DEF Names
  <1>10. /\ CanMount(d1) /\ TableOn(d1) = Saved
         /\ SparedOn(d1, directoryEntries, FileContents, f)
    BY <1>2, <1>5, <1>6, <1>7, <1>8, <1>9, StillSpared
  <1>11. SoundOn(d1)
    <2>1. \A s \in SavedSlots, r \in Roles :
            Held(Saved, d1, s, r) \in {-1, Held(Saved, d, s, r)}
      BY <1>7
    <2>2. Sound(SavedSlots, Saved, d, freeBlocks)
      BY <1>5 DEF SoundOn
    <2>3. Sound(SavedSlots, Saved, d1, freeBlocks)
      BY <1>2, <2>1, <2>2, SoundWhenLost
    <2>4. FreeOn(d1) = freeBlocks
      BY <1>5, <1>6 DEF FreeOn
    <2>5. QED
      BY <1>10, <2>3, <2>4 DEF SoundOn
  <1>12. CanMount(d2) /\ SparedOn(d2, directoryEntries, FileContents, f)
    <2>1. /\ d2[iNodeTableIndex] = d1[iNodeTableIndex]
          /\ d2[RootDirectoryIndex] = d1[RootDirectoryIndex]
          /\ d2[FreeBlockListIndex].is = "map"
      BY <1>4, <1>6, PutIs, Places DEF Disks
    <2>2. \A s \in SavedSlots : Keeps(Saved, d1, Saved, d2, s, -1)
      BY <1>2, <1>4, <1>6, <1>7, ApartKeeps
    <2>3. NamesOn(d2) = NamesOn(d1) /\ d2[RootDirectoryIndex].is = "directory"
      BY <1>8, <2>1 DEF NamesOn
    <2> HIDE DEF d2
    <2>4. QED
      BY <1>6, <1>10, <2>1, <2>2, <2>3, StillSpared
  <1>13. OthersStay /\ SameWrite
    BY RemoveFileStays
  <1>14. /\ SparedOn(d1, directoryEntries', FileContents', call'.fd)
         /\ SparedOn(d2, directoryEntries', FileContents', call'.fd)
    BY <1>1, <1>10, <1>12, <1>13, StillHeld
  <1>15. \A c : WrittenOn(c, call')
    BY <1>1 DEF WrittenOn
  <1>16. FoundNext(d1, 2) /\ FoundNext(d2, 1)
    BY <1>1, <1>10, <1>11, <1>12, <1>14, <1>15 DEF Found, FoundNext
  <1>17. QED
    BY <1>1, <1>13, <1>16, ThreeWrites DEF d, d1, d2

-----------------------------------------------------------------------------
(* Every step of a process.                                                *)

(* The map is saved as long as what is written over it is a map. *)
LEMMA MapWritten ==
  ASSUME DiskOK, DiskOK', pending = << >>, disk' = disk, MapKept,
         \A k \in DOMAIN pending' :
           pending'[k].at = FreeBlockListIndex => pending'[k].contents.is = "map"
  PROVE  MapKept'
  <1> DEFINE writes == {k \in DOMAIN pending' : pending'[k].at = FreeBlockListIndex}
  <1>1. disk[FreeBlockListIndex].is = "map"
    BY NothingPending DEF MapKept
  <1>2. DiskToBe'[FreeBlockListIndex]
          = IF writes = {} THEN disk[FreeBlockListIndex] ELSE pending'[Max(writes)].contents
    BY Places DEF DiskToBe, Latest
  <1>3. pending' \in Seq(BlockWrite)
    BY DEF DiskOK
  <1>4. writes \in SUBSET (0 .. Len(pending')) /\ Len(pending') \in Nat
    BY <1>3
  <1>5. writes # {} => Max(writes) \in writes
    BY <1>4, MaxIsMember
  <1>6. QED
    BY <1>1, <1>2, <1>5 DEF MapKept

(* Nothing is written, or nothing changes on the disk. *)
LEMMA MapUntouched ==
  ASSUME MapKept, UNCHANGED << disk, pending >>
  PROVE  MapKept'
  BY DEF MapKept, DiskToBe, Latest

(* The writes of an iteration. *)
LEMMA IterationMap ==
  ASSUME Settled, Room, Room', IInv',
         WriteKnownBlock \/ WriteNewDirect \/ WriteNewIndirect \/ WriteFirstIndirect
  PROVE  MapKept'
  <1> DEFINE Put1(b) == At(b, DataBlock(DataOf(blockIndex)))
  <1>1. /\ DiskOK /\ DiskOK' /\ MapKept /\ IInv /\ BlockInv(SavedSlots)
        /\ SavedSlots \in SUBSET Slot /\ Covers(SavedSlots)
        /\ freeBlocks \in SUBSET Allocatable /\ freeBlocks \subseteq FreshMap
    BY SettledParts, Typed DEF IInv, BlockInv, Sound
  <1>2. /\ pending = << >> /\ disk' = disk /\ call.fd \in SavedSlots
        /\ blockIndex \in Nat
    <2>1. Writing
      BY DEF WriteKnownBlock, WriteNewDirect, WriteNewIndirect, WriteFirstIndirect
    <2>2. call.op = "sfs_fwrite" /\ blockIndex \in Nat
      BY <1>1, <2>1, WriteInProgress DEF Writing
    <2>3. QED
      BY <1>1, <2>1, <2>2 DEF Covers, Writing, WriteKnownBlock, WriteNewDirect,
                              WriteNewIndirect, WriteFirstIndirect, WriteData
  <1>3. \A b : Put1(b).at = b
    BY DEF At
  <1>4. \A b : MapWrite(b).contents.is = "map"
    BY DEF MapWrite, At, MapBlock
  <1>5. CASE WriteKnownBlock
    <2>1. PICK b : b = BlockNumber(call.fd, blockIndex)
      OBVIOUS
    <2>2. pending' = Append(<< >>, Put1(b))
      BY <1>5, <2>1 DEF WriteKnownBlock, WriteData, DataOf
    <2>3. b # FreeBlockListIndex
      <3>1. blockIndex \in 0 .. DIRECT_POINTERS + INDIRECT_POINTERS - 1
        BY <1>2, <1>5, RoleNumbers DEF WriteKnownBlock
      <3>2. b \in FreshMap
        BY <1>1, <1>2, <1>5, <2>1, <3>1, OwnBlocks DEF WriteKnownBlock
      <3>3. QED
        BY <3>2, Places
    <2> HIDE DEF Put1
    <2>4. \A k \in DOMAIN pending' : pending'[k].at # FreeBlockListIndex
      BY <1>3, <2>2, <2>3
    <2>5. QED
      BY <1>1, <1>2, <2>4, MapWritten
  <1>6. CASE WriteNewDirect
    <2>1. PICK b : b = Min(freeBlocks)
      OBVIOUS
    <2>2. PICK m : m = MapWrite(freeBlocks')
      OBVIOUS
    <2>3. pending' = Append(<< m >>, Put1(b)) /\ freeBlocks # {}
      BY <1>6, <2>1, <2>2 DEF WriteNewDirect, WriteData, DataOf
    <2>4. b # FreeBlockListIndex
      BY <1>1, <2>1, <2>3, LowestFree, Places
    <2> HIDE DEF Put1
    <2>5. \A k \in DOMAIN pending' : pending'[k] \in {m, Put1(b)}
      BY <2>3
    <2>6. QED
      BY <1>1, <1>2, <1>3, <1>4, <2>2, <2>4, <2>5, MapWritten
  <1>7. CASE WriteNewIndirect
    <2>1. PICK b : b = Min(freeBlocks)
      OBVIOUS
    <2>2. PICK m : m = MapWrite(freeBlocks')
      OBVIOUS
    <2>3. PICK w : w = At(Indirect, PointerBlock(
            [IndirectPointers(call.fd) EXCEPT ![blockIndex - DIRECT_POINTERS] = b]))
      OBVIOUS
    <2>4. /\ pending' = Append(<< m, w >>, Put1(b)) /\ freeBlocks # {}
          /\ Indirect >= 0
      BY <1>7, <2>1, <2>2, <2>3 DEF WriteNewIndirect, WriteData, DataOf
    <2>5. b # FreeBlockListIndex
      BY <1>1, <2>1, <2>4, LowestFree, Places
    <2>6. w.at # FreeBlockListIndex
      <3>1. Indirect \in FreshMap
        BY <1>1, <1>2, <2>4, OwnBlocks DEF Indirect
      <3>2. QED
        BY <2>3, <3>1, Places DEF At
    <2> HIDE DEF Put1
    <2>7. \A k \in DOMAIN pending' : pending'[k] \in {m, w, Put1(b)}
      BY <2>4
    <2>8. QED
      BY <1>1, <1>2, <1>3, <1>4, <2>2, <2>5, <2>6, <2>7, MapWritten
  <1>8. CASE WriteFirstIndirect
    <2>1. PICK i : i = Min(freeBlocks)
      OBVIOUS
    <2>2. PICK b : b = Min(freeBlocks \ {i})
      OBVIOUS
    <2>3. PICK l : l = MapWrite(freeBlocks \ {i})
      OBVIOUS
    <2>4. PICK m : m = MapWrite(freeBlocks')
      OBVIOUS
    <2>5. PICK w : w = At(i, PointerBlock([NoPointers EXCEPT ![0] = b]))
      OBVIOUS
    <2>6. pending' = Append(<< l, m, w >>, Put1(b)) /\ Cardinality(freeBlocks) >= 2
      BY <1>8, <2>1, <2>2, <2>3, <2>4, <2>5 DEF WriteFirstIndirect, WriteData, DataOf
    <2>7. b # FreeBlockListIndex /\ i # FreeBlockListIndex
      <3>1. freeBlocks # {} /\ freeBlocks \ {i} # {}
            /\ freeBlocks \ {i} \in SUBSET Allocatable
        BY <1>1, <2>1, <2>6, TwoFree
      <3>2. i \in freeBlocks /\ b \in freeBlocks \ {i}
        BY <1>1, <2>1, <2>2, <3>1, LowestFree
      <3>3. QED
        BY <1>1, <3>2, Places
    <2>8. w.at # FreeBlockListIndex
      BY <2>5, <2>7 DEF At
    <2> HIDE DEF Put1
    <2>9. \A k \in DOMAIN pending' : pending'[k] \in {l, m, w, Put1(b)}
      BY <2>6
    <2>10. QED
      BY <1>1, <1>2, <1>3, <1>4, <2>3, <2>4, <2>7, <2>8, <2>9, MapWritten
  <1>9. QED
    BY <1>5, <1>6, <1>7, <1>8

LEMMA MapInductive ==
  ASSUME Settled, Room, Room', IInv', [Process]_vars
  PROVE  MapKept'
  <1>1. DiskOK /\ DiskOK' /\ MapKept /\ IInv
    BY SettledParts DEF IInv
  <1>2. ASSUME NEW n \in Name, OpenNew(n) PROVE MapKept'
    <2>1. /\ pending = << >> /\ disk' = disk
          /\ pending' = << TableWrite(iNodes'), DirectoryWrite(directoryEntries') >>
      BY <1>2 DEF OpenNew, Idle
    <2>2. \A k \in DOMAIN pending' : pending'[k].at # FreeBlockListIndex
      BY <2>1, Places DEF TableWrite, DirectoryWrite, At
    <2>3. QED
      BY <1>1, <2>1, <2>2, MapWritten
  <1>3. ASSUME NEW n \in Name, RemoveFile(n) PROVE MapKept'
    <2>1. /\ pending = << >> /\ disk' = disk
          /\ pending' = << DirectoryWrite(directoryEntries'), MapWrite(freeBlocks'),
                           TableWrite(iNodes') >>
      BY <1>3 DEF RemoveFile, Idle
    <2>2. \A k \in DOMAIN pending' :
            pending'[k].at = FreeBlockListIndex => pending'[k].contents.is = "map"
      BY <2>1, Places DEF TableWrite, DirectoryWrite, MapWrite, At, MapBlock
    <2>3. QED
      BY <1>1, <2>1, <2>2, MapWritten
  <1>4. CASE WriteEnds
    <2>1. /\ pending = << >> /\ disk' = disk /\ pending' = << TableWrite(iNodes') >>
      BY <1>4 DEF WriteEnds, Writing
    <2>2. \A k \in DOMAIN pending' : pending'[k].at # FreeBlockListIndex
      BY <2>1, Places DEF TableWrite, At
    <2>3. QED
      BY <1>1, <2>1, <2>2, MapWritten
  <1>5. CASE \/ FileTooLarge \/ NoBlockLeft \/ NoBlockForFirstPointer
             \/ NoBlockForPointers
    <2>1. FileTooLarge
      BY <1>5, SettledParts, FailureWhole
    <2>2. QED
      BY <1>1, <2>1, MapUntouched DEF FileTooLarge, WriteFails, Writing
  <1>6. CASE WriteLoop
    BY <1>4, <1>5, <1>6, IterationMap DEF WriteLoop
  <1>7. CASE Flush
    <2>1. DiskToBe' = DiskToBe
      BY <1>1, <1>7, FlushedTheSame
    <2>2. QED
      BY <1>1, <2>1 DEF MapKept
  <1>8. CASE mksfs_fresh
    <2>1. disk' = FreshDisk /\ pending' = << >>
      BY <1>8 DEF mksfs_fresh, Idle
    <2>2. DiskToBe' = FreshDisk
      BY <2>1, FreshBlocks, NothingPendingNext
    <2>3. QED
      BY <2>2, FreshBlocks DEF MapKept
  <1>9. CASE Remount \/ UNCHANGED vars
    BY <1>1, <1>9, MapUntouched DEF Remount, vars
  <1>10. CASE Refuse
    BY <1>1, <1>10, MapUntouched DEF Refuse
  <1>11. ASSUME NEW fd, NEW to, NEW outcome, MovePointer(fd, to, outcome)
         PROVE  MapKept'
    BY <1>1, <1>11, MapUntouched DEF MovePointer
  <1>12. ASSUME NEW n \in Name, sfs_fopen(n) \/ sfs_remove(n) PROVE MapKept'
    <2>1. CASE OpenExisting(n) \/ OpenFails(n)
      BY <1>1, <2>1, MapUntouched DEF OpenExisting, OpenFails
    <2>2. QED
      BY <1>2, <1>3, <1>10, <1>12, <2>1 DEF sfs_fopen, sfs_remove
  <1>13. ASSUME NEW fd \in Slot,
                \/ sfs_fclose(fd)
                \/ \E location \in 0 .. MaxFileSize : sfs_fseek(fd, location)
                \/ \E count \in 0 .. MaxCount : sfs_fread(fd, count)
         PROVE  MapKept'
    BY <1>10, <1>11, <1>13 DEF sfs_fclose, sfs_fseek, sfs_fread
  <1>14. ASSUME NEW fd \in Slot, NEW buf \in Buffer, sfs_fwrite(fd, buf) PROVE MapKept'
    <2>1. CASE WriteBegins(fd, buf)
      BY <1>1, <2>1, MapUntouched DEF WriteBegins
    <2>2. QED
      BY <1>10, <1>14, <2>1 DEF sfs_fwrite
  <1>15. QED
    BY <1>6, <1>7, <1>8, <1>9, <1>12, <1>13, <1>14 DEF Process, Call

(* A step in which nothing happens. *)
LEMMA NothingCrash ==
  ASSUME Settled, Settled', CrashInv, UNCHANGED vars
  PROVE  CrashInv'
  <1>1. /\ iNodes' = iNodes /\ directoryEntries' = directoryEntries /\ call' = call
        /\ disk' = disk /\ pending' = pending
    BY DEF vars, memory
  <1>2. DiskToBe' = DiskToBe
    BY <1>1 DEF DiskToBe, Latest
  <1>3. \A s \in Named : Content(s)' = Content(s)
    BY <1>1, <1>2, SettledParts, SettledPartsNext, SameContent
  <1>4. OthersStay /\ SameWrite
    BY <1>1, <1>3 DEF OthersStay, SameWrite
  <1>5. ASSUME NEW j \in 0 .. Len(pending)
        PROVE  FoundNext(After(j)', Len(pending) - j)
    <2>1. After(j)' = After(j)
      BY <1>1 DEF After
    <2>2. PICK d : d = After(j)
      OBVIOUS
    <2>3. Found(d, Len(pending) - j, directoryEntries, FileContents, call)
      BY <2>2 DEF CrashInv
    <2>4. SparedOn(d, directoryEntries', FileContents', call'.fd) /\ WrittenOn(d, call')
      BY <1>1, <1>4, <2>3, StillHeld DEF Found
    <2>5. QED
      BY <1>1, <2>1, <2>2, <2>3, <2>4 DEF Found, FoundNext
  <1>6. QED
    BY <1>1, <1>5 DEF CrashInv, FoundNext

(* Every step of a process leaves disks that a new one can mount. *)
LEMMA CrashInductive ==
  ASSUME Settled, Settled', CrashInv, Room, Room', [Process]_vars
  PROVE  CrashInv'
  <1>1. ASSUME pending' = << >> PROVE CrashInv'
    BY <1>1, SettledCrashNext
  <1>2. Refuse => pending' = << >>
    BY DEF Refuse, Idle
  <1>3. \A fd, to, outcome : MovePointer(fd, to, outcome) => pending' = << >>
    BY DEF MovePointer, Idle
  <1>4. ASSUME NEW n \in Name, sfs_fopen(n) \/ sfs_remove(n) PROVE CrashInv'
    <2>1. CASE OpenNew(n)
      BY <2>1, OpenNewCrash
    <2>2. CASE RemoveFile(n)
      BY <2>2, RemoveFileCrash
    <2>3. CASE OpenExisting(n) \/ OpenFails(n)
      BY <1>1, <2>3 DEF OpenExisting, OpenFails, Idle
    <2>4. QED
      BY <1>1, <1>2, <1>4, <2>1, <2>2, <2>3 DEF sfs_fopen, sfs_remove
  <1>5. ASSUME NEW fd \in Slot,
                \/ sfs_fclose(fd)
                \/ \E location \in 0 .. MaxFileSize : sfs_fseek(fd, location)
                \/ \E count \in 0 .. MaxCount : sfs_fread(fd, count)
        PROVE  CrashInv'
    BY <1>1, <1>2, <1>3, <1>5 DEF sfs_fclose, sfs_fseek, sfs_fread
  <1>6. ASSUME NEW fd \in Slot, NEW buf \in Buffer, sfs_fwrite(fd, buf) PROVE CrashInv'
    <2>1. CASE WriteBegins(fd, buf)
      BY <1>1, <2>1 DEF WriteBegins, Idle
    <2>2. QED
      BY <1>1, <1>2, <1>6, <2>1 DEF sfs_fwrite
  <1>7. CASE \/ FileTooLarge \/ NoBlockLeft \/ NoBlockForFirstPointer
             \/ NoBlockForPointers
    <2>1. FileTooLarge
      BY <1>7, SettledParts, FailureWhole
    <2>2. QED
      BY <1>1, <2>1 DEF FileTooLarge, WriteFails
  <1>8. CASE WriteLoop
    BY <1>7, <1>8, KnownBlockCrash, NewDirectCrash, NewIndirectCrash,
       FirstIndirectCrash, WriteEndsCrash DEF WriteLoop
  <1>9. CASE Flush
    BY <1>9, FlushCrash
  <1>10. CASE mksfs_fresh \/ Remount
    BY <1>1, <1>10 DEF mksfs_fresh, Remount, Idle
  <1>11. CASE UNCHANGED vars
    BY <1>11, NothingCrash
  <1>12. QED
    BY <1>4, <1>5, <1>6, <1>8, <1>9, <1>10, <1>11 DEF Process, Call

(* A process that is not interrupted keeps the invariant. *)
LEMMA ProcessKeeps ==
  ASSUME Settled, CrashInv, Room, Room', TablesFit', [Process]_vars
  PROVE  Settled' /\ CrashInv'
  <1>1. IInv'
    <2>1. [Next]_vars
      BY DEF Next
    <2>2. QED
      BY <2>1, SettledParts, Inductive
  <1>2. BlockInv(SavedSlots)' /\ FilesInv'
    BY SettledParts, BlocksInductive, FilesInductive
  <1>3. WriteInv'
    BY <1>1, <1>2, SettledParts, WriteInductive DEF AllInv
  <1>4. MapKept'
    BY <1>1, MapInductive
  <1>5. Settled'
    BY <1>1, <1>2, <1>3, <1>4 DEF Settled
  <1>6. QED
    BY <1>5, CrashInductive

-----------------------------------------------------------------------------
(* A new process.                                                          *)

(* What it finds, whatever the old one was at. *)
LEMMA RestartReads ==
  ASSUME Settled, CrashInv, Restart
  PROVE  /\ CanMount(disk) /\ WrittenOn(disk, call)
         /\ SparedOn(disk, directoryEntries, FileContents, call.fd)
         /\ directoryEntries' = NamesOn(disk)
         /\ \A s \in Named' : Content(s)' = FileOn(disk, s)
         /\ IInv' /\ FilesInv' /\ WriteInv' /\ MapKept' /\ TablesFit'
         /\ interrupted \/ interrupted' \/ BlockInv(SavedSlots)'
  <1>1. /\ DiskOK /\ pending \in Seq(BlockWrite) /\ disk \in Disks
        /\ SavedSlots \in SUBSET Slot
    BY SettledParts DEF IInv, DiskOK, Disks
  <1>2. After(0) = disk
    <2>1. SubSeq(pending, 1, 0) = << >>
      OBVIOUS
    <2>2. QED
      BY <1>1, <2>1 DEF After, Holds, Disks
  <1>3. Found(disk, Len(pending), directoryEntries, FileContents, call)
    <2>1. 0 \in 0 .. Len(pending) /\ Len(pending) - 0 = Len(pending)
      BY <1>1
    <2>2. QED
      BY <1>2, <2>1 DEF CrashInv
  <1>4. /\ CanMount(disk) /\ WrittenOn(disk, call)
        /\ SparedOn(disk, directoryEntries, FileContents, call.fd)
        /\ (call.op = "sfs_remove" /\ Len(pending) = 1) \/ SoundOn(disk)
    BY <1>3 DEF Found
  <1>5. IInv'
    BY SettledParts, MountKeeps
  <1>6. /\ directoryEntries' = [s \in Slot |-> IF s < DirSlotsOnDisk THEN NamesOn(disk)[s]
                                                ELSE FreshNames[s]]
        /\ iNodes' = [s \in Slot |-> IF s < InodesOnDisk THEN TableOn(disk)[s]
                                      ELSE ZeroInode]
        /\ freeBlocks' = FreeOn(disk) /\ disk' = disk /\ pending' = << >>
        /\ call' = NoCall
        /\ interrupted' = (interrupted \/ (call.op = "sfs_remove" /\ Len(pending) = 1))
    BY DEF Restart, mksfs_existing, NamesOn, TableOn, FreeOn
  <1>7. TableOn(disk) \in Tables /\ NamesOn(disk) \in Names
    BY <1>1, <1>4, TablesOnDisk
  <1>8. DiskToBe' = disk /\ Saved' = TableOn(disk)
    <2>1. DiskToBe' = disk
      BY <1>1, <1>6, NothingPendingNext
    <2>2. QED
      BY <2>1 DEF Saved, TableOn
  <1>9. directoryEntries' = NamesOn(disk)
    <2>1. \A s \in Slot : ~(s < DirSlotsOnDisk) => NamesOn(disk)[s] = Empty
      BY <1>4 DEF CanMount, SavedSlots
    <2>2. \A s \in Slot : directoryEntries'[s] = NamesOn(disk)[s]
      BY <1>6, <2>1 DEF FreshNames
    <2>3. QED
      BY <1>6, <1>7, <2>2 DEF Names
  <1>10. /\ Named' = {s \in Slot : NamesOn(disk)[s] # Empty}
         /\ \A s \in Named' : s \in SavedSlots /\ s \in Slot /\ Whole(TableOn(disk), disk, s)
    BY <1>4, <1>9 DEF Named, CanMount
  <1>11. \A s \in SavedSlots : iNodes'[s] = TableOn(disk)[s]
    BY <1>6 DEF SavedSlots
  <1>12. /\ \A s \in SavedSlots : \A r : Held(iNodes', disk, s, r) = Held(TableOn(disk), disk, s, r)
         /\ \A s \in SavedSlots : Whole(TableOn(disk), disk, s) => Whole(iNodes', disk, s)
    BY <1>11 DEF Held, Whole, WholeTo, HasData
  <1>13. FilesInv'
    <2>1. disk[RootDirectoryIndex] = DirectoryBlock(directoryEntries')
      <3>1. disk[RootDirectoryIndex] \in Contents /\ disk[RootDirectoryIndex].is = "directory"
        BY <1>1, <1>4, Places DEF Disks, CanMount
      <3>2. disk[RootDirectoryIndex] \in [is : {"directory"}, names : Names]
        BY <3>1 DEF Contents, Zeros, SuperBlock
      <3>3. QED
        BY <1>9, <3>2 DEF DirectoryBlock, NamesOn
    <2>2. \A s \in Named' : /\ Whole(iNodes', disk, s) /\ Whole(TableOn(disk), disk, s)
                            /\ TableOn(disk)[s].size = iNodes'[s].size
      BY <1>10, <1>11, <1>12
    <2>3. QED
      BY <1>6, <1>8, <2>1, <2>2 DEF FilesInv, NoCall
  <1>14. WriteInv' /\ MapKept' /\ TablesFit'
    BY <1>4, <1>6, <1>8, <1>10 DEF WriteInv, NoCall, MapKept, TablesFit, CanMount
  <1>15. ASSUME ~interrupted, ~interrupted' PROVE BlockInv(SavedSlots)'
    <2>1. Sound(SavedSlots, TableOn(disk), disk, FreeOn(disk))
      BY <1>4, <1>6, <1>15 DEF SoundOn
    <2>2. Sound(SavedSlots, iNodes', disk, FreeOn(disk))
      BY <1>1, <1>12, <2>1, SoundWhenLost
    <2>3. TableSaved(SavedSlots)' /\ MapSaved'
      BY <1>4, <1>6, <1>8, <1>11, BelowItself
      DEF TableSaved, MapSaved, TableOn, FreeOn, CanMount
    <2>4. QED
      BY <1>6, <1>8, <2>2, <2>3 DEF BlockInv
  <1>16. ASSUME NEW s \in Named' PROVE Content(s)' = FileOn(disk, s)
    <2>1. /\ Content(s)' \in Data /\ Len(Content(s)') = iNodes'[s].size
          /\ \A i \in 1 .. iNodes'[s].size : Content(s)'[i] = ByteAt(iNodes', DiskToBe', s, i)
      BY <1>5, <1>13, FilesAreReadNext DEF FilesRead
    <2>2. iNodes'[s].size = TableOn(disk)[s].size
      BY <1>10, <1>11
    <2>3. \A i : ByteAt(iNodes', DiskToBe', s, i) = ByteAt(TableOn(disk), disk, s, i)
      BY <1>8, <1>10, <1>12 DEF ByteAt
    <2>4. Content(s)' = [i \in 1 .. iNodes'[s].size |-> Content(s)'[i]]
      BY <2>1 DEF Data
    <2>5. QED
      BY <2>1, <2>2, <2>3, <2>4 DEF FileOn
  <1>17. QED
    BY <1>4, <1>5, <1>9, <1>13, <1>14, <1>15, <1>16


(* A restart, and every step after one that left blocks both free and in   *)
(* use, keep what is known.                                                *)
LEMMA ProcessNotInterrupts == Process => interrupted' = interrupted
  BY DEF Process, Call, sfs_fopen, OpenNew, OpenExisting, OpenFails, sfs_remove,
         RemoveFile, sfs_fclose, sfs_fseek, sfs_fread, MovePointer, Refuse, sfs_fwrite,
         WriteBegins, WriteLoop, WriteKnownBlock, WriteNewDirect, WriteNewIndirect,
         WriteFirstIndirect, WriteData, FileTooLarge, NoBlockLeft,
         NoBlockForFirstPointer, NoBlockForPointers, WriteFails, WriteEnds, Flush,
         mksfs_fresh, Remount, mksfs_existing

LEMMA InterruptedStays == ASSUME interrupted, [Next]_vars PROVE interrupted'
  <1>1. CASE Restart
    BY <1>1 DEF Restart
  <1>2. CASE UNCHANGED vars
    BY <1>2 DEF vars
  <1>3. CASE Process
    BY <1>3, ProcessNotInterrupts
  <1>4. QED
    BY <1>1, <1>2, <1>3 DEF Next

LEMMA RestartKeeps ==
  ASSUME RestartInv, Within, Within', [Next]_vars
  PROVE  RestartInv'
  <1>1. IInv /\ IInv'
    BY Inductive DEF RestartInv
  <1>2. CASE interrupted
    BY <1>1, <1>2, InterruptedStays DEF RestartInv
  <1>3. CASE ~interrupted /\ interrupted'
    BY <1>1, <1>3 DEF RestartInv
  <1>4. CASE ~interrupted /\ ~interrupted'
    <2>1. Settled /\ CrashInv /\ Room
      BY <1>1, <1>4 DEF RestartInv, Settled, Within
    <2>2. Room' /\ TablesFit'
      BY <1>4 DEF Within
    <2>3. CASE [Process]_vars
      <3>1. Settled' /\ CrashInv'
        BY <2>1, <2>2, <2>3, ProcessKeeps
      <3>2. QED
        BY <3>1 DEF Settled, RestartInv
    <2>4. CASE Restart
      <3>1. Settled'
        BY <1>4, <2>1, <2>4, RestartReads DEF Settled
      <3>2. pending' = << >>
        BY <2>4 DEF Restart
      <3>3. CrashInv'
        BY <3>1, <3>2, SettledCrashNext
      <3>4. QED
        BY <3>1, <3>3 DEF Settled, RestartInv
    <2>5. QED
      BY <2>3, <2>4 DEF Next
  <1>5. QED
    BY <1>2, <1>3, <1>4

LEMMA RestartInitially == Init /\ Within => RestartInv
  <1> SUFFICES ASSUME Init, Within PROVE RestartInv
    OBVIOUS
  <1>1. /\ IInv /\ BlockInv(SavedSlots) /\ FilesInv /\ WriteInv
    BY Initially, BlocksInitially, FilesInitially, FilesBegin, SavedSlotsAreSlots
  <1>2. disk = FreshDisk /\ pending = << >> /\ interrupted = FALSE
    BY DEF Init
  <1>3. MapKept
    <2>1. DiskToBe = FreshDisk
      BY <1>1, <1>2, NothingPending DEF IInv
    <2>2. QED
      BY <2>1, FreshBlocks DEF MapKept
  <1>4. Settled
    BY <1>1, <1>2, <1>3 DEF Settled, Within
  <1>5. QED
    BY <1>1, <1>2, <1>3, <1>4, SettledCrash DEF RestartInv

-----------------------------------------------------------------------------
(* The theorems.                                                           *)

LEMMA AlwaysRestartInv == Spec /\ []Within => []RestartInv
  BY RestartInitially, RestartKeeps, PTL DEF Spec

(* What RestartReads assumes, when a restart takes a step. *)
LEMMA BeforeRestart ==
  ASSUME RestartInv, Within, ~interrupted
  PROVE  Settled /\ CrashInv
  BY DEF RestartInv, Settled, Within

(* As long as no file has the block of the root directory and every file   *)
(* has a slot whose directory entry and i-node the blocks of the tables    *)
(* hold, a process that ends between any two writes to the disk and a new  *)
(* one that reads it (mksfs(0)) lose nothing of the files that the         *)
(* interrupted call was not about: each has its name, and every byte.      *)
THEOREM OtherFilesSpared == Spec /\ []Within => RestartSparesOtherFiles
  <1> DEFINE Spared ==
        Restart /\ ~interrupted =>
          \A s \in Slot \ {call.fd} :
            /\ directoryEntries'[s] = directoryEntries[s]
            /\ directoryEntries[s] # Empty => Content(s)' = Content(s)
  <1>1. RestartInv /\ Within /\ [Next]_vars => [Spared]_vars
    <2> SUFFICES ASSUME RestartInv, Within, Restart, ~interrupted,
                        NEW s \in Slot \ {call.fd}
                 PROVE  /\ directoryEntries'[s] = directoryEntries[s]
                        /\ directoryEntries[s] # Empty => Content(s)' = Content(s)
      OBVIOUS
    <2>1. /\ SparedOn(disk, directoryEntries, FileContents, call.fd)
          /\ directoryEntries' = NamesOn(disk)
          /\ \A u \in Named' : Content(u)' = FileOn(disk, u)
      BY BeforeRestart, RestartReads
    <2>2. directoryEntries'[s] = directoryEntries[s]
      BY <2>1 DEF SparedOn
    <2>3. ASSUME directoryEntries[s] # Empty PROVE Content(s)' = Content(s)
      <3>1. s \in Named'
        BY <2>2, <2>3 DEF Named
      <3>2. FileOn(disk, s) = Content(s)
        BY <2>1, <2>3 DEF SparedOn, FileContents
      <3>3. QED
        BY <2>1, <3>1, <3>2
    <2>4. QED
      BY <2>2, <2>3
  <1>2. QED
    BY <1>1, AlwaysRestartInv, PTL DEF Spec, RestartSparesOtherFiles

(* And a file that sfs_fwrite was appending to when the process ended is   *)
(* the file that the call found: the table with the new size is the last   *)
(* thing the call saves, and the blocks it wrote before hold the old bytes *)
(* or lie past the old end.                                                *)
THEOREM AppendsSurvive == Spec /\ []Within => AppendSurvivesRestart
  <1> DEFINE Survives ==
        Restart /\ ~interrupted =>
          \A s \in Slot :
            InWrite(s) /\ SubSeq(call.fileData, 1, Len(call.old)) = call.old
              => Content(s)' = call.old
  <1>1. RestartInv /\ Within /\ [Next]_vars => [Survives]_vars
    <2> SUFFICES ASSUME RestartInv, Within, Restart, ~interrupted, NEW s \in Slot,
                        InWrite(s),
                        SubSeq(call.fileData, 1, Len(call.old)) = call.old
                 PROVE  Content(s)' = call.old
      OBVIOUS
    <2>1. Settled /\ CrashInv
      BY BeforeRestart
    <2>2. call.op = "sfs_fwrite" /\ call.fd = s
      BY DEF InWrite
    <2>3. /\ directoryEntries' = NamesOn(disk) /\ WrittenOn(disk, call)
          /\ \A u \in Named' : Content(u)' = FileOn(disk, u)
      BY <2>1, RestartReads
    <2>4. s \in Named' /\ TableOn(disk)[s].size = Len(call.old)
      BY <2>2, <2>3 DEF WrittenOn, Named
    <2>5. call.old \in Data /\ call.fileData \in Data
      <3>1. call \in WriteCall
        BY <2>1, <2>2, SettledParts DEF IInv, CallOK, OtherCall
      <3>2. QED
        BY <3>1 DEF WriteCall
    <2>6. \A i \in 1 .. Len(call.old) : call.fileData[i] = call.old[i]
      BY <2>5 DEF Data
    <2>7. \A i \in 1 .. Len(call.old) : ByteAt(TableOn(disk), disk, s, i) = call.old[i]
      BY <2>2, <2>3, <2>6 DEF WrittenOn
    <2>8. FileOn(disk, s) = [i \in 1 .. Len(call.old) |-> call.old[i]]
      BY <2>4, <2>7 DEF FileOn
    <2>9. QED
      BY <2>3, <2>4, <2>5, <2>8 DEF Data
  <1>2. QED
    BY <1>1, AlwaysRestartInv, PTL DEF Spec, AppendSurvivesRestart

(* A new process finds for each name of the directory a file that is       *)
(* whole: its i-node, a block for each of its bytes, and data in it.       *)
THEOREM RestartsLeaveFilesWhole == Spec /\ []Within => []FilesWhole
  <1>1. RestartInv => FilesWhole
    <2>1. interrupted => FilesWhole
      BY DEF FilesWhole
    <2>2. RestartInv /\ ~interrupted => FilesWhole
      BY WholeFiles DEF RestartInv
    <2>3. QED
      BY <2>1, <2>2
  <1>2. QED
    BY <1>1, AlwaysRestartInv, PTL

(* No two slots whose i-nodes the disk holds come to share a block, and    *)
(* none leads to a free one, whenever a restart comes, until one falls     *)
(* before the last write of sfs_remove; nor does any slot, when the blocks *)
(* of the tables are long enough for all of them.                          *)
THEOREM RestartsShareNoBlock ==
  Spec /\ []Within
    => /\ [](~interrupted => ShareNothing(SavedSlots))
       /\ SavedSlots = Slot => [](NoSharedBlocks /\ OwnedBlocksOccupied)
  <1> DEFINE Apart == ~interrupted => ShareNothing(SavedSlots)
             Whole0 == SavedSlots = Slot
  <1>1. RestartInv => Apart
    BY SoundSlots, SavedSlotsAreSlots DEF RestartInv, BlockInv
  <1>2. Whole0 /\ Apart => NoSharedBlocks /\ OwnedBlocksOccupied
    BY DEF ShareNothing, NoSharedBlocks, OwnedBlocksOccupied
  <1>3. Whole0 => Whole0'
    BY DEF SavedSlots, Slot
  <1>4. QED
    BY <1>1, <1>2, <1>3, AlwaysRestartInv, PTL DEF Spec

=============================================================================
