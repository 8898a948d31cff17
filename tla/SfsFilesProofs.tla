--------------------------- MODULE SfsFilesProofs ---------------------------
(***************************************************************************)
(* Theorems about the files of the file system.  While no file has the     *)
(* block of the root directory, every file of the directory has a block of *)
(* data for each of its bytes, although an allocation, a removal and an    *)
(* error return change the tables one after the other and mksfs(0) reads   *)
(* back a table saved some calls ago.  While every name is found again,    *)
(* the tables, blocks and pointers implement the files by name of SfsFiles.*)
(***************************************************************************)
EXTENDS SfsProofs

-----------------------------------------------------------------------------
(* The k-th block of slot s is there and holds data; so are the first n of *)
(* them; so are all that its size asks for.  As for roles, t and d are the *)
(* table in memory or the one saved, and the disk to be.                   *)

DataRoles == Roles \ {IndirectRole}

HasData(t, d, s, k) == Held(t, d, s, k) >= 0 /\ d[Held(t, d, s, k)].is = "data"
WholeTo(t, d, s, n) == \A k \in 0 .. n - 1 : HasData(t, d, s, k)
Whole(t, d, s) == t[s].size >= 0 /\ WholeTo(t, d, s, Ceiling(t[s].size))

Saved == DiskToBe[iNodeTableIndex].inodes

(* The directory is saved; a file is whole in memory and in the table that *)
(* mksfs(0) would read; and sfs_fwrite leaves whole what it passed.        *)
FilesInv ==
  /\ DiskToBe[RootDirectoryIndex] = DirectoryBlock(directoryEntries)
  /\ \A s \in Named :
       /\ Whole(iNodes, DiskToBe, s)
       /\ Whole(Saved, DiskToBe, s)
       /\ Saved[s].size = iNodes[s].size
  /\ call.op = "sfs_fwrite" => WholeTo(iNodes, DiskToBe, call.fd, blockIndex)

(* From t and d to u and e, slot s loses none of its blocks of data, and   *)
(* none but block b gets other data.                                       *)
Keeps(t, d, u, e, s, b) ==
  \A k \in DataRoles : HasData(t, d, s, k) =>
    /\ Held(u, e, s, k) = Held(t, d, s, k)
    /\ HasData(u, e, s, k)
    /\ Held(t, d, s, k) # b => e[Held(t, d, s, k)] = d[Held(t, d, s, k)]

(* One change after another. *)
LEMMA KeepsBoth ==
  ASSUME NEW t, NEW d, NEW u, NEW e, NEW v, NEW f, NEW s, NEW b,
         Keeps(t, d, u, e, s, b), Keeps(u, e, v, f, s, b)
  PROVE  Keeps(t, d, v, f, s, b)
  BY DEF Keeps

(* The first blocks of a file stay whole. *)
LEMMA WholeStays ==
  ASSUME NEW t, NEW d, NEW u, NEW e, NEW s, NEW b, Keeps(t, d, u, e, s, b),
         NEW n \in Nat, n <= DIRECT_POINTERS + INDIRECT_POINTERS, WholeTo(t, d, s, n)
  PROVE  WholeTo(u, e, s, n)
  <1>1. \A k \in 0 .. n - 1 : k \in DataRoles
    BY RoleNumbers DEF DataRoles, Roles, IndirectRole
  <1>2. QED
    BY <1>1 DEF Keeps, WholeTo

(* The blocks of a size. *)
LEMMA BlocksOfInode ==
  ASSUME NEW t \in Tables, NEW s \in Slot, t[s].size >= 0
  PROVE  /\ Ceiling(t[s].size) \in Nat
         /\ Ceiling(t[s].size) <= DIRECT_POINTERS + INDIRECT_POINTERS
  <1>1. t[s] \in SoundInode
    BY DEF Tables
  <1>2. t[s].size \in 0 .. MaxFileSize \cup {-1}
    BY <1>1 DEF SoundInode
  <1>3. t[s].size \in 0 .. MaxFileSize /\ t[s].size \in Nat
    BY <1>2, Sizes
  <1>4. QED
    BY <1>3, BlocksOfSize, CeilingBound

(* A whole file stays whole when it keeps its size. *)
LEMMA WholeKept ==
  ASSUME NEW t \in Tables, NEW d, NEW u, NEW e, NEW s \in Slot, NEW b,
         Keeps(t, d, u, e, s, b), u[s].size = t[s].size, Whole(t, d, s)
  PROVE  Whole(u, e, s)
  BY BlocksOfInode, WholeStays DEF Whole

-----------------------------------------------------------------------------
(* What one write leaves of the blocks of a slot.                          *)

(* What has a role is a block. *)
LEMMA HeldIsBlock ==
  ASSUME NEW t \in Tables, NEW d \in Disks, NEW s \in Slot, NEW r \in Roles
  PROVE  Held(t, d, s, r) >= 0 => Held(t, d, s, r) \in Block
  <1>1. t[s].indirect >= 0 => PointersIn(d[t[s].indirect]) \in Pointers
    <2>1. ASSUME NEW c \in Contents PROVE PointersIn(c) \in Pointers
      <3>1. NoPointers \in Pointers
        BY DEF NoPointers, Pointers, SoundPointer
      <3>2. QED
        BY <3>1, Kinds DEF PointersIn
    <2>2. t[s].indirect >= 0 => d[t[s].indirect] \in Contents
      BY HeldType DEF Disks
    <2>3. QED
      BY <2>1, <2>2
  <1>2. CASE r < DIRECT_POINTERS
    <2>1. r \in 0 .. DIRECT_POINTERS - 1
      BY <1>2, RoleNumbers
    <2>2. t[s].direct[r] \in SoundPointer
      BY <2>1, HeldType
    <2>3. QED
      BY <1>2, <2>2, Sizes DEF Held
  <1>3. CASE r = IndirectRole
    <2>1. ~(r < DIRECT_POINTERS)
      BY <1>3, RoleNumbers
    <2>2. QED
      BY <1>3, <2>1, HeldType DEF Held
  <1>4. CASE ~(r < DIRECT_POINTERS) /\ r # IndirectRole /\ t[s].indirect >= 0
    <2>1. r - DIRECT_POINTERS \in 0 .. INDIRECT_POINTERS - 1
      BY <1>4, RoleNumbers
    <2>2. PointersIn(d[t[s].indirect])[r - DIRECT_POINTERS] \in SoundPointer
      BY <1>1, <1>4, <2>1 DEF Pointers
    <2>3. QED
      BY <1>4, <2>2, Sizes DEF Held
  <1>5. CASE ~(r < DIRECT_POINTERS) /\ r # IndirectRole /\ ~(t[s].indirect >= 0)
    BY <1>5 DEF Held
  <1>6. QED
    BY <1>2, <1>3, <1>4, <1>5

(* The write is of a block that has no role for the slot. *)
LEMMA ApartKeeps ==
  ASSUME NEW t \in Tables, NEW d \in Disks, NEW x \in BlockWrite, NEW s \in Slot,
         NEW b,
         \A r \in Roles : Held(t, d, s, r) # x.at
  PROVE  /\ Keeps(t, d, t, Put(d, x), s, b)
         /\ \A r \in Roles : Held(t, Put(d, x), s, r) = Held(t, d, s, r)
  <1>1. t[s].indirect = Held(t, d, s, IndirectRole) /\ IndirectRole \in Roles
    BY RoleNumbers DEF Held, IndirectRole
  <1>2. \A r \in Roles : Held(t, Put(d, x), s, r) = Held(t, d, s, r)
    BY <1>1, HeldAfterPut
  <1>3. \A p \in Block : p # x.at => Put(d, x)[p] = d[p]
    BY PutIs DEF Disks
  <1>4. \A k \in DataRoles : HasData(t, d, s, k)
          => Put(d, x)[Held(t, d, s, k)] = d[Held(t, d, s, k)]
    BY <1>3, HeldIsBlock DEF DataRoles, HasData
  <1>5. QED
    BY <1>2, <1>4 DEF Keeps, HasData, DataRoles

(* The write is of data, and not over the slot's block of pointers. *)
LEMMA DataKeeps ==
  ASSUME NEW t \in Tables, NEW d \in Disks, NEW x \in BlockWrite, NEW s \in Slot,
         t[s].indirect # x.at, x.contents.is = "data"
  PROVE  /\ Keeps(t, d, t, Put(d, x), s, x.at)
         /\ \A r \in Roles : Held(t, Put(d, x), s, r) = Held(t, d, s, r)
  <1>1. \A r \in Roles : Held(t, Put(d, x), s, r) = Held(t, d, s, r)
    BY HeldAfterPut
  <1>2. \A b \in Block : Put(d, x)[b] = IF b = x.at THEN x.contents ELSE d[b]
    BY PutIs DEF Disks
  <1>3. \A k \in DataRoles : HasData(t, d, s, k)
          => /\ Put(d, x)[Held(t, d, s, k)].is = "data"
             /\ Held(t, d, s, k) # x.at
                  => Put(d, x)[Held(t, d, s, k)] = d[Held(t, d, s, k)]
    BY <1>2, HeldIsBlock DEF DataRoles, HasData
  <1>4. QED
    BY <1>1, <1>3 DEF Keeps, HasData, DataRoles

(* The write is of a block of pointers, and only adds to them. *)
LEMMA PointersKeep ==
  ASSUME NEW t \in Tables, NEW d \in Disks, NEW x \in BlockWrite, NEW s \in Slot,
         NEW b,
         \A k \in DataRoles : Held(t, d, s, k) # x.at,
         \A j \in 0 .. INDIRECT_POINTERS - 1 :
           PointersIn(d[x.at])[j] >= 0
             => PointersIn(x.contents)[j] = PointersIn(d[x.at])[j]
  PROVE  Keeps(t, d, t, Put(d, x), s, b)
  <1>1. ASSUME NEW k \in DataRoles, HasData(t, d, s, k)
        PROVE  Held(t, Put(d, x), s, k) = Held(t, d, s, k)
    <2>1. k \in Roles /\ k # IndirectRole
      BY DEF DataRoles
    <2>2. CASE k >= DIRECT_POINTERS /\ t[s].indirect = x.at
      <3>1. x.at >= 0 /\ ~(k < DIRECT_POINTERS)
        BY <2>1, <2>2, RoleNumbers, Sizes DEF BlockWrite, Block
      <3>2. Held(t, d, s, k) = PointersIn(d[x.at])[k - DIRECT_POINTERS]
        BY <2>1, <2>2, <3>1 DEF Held
      <3>3. k - DIRECT_POINTERS \in 0 .. INDIRECT_POINTERS - 1
        BY <2>1, <2>2, RoleNumbers
      <3>4. Held(t, Put(d, x), s, k) = PointersIn(x.contents)[k - DIRECT_POINTERS]
        BY <2>1, <2>2, HeldAfterPut
      <3>5. QED
        BY <1>1, <3>2, <3>3, <3>4 DEF HasData
    <2>3. CASE ~(k >= DIRECT_POINTERS /\ t[s].indirect = x.at)
      BY <2>1, <2>3, HeldAfterPut
    <2>4. QED
      BY <2>2, <2>3
  <1>2. \A p \in Block : p # x.at => Put(d, x)[p] = d[p]
    BY PutIs DEF Disks
  <1>3. \A k \in DataRoles : HasData(t, d, s, k)
          => Put(d, x)[Held(t, d, s, k)] = d[Held(t, d, s, k)]
    BY <1>2, HeldIsBlock DEF DataRoles, HasData
  <1>4. QED
    BY <1>1, <1>3 DEF Keeps, HasData

(* The table changes, and no role that a block of data had. *)
LEMMA TableKeeps ==
  ASSUME NEW t, NEW u, NEW d, NEW s, NEW b,
         \A k \in DataRoles : Held(t, d, s, k) >= 0 => Held(u, d, s, k) = Held(t, d, s, k)
  PROVE  Keeps(t, d, u, d, s, b)
  BY DEF Keeps, HasData

-----------------------------------------------------------------------------
(* The table in memory and the one saved.                                  *)

(* A table with no pointer that memory lacks. *)
Sub(G, v) == v \in Tables /\ \A s \in G : Below(v[s], iNodes[s])

LEMMA SubTables ==
  ASSUME NEW G \in SUBSET Slot,
         IInv, BlockInv(G)
  PROVE  Sub(G, iNodes) /\ Sub(G, Saved)
  <1>1. iNodes \in Tables /\ DiskToBe \in Disks
    BY Typed
  <1>2. DiskToBe[iNodeTableIndex] \in Contents /\ DiskToBe[iNodeTableIndex].is = "inodes"
    BY <1>1, Places DEF Disks, BlockInv, TableSaved
  <1>3. Saved \in Tables
    BY <1>2, Kinds DEF Saved, Tables
  <1>4. QED
    BY <1>1, <1>3, BelowItself DEF Sub, Saved, BlockInv, TableSaved

(* Its roles are roles in memory. *)
LEMMA SubRoles ==
  ASSUME NEW G \in SUBSET Slot,
         IInv, BlockInv(G), NEW v, Sub(G, v), NEW s \in G, NEW r \in Roles
  PROVE  Held(v, DiskToBe, s, r) \in {-1, Held(iNodes, DiskToBe, s, r)}
  BY Typed, BelowLoses DEF Sub

(* A free block, or one with a place of its own, has none of them. *)
LEMMA NoRole ==
  ASSUME NEW G \in SUBSET Slot,
         IInv, BlockInv(G), NEW v, Sub(G, v), NEW b, b # -1, b \notin FreshMap \ freeBlocks
  PROVE  \A s \in G : v[s].indirect # b /\ \A r \in Roles : Held(v, DiskToBe, s, r) # b
  <1>1. \A s \in G, r \in Roles : Held(v, DiskToBe, s, r) # b
    BY SubRoles DEF BlockInv, Sound
  <1>2. \A s \in G : v[s].indirect = Held(v, DiskToBe, s, IndirectRole)
    BY RoleNumbers DEF Held, IndirectRole
  <1>3. QED
    BY <1>1, <1>2, RoleNumbers

(* A block that memory has in one role has no other. *)
LEMMA OneRole ==
  ASSUME NEW G \in SUBSET Slot,
         IInv, BlockInv(G), NEW v, Sub(G, v), NEW f \in G, NEW j \in Roles,
         Held(iNodes, DiskToBe, f, j) # -1
  PROVE  /\ j # IndirectRole
              => \A s \in G : v[s].indirect # Held(iNodes, DiskToBe, f, j)
         /\ j = IndirectRole
              => \A s \in G, k \in DataRoles :
                   Held(v, DiskToBe, s, k) # Held(iNodes, DiskToBe, f, j)
  <1>1. \A s \in G, r \in Roles :
          Held(v, DiskToBe, s, r) = Held(iNodes, DiskToBe, f, j) => r = j
    BY SubRoles DEF BlockInv, Sound
  <1>2. \A s \in G : v[s].indirect = Held(v, DiskToBe, s, IndirectRole)
    BY RoleNumbers DEF Held, IndirectRole
  <1>3. QED
    BY <1>1, <1>2, RoleNumbers DEF DataRoles

(* Files stay whole when neither table loses a block of data. *)
LEMMA FilesKept ==
  ASSUME NEW G \in SUBSET Slot,
         IInv, BlockInv(G), Covers(G), FilesInv, NEW u, iNodes' = u, NEW e, DiskToBe' = e,
         directoryEntries' = directoryEntries, NEW b,
         \A s \in G : u[s].size = iNodes[s].size /\ Keeps(iNodes, DiskToBe, u, e, s, b),
         \A s \in G : Keeps(Saved, DiskToBe, Saved, e, s, b),
         e[iNodeTableIndex] = DiskToBe[iNodeTableIndex],
         e[RootDirectoryIndex] = DiskToBe[RootDirectoryIndex],
         call'.op = "sfs_fwrite" => WholeTo(u, e, call'.fd, call'.blockIndex)
  PROVE  FilesInv'
  <1>1. iNodes \in Tables /\ Saved \in Tables
    BY SubTables DEF Sub
  <1>2. Saved' = Saved
    BY DEF Saved
  <1>3. \A s \in Named :
          Whole(u, e, s) /\ Whole(Saved, e, s) /\ Saved[s].size = u[s].size
    BY <1>1, WholeKept DEF FilesInv, Named, Covers
  <1>4. Named' = Named
    BY DEF Named
  <1>5. QED
    BY <1>2, <1>3, <1>4 DEF FilesInv, blockIndex

(* Nothing changes but the call, or a call goes on where it was. *)
LEMMA FilesUntouched ==
  ASSUME NEW G \in SUBSET Slot,
         IInv, BlockInv(G), Covers(G), FilesInv, iNodes' = iNodes, DiskToBe' = DiskToBe,
         directoryEntries' = directoryEntries,
         \/ call'.op # "sfs_fwrite"
         \/ call' = call
         \/ call'.blockIndex = 0
  PROVE  FilesInv'
  <1>1. call'.op = "sfs_fwrite" => WholeTo(iNodes, DiskToBe, call'.fd, call'.blockIndex)
    BY DEF FilesInv, blockIndex, WholeTo
  <1>2. \A v, s : Keeps(v, DiskToBe, v, DiskToBe, s, -1)
    BY DEF Keeps
  <1>3. QED
    BY <1>1, <1>2, FilesKept

(* An iteration of sfs_fwrite has written its block. *)
LEMMA OneMoreBlock ==
  ASSUME NEW G \in SUBSET Slot,
         IInv, Covers(G), FilesInv, Writing, NEW tables, NEW b, WriteData(tables, b),
         NEW u, NEW e, \A s \in G : Keeps(iNodes, DiskToBe, u, e, s, b),
         HasData(u, e, call.fd, blockIndex),
         blockIndex < DIRECT_POINTERS + INDIRECT_POINTERS
  PROVE  call'.op = "sfs_fwrite" => WholeTo(u, e, call'.fd, call'.blockIndex)
  <1>1. call \in WriteCall /\ call.fd \in G /\ blockIndex \in Nat
    BY WriteInProgress DEF Covers, Writing
  <1>2. call' = [call EXCEPT !.blockIndex = blockIndex + 1]
    BY DEF WriteData
  <1>3. call'.fd = call.fd /\ call'.blockIndex = blockIndex + 1
    BY <1>1, <1>2 DEF WriteCall
  <1>4. WholeTo(iNodes, DiskToBe, call.fd, blockIndex)
    BY DEF FilesInv, Writing
  <1>5. WholeTo(u, e, call.fd, blockIndex)
    <2>1. blockIndex <= DIRECT_POINTERS + INDIRECT_POINTERS
      BY <1>1, WriteInProgress
    <2>2. QED
      BY <1>1, <1>4, <2>1, WholeStays
  <1>6. \A k \in 0 .. (blockIndex + 1) - 1 : k = blockIndex \/ k \in 0 .. blockIndex - 1
    BY <1>1
  <1>7. WholeTo(u, e, call.fd, blockIndex + 1)
    BY <1>5, <1>6 DEF WholeTo
  <1>8. QED
    BY <1>3, <1>7

-----------------------------------------------------------------------------
(* The steps of sfs_fwrite.                                                *)

(* An iteration writes the data of its block, and leaves all others and    *)
(* every size.                                                             *)
DataOf(k) ==
  SubSeq(call.fileData, k * DISK_BLOCK_SIZE + 1, (k + 1) * DISK_BLOCK_SIZE)
DataWritten(G) ==
  \E b \in Block :
    /\ \A s \in G : iNodes'[s].size = iNodes[s].size
    /\ \A s \in G : Keeps(iNodes, DiskToBe, iNodes', DiskToBe', s, b)
    /\ Held(iNodes', DiskToBe', call.fd, blockIndex) = b
    /\ DiskToBe'[b] = DataBlock(DataOf(blockIndex))

(* It writes a block that the file has. *)
LEMMA KnownBlockWhole ==
  ASSUME NEW G \in SUBSET Slot,
         IInv, BlockInv(G), Covers(G), FilesInv, Room, WriteKnownBlock
  PROVE  FilesInv' /\ DataWritten(G)
  <1> DEFINE k == blockIndex
             fd == call.fd
             b == BlockNumber(fd, k)
             bytes == SubSeq(call.fileData, k * DISK_BLOCK_SIZE + 1,
                             (k + 1) * DISK_BLOCK_SIZE)
             x == At(b, DataBlock(bytes))
             d == DiskToBe
             e == Put(d, x)
  <1>1. /\ Writing /\ MoreBlocks /\ k < DIRECT_POINTERS + INDIRECT_POINTERS
        /\ b >= 0 /\ WriteData(<< >>, b) /\ iNodes' = iNodes
    BY DEF WriteKnownBlock
  <1>2. fd \in G /\ fd \in Slot /\ k \in 0 .. DIRECT_POINTERS + INDIRECT_POINTERS - 1
    BY <1>1, WriteInProgress, RoleNumbers DEF Covers, Writing
  <1>3. k \in DataRoles /\ Held(iNodes, d, fd, k) = b
    BY <1>2, HeldInMemory, RoleNumbers DEF DataRoles
  <1>4. b \in FreshMap \ freeBlocks /\ b \in Block /\ bytes \in Bytes /\ b # -1
    BY <1>1, <1>2, OwnBlocks, DataOfBlock, Places
  <1>5. pending = << >> /\ pending' = << x >> /\ disk' = disk
        /\ directoryEntries' = directoryEntries
    BY <1>1 DEF WriteData, Writing
  <1> HIDE DEF b, bytes, fd, k
  <1>6. x \in BlockWrite /\ x.at = b /\ x.contents.is = "data"
        /\ x.contents = DataBlock(bytes)
    BY <1>4, WriteParts DEF At
  <1> HIDE DEF x
  <1>7. DiskToBe' = e
    BY <1>5, <1>6, WritesIssued DEF IInv
  <1>8. d \in Disks /\ iNodes \in Tables
    BY Typed
  <1>9. /\ e[iNodeTableIndex] = d[iNodeTableIndex]
        /\ e[RootDirectoryIndex] = d[RootDirectoryIndex]
        /\ e[b].is = "data" /\ e[b] = x.contents
    BY <1>4, <1>6, <1>8, PutIs, Places DEF Disks, Room
  <1>10. ASSUME NEW v, Sub(G, v), NEW s \in G
         PROVE  /\ Keeps(v, d, v, e, s, b)
                /\ \A r \in Roles : Held(v, e, s, r) = Held(v, d, s, r)
    <2>1. v[s].indirect # b
      BY <1>2, <1>3, <1>4, <1>10, OneRole DEF DataRoles
    <2>2. QED
      BY <1>6, <1>8, <1>10, <2>1, DataKeeps DEF Sub
  <1> HIDE DEF e, d
  <1>11. Held(iNodes, e, fd, k) = b /\ HasData(iNodes, e, fd, k)
    BY <1>1, <1>2, <1>3, <1>9, <1>10, SubTables DEF HasData, DataRoles
  <1>12. call'.op = "sfs_fwrite" => WholeTo(iNodes, e, call'.fd, call'.blockIndex)
    BY <1>1, <1>10, <1>11, SubTables, OneMoreBlock DEF d, k, fd
  <1>13. FilesInv'
    BY <1>1, <1>5, <1>7, <1>9, <1>10, <1>12, SubTables, FilesKept DEF d
  <1>14. DataWritten(G)
    BY <1>1, <1>4, <1>6, <1>7, <1>9, <1>10, <1>11, SubTables
    DEF DataWritten, DataOf, d, k, fd, bytes
  <1>15. QED
    BY <1>13, <1>14

(* It gives the file a block under a direct pointer. *)
LEMMA NewDirectWhole ==
  ASSUME NEW G \in SUBSET Slot,
         IInv, BlockInv(G), Covers(G), FilesInv, Room, Room', WriteNewDirect
  PROVE  FilesInv' /\ DataWritten(G)
  <1> DEFINE b == Min(freeBlocks)
             k == blockIndex
             fd == call.fd
             bytes == SubSeq(call.fileData, k * DISK_BLOCK_SIZE + 1,
                             (k + 1) * DISK_BLOCK_SIZE)
             x == At(b, DataBlock(bytes))
             m == MapWrite(freeBlocks')
             d == DiskToBe
             e == Put(Put(d, m), x)
             t == iNodes
             u == WithDirect(t, fd, k, b)
  <1>1. /\ Writing /\ MoreBlocks /\ k < DIRECT_POINTERS /\ t[fd].direct[k] < 0
        /\ freeBlocks # {} /\ freeBlocks' = freeBlocks \ {b} /\ iNodes' = u
        /\ WriteData(<< m >>, b)
    BY DEF WriteNewDirect, WithDirect
  <1>2. fd \in G /\ fd \in Slot /\ k \in Nat /\ bytes \in Bytes
    BY <1>1, WriteInProgress, DataOfBlock DEF Covers, Writing
  <1>3. /\ t \in Tables /\ freeBlocks \in SUBSET Allocatable /\ d \in Disks
        /\ freeBlocks \subseteq FreshMap
    BY Typed DEF BlockInv, Sound
  <1>4. /\ b \in freeBlocks /\ b \in FreshMap /\ b \in Block /\ b \in SoundPointer
        /\ b # RootDirectoryIndex /\ b # -1 /\ b >= 0
    BY <1>1, <1>3, LowestFree, Places DEF Room
  <1>5. /\ pending = << >> /\ pending' = Append(<< m >>, x) /\ disk' = disk
        /\ directoryEntries' = directoryEntries
    BY <1>1 DEF WriteData, Writing
  <1> HIDE DEF b, bytes, k, fd, t
  <1>6. k \in 0 .. DIRECT_POINTERS - 1 /\ k \in DataRoles /\ ~(t[fd].direct[k] >= 0)
    <2>1. k \in 0 .. DIRECT_POINTERS - 1 /\ k \in DataRoles
      BY <1>1, <1>2, RoleNumbers DEF Roles, IndirectRole, DataRoles
    <2>2. t[fd].direct[k] \in SoundPointer
      BY <1>2, <1>3, <2>1, HeldType
    <2>3. QED
      BY <1>1, <2>1, <2>2, Sizes
  <1>7. /\ \A c : \A s \in G, r \in Roles :
             Held(u, c, s, r) = IF s = fd /\ r = k THEN b ELSE Held(t, c, s, r)
        /\ \A s \in G : u[s].size = t[s].size
    <2>1. \A c : \A s \in G, r \in Roles :
            Held(u, c, s, r) = IF s = fd /\ r = k THEN b ELSE Held(t, c, s, r)
      BY <1>2, <1>3, <1>4, <1>6, DirectChanged
    <2>2. \A s \in G : u[s].size = t[s].size
      BY <1>2, <1>3, <1>4, <1>6, InodeChanged DEF Tables, WithDirect
    <2>3. QED
      BY <2>1, <2>2
  <1>8. /\ x \in BlockWrite /\ x.at = b /\ x.contents.is = "data"
        /\ x.contents = DataBlock(bytes)
        /\ m \in BlockWrite /\ m.at = FreeBlockListIndex
    BY <1>1, <1>2, <1>3, <1>4, WriteParts DEF At
  <1> HIDE DEF x, m, u
  <1>9. DiskToBe' = e
    <2>1. pending' = << m, x >>
      BY <1>5, <1>8, Appended
    <2>2. QED
      BY <1>5, <1>8, <2>1, WritesIssued DEF IInv
  <1>10. /\ Put(d, m) \in Disks
         /\ e[iNodeTableIndex] = d[iNodeTableIndex]
         /\ e[RootDirectoryIndex] = d[RootDirectoryIndex]
         /\ e[b].is = "data" /\ e[b] = x.contents
    BY <1>3, <1>4, <1>8, PutIs, Places DEF Disks
  <1>11. ASSUME NEW v, Sub(G, v), NEW s \in G
         PROVE  Keeps(v, d, v, e, s, b)
    <2>1. v[s].indirect # b /\ \A r \in Roles : Held(v, d, s, r) # FreeBlockListIndex
      BY <1>4, <1>11, NoRole, Places
    <2>2. Keeps(v, d, v, Put(d, m), s, b)
      BY <1>3, <1>8, <1>11, <2>1, ApartKeeps DEF Sub
    <2>3. Keeps(v, Put(d, m), v, e, s, b)
      BY <1>8, <1>10, <1>11, <2>1, DataKeeps DEF Sub
    <2>4. QED
      BY <2>2, <2>3, KeepsBoth
  <1> HIDE DEF e, d
  <1>12. ASSUME NEW s \in G PROVE Keeps(t, d, u, e, s, b)
    <2>1. Held(t, e, fd, k) = t[fd].direct[k]
      BY <1>1 DEF Held
    <2>2. \A r \in DataRoles : Held(t, e, s, r) >= 0 => Held(u, e, s, r) = Held(t, e, s, r)
      BY <1>6, <1>7, <2>1 DEF DataRoles
    <2>3. Keeps(t, e, u, e, s, b)
      BY <2>2, TableKeeps
    <2>4. QED
      BY <1>11, <2>3, SubTables, KeepsBoth DEF t
  <1>13. Held(u, e, fd, k) = b /\ HasData(u, e, fd, k)
    BY <1>2, <1>4, <1>6, <1>7, <1>10 DEF HasData, DataRoles
  <1>14. k < DIRECT_POINTERS + INDIRECT_POINTERS
    BY <1>1, <1>2, RoleNumbers
  <1>15. call'.op = "sfs_fwrite" => WholeTo(u, e, call'.fd, call'.blockIndex)
    BY <1>1, <1>12, <1>13, <1>14, OneMoreBlock DEF d, k, fd, t
  <1>16. FilesInv'
    BY <1>1, <1>5, <1>7, <1>9, <1>10, <1>11, <1>12, <1>15, SubTables, FilesKept DEF d, t
  <1>17. DataWritten(G)
    BY <1>1, <1>4, <1>7, <1>8, <1>9, <1>10, <1>12, <1>13
       DEF DataWritten, DataOf, d, t, k, fd, bytes
  <1>18. QED
    BY <1>16, <1>17

(* Or under an indirect pointer, in the file's block of pointers. *)
LEMMA NewIndirectWhole ==
  ASSUME NEW G \in SUBSET Slot,
         IInv, BlockInv(G), Covers(G), FilesInv, Room, Room', WriteNewIndirect
  PROVE  FilesInv' /\ DataWritten(G)
  <1> DEFINE b == Min(freeBlocks)
             k == blockIndex
             fd == call.fd
             i == Indirect
             old == IndirectPointers(fd)
             pointers == [old EXCEPT ![k - DIRECT_POINTERS] = b]
             bytes == SubSeq(call.fileData, k * DISK_BLOCK_SIZE + 1,
                             (k + 1) * DISK_BLOCK_SIZE)
             m == MapWrite(freeBlocks')
             w == At(i, PointerBlock(pointers))
             x == At(b, DataBlock(bytes))
             t == iNodes
             d == DiskToBe
             d1 == Put(d, m)
             d2 == Put(d1, w)
             e == Put(d2, x)
  <1>1. /\ Writing /\ MoreBlocks
        /\ k \in DIRECT_POINTERS .. DIRECT_POINTERS + INDIRECT_POINTERS - 1
        /\ i >= 0 /\ i = t[fd].indirect /\ BlockNumber(fd, k) < 0
        /\ freeBlocks # {} /\ freeBlocks' = freeBlocks \ {b} /\ iNodes' = t
        /\ WriteData(<< m, w >>, b)
    BY DEF WriteNewIndirect, Indirect
  <1>2. fd \in G /\ fd \in Slot /\ k \in Nat /\ bytes \in Bytes
    BY <1>1, WriteInProgress, DataOfBlock DEF Covers, Writing
  <1>3. /\ t \in Tables /\ freeBlocks \in SUBSET Allocatable /\ d \in Disks
        /\ freeBlocks \subseteq FreshMap
    BY Typed DEF BlockInv, Sound
  <1>4. /\ b \in freeBlocks /\ b \in FreshMap /\ b \in Block /\ b \in SoundPointer
        /\ b # RootDirectoryIndex /\ b # -1 /\ b >= 0
    BY <1>1, <1>3, LowestFree, Places DEF Room
  <1>5. /\ pending = << >> /\ pending' = Append(<< m, w >>, x) /\ disk' = disk
        /\ directoryEntries' = directoryEntries
    BY <1>1 DEF WriteData, Writing
  <1>6. /\ old \in Pointers /\ PointersIn(d[i]) = old
        /\ old[k - DIRECT_POINTERS] = BlockNumber(fd, k)
    <2>1. ~(k < DIRECT_POINTERS)
      BY <1>1, <1>2, RoleNumbers
    <2>2. QED
      BY <1>1, <1>2, <2>1, BlockNumbers, HeldInMemory DEF IInv, BlockNumber
  <1>7. i \in FreshMap \ freeBlocks /\ i \in Block /\ i # -1
    BY <1>1, <1>2, OwnBlocks, Places
  <1>8. k \in DataRoles /\ k >= DIRECT_POINTERS /\ ~(k < DIRECT_POINTERS)
        /\ k - DIRECT_POINTERS \in 0 .. INDIRECT_POINTERS - 1
    BY <1>1, <1>2, RoleNumbers DEF Roles, IndirectRole, DataRoles
  <1>9. /\ pointers \in Pointers /\ pointers[k - DIRECT_POINTERS] = b
        /\ \A j \in 0 .. INDIRECT_POINTERS - 1 : old[j] >= 0 => pointers[j] = old[j]
    <2>1. /\ pointers \in Pointers
          /\ \A j \in 0 .. INDIRECT_POINTERS - 1 :
               pointers[j] = IF j = k - DIRECT_POINTERS THEN b ELSE old[j]
      BY <1>4, <1>6, <1>8 DEF Pointers
    <2>2. ~(old[k - DIRECT_POINTERS] >= 0)
      <3>1. old[k - DIRECT_POINTERS] \in SoundPointer
        BY <1>6, <1>8 DEF Pointers
      <3>2. QED
        BY <1>1, <1>6, <3>1, Sizes
    <2>3. QED
      BY <1>8, <2>1, <2>2
  <1>10. Held(t, d, fd, IndirectRole) = i
    BY <1>1, RoleNumbers DEF Held, IndirectRole
  <1> HIDE DEF b, bytes, k, fd, i, old, pointers
  <1>11. /\ x \in BlockWrite /\ x.at = b /\ x.contents.is = "data"
         /\ x.contents = DataBlock(bytes)
         /\ m \in BlockWrite /\ m.at = FreeBlockListIndex
         /\ w \in BlockWrite /\ PointersIn(w.contents) = pointers /\ w.at = i
    BY <1>1, <1>2, <1>3, <1>4, <1>7, <1>9, WriteParts DEF At
  <1> HIDE DEF x, m, w, t
  <1>12. DiskToBe' = e
    BY <1>5, <1>11, WithDataLast DEF IInv
  <1>13. /\ d1 \in Disks /\ d2 \in Disks
         /\ d1[i] = d[i] /\ e[i] = w.contents
         /\ e[iNodeTableIndex] = d[iNodeTableIndex]
         /\ e[RootDirectoryIndex] = d[RootDirectoryIndex]
         /\ e[b].is = "data" /\ e[b] = x.contents
    BY <1>3, <1>4, <1>7, <1>11, PutIs, Places DEF Disks, Room
  <1>14. ASSUME NEW v, Sub(G, v), NEW s \in G
         PROVE  Keeps(v, d, v, e, s, b)
    <2>1. /\ v[s].indirect # b
          /\ \A r \in Roles : Held(v, d, s, r) # FreeBlockListIndex
          /\ \A r \in DataRoles : Held(v, d, s, r) # i
      BY <1>2, <1>4, <1>7, <1>10, <1>14, NoRole, OneRole, Places, RoleNumbers DEF t
    <2>2. Keeps(v, d, v, d1, s, b) /\ \A r \in Roles : Held(v, d1, s, r) = Held(v, d, s, r)
      BY <1>3, <1>11, <1>14, <2>1, ApartKeeps DEF Sub
    <2>3. Keeps(v, d1, v, d2, s, b)
      <3>1. \A r \in DataRoles : Held(v, d1, s, r) # w.at
        BY <1>11, <2>1, <2>2 DEF DataRoles
      <3>2. \A j \in 0 .. INDIRECT_POINTERS - 1 :
              PointersIn(d1[w.at])[j] >= 0
                => PointersIn(w.contents)[j] = PointersIn(d1[w.at])[j]
        BY <1>6, <1>9, <1>11, <1>13
      <3>3. QED
        BY <1>11, <1>13, <1>14, <3>1, <3>2, PointersKeep DEF Sub
    <2>4. Keeps(v, d2, v, e, s, b)
      BY <1>11, <1>13, <1>14, <2>1, DataKeeps DEF Sub
    <2>5. QED
      BY <2>2, <2>3, <2>4, KeepsBoth
  <1> HIDE DEF e, d, d1, d2
  <1>15. Held(t, e, fd, k) = b /\ HasData(t, e, fd, k)
    <2>1. Held(t, e, fd, k) = b
      BY <1>1, <1>8, <1>9, <1>11, <1>13 DEF Held, DataRoles
    <2>2. QED
      BY <1>4, <1>13, <2>1 DEF HasData
  <1>16. k < DIRECT_POINTERS + INDIRECT_POINTERS
    BY <1>1, <1>2, RoleNumbers
  <1>17. call'.op = "sfs_fwrite" => WholeTo(t, e, call'.fd, call'.blockIndex)
    BY <1>1, <1>14, <1>15, <1>16, SubTables, OneMoreBlock DEF d, k, fd, t
  <1>18. FilesInv'
    BY <1>1, <1>5, <1>12, <1>13, <1>14, <1>17, SubTables, FilesKept DEF d, t
  <1>19. DataWritten(G)
    BY <1>1, <1>4, <1>11, <1>12, <1>13, <1>14, <1>15, SubTables
    DEF DataWritten, DataOf, d, t, k, fd, bytes
  <1>20. QED
    BY <1>18, <1>19

(* The first block beyond the direct pointers comes with one of pointers. *)
LEMMA FirstIndirectWhole ==
  ASSUME NEW G \in SUBSET Slot,
         IInv, BlockInv(G), Covers(G), FilesInv, Room, Room', WriteFirstIndirect
  PROVE  FilesInv' /\ DataWritten(G)
  <1> DEFINE i == Min(freeBlocks)
             b == Min(freeBlocks \ {i})
             k == blockIndex
             fd == call.fd
             pointers == [NoPointers EXCEPT ![0] = b]
             bytes == SubSeq(call.fileData, k * DISK_BLOCK_SIZE + 1,
                             (k + 1) * DISK_BLOCK_SIZE)
             l == MapWrite(freeBlocks \ {i})
             m == MapWrite(freeBlocks')
             w == At(i, PointerBlock(pointers))
             x == At(b, DataBlock(bytes))
             t == iNodes
             u == WithIndirect(t, fd, i)
             d == DiskToBe
             d1 == Put(d, l)
             d2 == Put(d1, m)
             d3 == Put(d2, w)
             e == Put(d3, x)
  <1>1. /\ Writing /\ MoreBlocks /\ t[fd].indirect < 0 /\ k >= DIRECT_POINTERS
        /\ Cardinality(freeBlocks) >= 2
        /\ freeBlocks' = freeBlocks \ {i, b} /\ iNodes' = u
        /\ WriteData(<< l, m, w >>, b)
    BY DEF WriteFirstIndirect, Indirect, WithIndirect
  <1>2. /\ fd \in G /\ fd \in Slot /\ k \in Nat /\ bytes \in Bytes
        /\ k > DIRECT_POINTERS => Indirect >= 0
    BY <1>1, WriteInProgress, DataOfBlock DEF Covers, Writing
  <1>3. /\ t \in Tables /\ freeBlocks \in SUBSET Allocatable /\ d \in Disks
        /\ freeBlocks \subseteq FreshMap
    BY Typed DEF BlockInv, Sound
  <1>4. /\ i \in freeBlocks /\ i \in Block /\ i \in SoundPointer
        /\ i # RootDirectoryIndex /\ i # -1 /\ i >= 0 /\ i \in FreshMap
    <2>1. i \in freeBlocks /\ i \in Block /\ i \in SoundPointer /\ i >= 0
      BY <1>1, <1>3, TwoFree, LowestFree
    <2>2. QED
      BY <1>1, <1>3, <2>1, Places DEF Room
  <1>5. /\ b \in freeBlocks /\ b # i /\ b \in Block /\ b \in SoundPointer
        /\ b # RootDirectoryIndex /\ b # -1 /\ b >= 0 /\ b \in FreshMap
    <2>1. freeBlocks \ {i} # {} /\ freeBlocks \ {i} \in SUBSET Allocatable
      BY <1>1, <1>3, TwoFree
    <2>2. b \in freeBlocks \ {i} /\ b \in Block /\ b \in SoundPointer /\ b >= 0
      BY <2>1, LowestFree
    <2>3. QED
      BY <1>1, <1>3, <2>2, Places DEF Room
  <1>6. /\ pending = << >> /\ pending' = Append(<< l, m, w >>, x) /\ disk' = disk
        /\ directoryEntries' = directoryEntries
    BY <1>1 DEF WriteData, Writing
  <1>7. k = DIRECT_POINTERS /\ k \in DataRoles
    <2>1. Indirect \in Int /\ Indirect < 0
      BY <1>1, WriteInProgress, Sizes DEF Indirect
    <2>2. QED
      BY <1>1, <1>2, <2>1, RoleNumbers DEF Roles, IndirectRole, DataRoles
  <1> HIDE DEF b, bytes, k, fd, i, t
  <1>8. pointers \in Pointers /\ pointers[0] = b
    BY <1>5, RoleNumbers DEF Pointers, NoPointers, SoundPointer
  <1> HIDE DEF pointers
  <1>9. ~(t[fd].indirect >= 0)
    BY <1>1, <1>2, <1>3, HeldType
  <1>10. /\ u[fd].indirect = i
         /\ \A c : \A s \in G, r \in Roles :
              s # fd \/ r < DIRECT_POINTERS => Held(u, c, s, r) = Held(t, c, s, r)
    BY <1>2, <1>3, <1>4, IndirectChanged
  <1>11. \A s \in G : u[s].size = t[s].size
    BY <1>2, <1>3, <1>4, InodeChanged DEF Tables, WithIndirect
  <1>12. freeBlocks \ {i} \in SUBSET Allocatable /\ freeBlocks' \in SUBSET Allocatable
    BY <1>1, <1>3
  <1>13. /\ x \in BlockWrite /\ x.at = b /\ x.contents.is = "data"
         /\ x.contents = DataBlock(bytes)
         /\ l \in BlockWrite /\ l.at = FreeBlockListIndex
         /\ m \in BlockWrite /\ m.at = FreeBlockListIndex
         /\ w \in BlockWrite /\ PointersIn(w.contents) = pointers /\ w.at = i
    BY <1>2, <1>4, <1>5, <1>8, <1>12, WriteParts DEF At
  <1> HIDE DEF x, m, l, w, u
  <1>14. DiskToBe' = e
    BY <1>6, <1>13, WithDataLast DEF IInv
  <1>15. /\ d1 \in Disks /\ d2 \in Disks /\ d3 \in Disks
         /\ e[i] = w.contents
         /\ e[iNodeTableIndex] = d[iNodeTableIndex]
         /\ e[RootDirectoryIndex] = d[RootDirectoryIndex]
         /\ e[b].is = "data" /\ e[b] = x.contents
    BY <1>3, <1>4, <1>5, <1>13, PutIs, Places DEF Disks
  <1>16. ASSUME NEW v, Sub(G, v), NEW s \in G
         PROVE  Keeps(v, d, v, e, s, b)
    <2>1. /\ v[s].indirect # b
          /\ \A r \in Roles : Held(v, d, s, r) # FreeBlockListIndex
          /\ \A r \in Roles : Held(v, d, s, r) # i
      BY <1>4, <1>5, <1>16, NoRole, Places
    <2>2. Keeps(v, d, v, d1, s, b) /\ \A r \in Roles : Held(v, d1, s, r) = Held(v, d, s, r)
      BY <1>3, <1>13, <1>16, <2>1, ApartKeeps DEF Sub
    <2>3. Keeps(v, d1, v, d2, s, b) /\ \A r \in Roles : Held(v, d2, s, r) = Held(v, d, s, r)
      BY <1>13, <1>15, <1>16, <2>1, <2>2, ApartKeeps DEF Sub
    <2>4. Keeps(v, d2, v, d3, s, b)
      BY <1>13, <1>15, <1>16, <2>1, <2>3, ApartKeeps DEF Sub
    <2>5. Keeps(v, d3, v, e, s, b)
      BY <1>13, <1>15, <1>16, <2>1, DataKeeps DEF Sub
    <2>6. QED
      BY <2>2, <2>3, <2>4, <2>5, KeepsBoth
  <1> HIDE DEF e, d, d1, d2, d3
  <1>17. ASSUME NEW s \in G PROVE Keeps(t, d, u, e, s, b)
    <2>1. \A r \in DataRoles : Held(t, e, s, r) >= 0 => Held(u, e, s, r) = Held(t, e, s, r)
      <3>1. ASSUME NEW r \in DataRoles, s = fd, ~(r < DIRECT_POINTERS)
            PROVE  Held(t, e, s, r) = -1
        BY <1>9, <3>1 DEF Held, DataRoles
      <3>2. QED
        BY <1>10, <3>1 DEF DataRoles
    <2>2. Keeps(t, e, u, e, s, b)
      BY <2>1, TableKeeps
    <2>3. QED
      BY <1>16, <2>2, SubTables, KeepsBoth DEF t
  <1>18. Held(u, e, fd, k) = b /\ HasData(u, e, fd, k)
    <2>1. k - DIRECT_POINTERS = 0 /\ ~(k < DIRECT_POINTERS)
      BY <1>2, <1>7, RoleNumbers
    <2>2. Held(u, e, fd, k) = b
      BY <1>4, <1>7, <1>8, <1>10, <1>13, <1>15, <2>1 DEF Held, DataRoles
    <2>3. QED
      BY <1>5, <1>15, <2>2 DEF HasData
  <1>19. k < DIRECT_POINTERS + INDIRECT_POINTERS
    BY <1>7, RoleNumbers
  <1>20. call'.op = "sfs_fwrite" => WholeTo(u, e, call'.fd, call'.blockIndex)
    BY <1>1, <1>17, <1>18, <1>19, OneMoreBlock DEF d, k, fd, t
  <1>21. FilesInv'
    BY <1>1, <1>6, <1>11, <1>14, <1>15, <1>16, <1>17, <1>20, SubTables, FilesKept DEF d, t
  <1>22. DataWritten(G)
    BY <1>1, <1>5, <1>11, <1>13, <1>14, <1>15, <1>17, <1>18
    DEF DataWritten, DataOf, d, t, k, fd, bytes
  <1>23. QED
    BY <1>21, <1>22

(* The error returns: while a block is free, only that of a file which is  *)
(* too large, and it writes nothing.                                       *)
LEMMA FailureWhole ==
  ASSUME NEW G \in SUBSET Slot,
         IInv, BlockInv(G), Covers(G), FilesInv, Room, Room',
         FileTooLarge \/ NoBlockLeft \/ NoBlockForFirstPointer \/ NoBlockForPointers
  PROVE  FileTooLarge /\ FilesInv'
  <1>1. FileTooLarge
    BY DEF Room, NoBlockLeft, NoBlockForFirstPointer, NoBlockForPointers
  <1>2. /\ iNodes' = iNodes /\ directoryEntries' = directoryEntries
        /\ pending = << >> /\ pending' = << >> /\ disk' = disk /\ call' = NoCall
    BY <1>1 DEF FileTooLarge, WriteFails, Writing
  <1>3. DiskToBe' = DiskToBe
    BY <1>2, WritesIssued DEF IInv
  <1>4. QED
    BY <1>1, <1>2, <1>3, FilesUntouched DEF NoCall

-----------------------------------------------------------------------------
(* The steps that save the table, so that it is the one in memory.         *)

LEMMA FilesSaved ==
  ASSUME NEW u, iNodes' = u, NEW e, DiskToBe' = e,
         e[iNodeTableIndex].inodes = u,
         e[RootDirectoryIndex] = DirectoryBlock(directoryEntries'),
         \A s \in Named' : Whole(u, e, s),
         call'.op # "sfs_fwrite"
  PROVE  FilesInv'
  <1>1. Saved' = u
    BY DEF Saved
  <1>2. QED
    BY <1>1 DEF FilesInv

(* sfs_fwrite has written every block that the new size asks for. *)
LEMMA WriteEndsWhole ==
  ASSUME NEW G \in SUBSET Slot,
         IInv, BlockInv(G), Covers(G), FilesInv, Room, WriteEnds
  PROVE  /\ FilesInv'
         /\ \A s \in G : Keeps(iNodes, DiskToBe, iNodes', DiskToBe', s, -1)
  <1> DEFINE size == call.fileSize
             fd == call.fd
             t == iNodes
             u == WithSize(t, fd, size)
             x == TableWrite(u)
             d == DiskToBe
             e == Put(d, x)
  <1>1. /\ Writing /\ ~MoreBlocks /\ iNodes' = u
        /\ pending = << >> /\ pending' = << x >> /\ disk' = disk
        /\ directoryEntries' = directoryEntries /\ call'.op = "return"
    BY DEF WriteEnds, WithSize, Writing
  <1>2. /\ fd \in G /\ fd \in Slot
        /\ t \in Tables /\ d \in Disks /\ blockIndex \in Nat
        /\ blockIndex <= DIRECT_POINTERS + INDIRECT_POINTERS
        /\ size \in Nat /\ Ceiling(size) \in Nat
    <2>1. call \in WriteCall
      BY <1>1, WriteInProgress
    <2>2. size \in Nat
      BY <2>1 DEF WriteCall
    <2>3. fd \in G
      BY <1>1 DEF Covers, Writing
    <2>4. QED
      BY <1>1, <2>2, <2>3, WriteInProgress, Typed, CeilingBound
  <1>3. Ceiling(size) <= blockIndex
    BY <1>1, <1>2 DEF MoreBlocks
  <1>4. u \in Tables
    <2>1. IInv'
      BY EndKeeps
    <2>2. QED
      BY <1>1, <2>1 DEF IInv, MemoryOK, Tables
  <1>5. /\ u[fd].size = size
        /\ \A s \in G : s # fd => u[s].size = t[s].size
        /\ \A s \in G : u[s].direct = t[s].direct /\ u[s].indirect = t[s].indirect
    <2>1. \A s \in G : t[s] \in SoundInode
      BY <1>2 DEF Tables
    <2>2. QED
      BY <1>2, <2>1 DEF WithSize, Tables, SoundInode
  <1>6. WholeTo(t, d, fd, blockIndex)
    BY <1>1 DEF FilesInv, Writing
  <1> HIDE DEF size, fd, u
  <1>7. /\ x \in BlockWrite /\ x.at = iNodeTableIndex /\ x.contents.inodes = u
    BY <1>4, WriteParts
  <1> HIDE DEF x
  <1>8. DiskToBe' = e
    BY <1>1, <1>7, WritesIssued DEF IInv
  <1>9. /\ e[iNodeTableIndex] = x.contents
        /\ e[RootDirectoryIndex] = d[RootDirectoryIndex]
    BY <1>2, <1>7, PutIs, Places DEF Disks
  <1>10. ASSUME NEW s \in G PROVE Keeps(t, d, u, e, s, -1)
    <2>1. \A r \in Roles : Held(t, d, s, r) # iNodeTableIndex
      BY SubTables, NoRole, Places
    <2>2. Keeps(t, d, t, e, s, -1)
      BY <1>2, <1>7, <2>1, ApartKeeps
    <2>3. \A r \in DataRoles : Held(u, e, s, r) = Held(t, e, s, r)
      BY <1>5 DEF Held
    <2> HIDE DEF t, d, e
    <2>4. Keeps(t, e, u, e, s, -1)
      BY <2>3, TableKeeps
    <2>5. QED
      BY <2>2, <2>4, KeepsBoth
  <1> HIDE DEF t, d, e
  <1>11. WholeTo(u, e, fd, Ceiling(size))
    <2>1. WholeTo(u, e, fd, blockIndex)
      BY <1>2, <1>6, <1>10, WholeStays
    <2>2. 0 .. Ceiling(size) - 1 \subseteq 0 .. blockIndex - 1
      BY <1>2, <1>3
    <2>3. QED
      BY <2>1, <2>2 DEF WholeTo
  <1>12. \A s \in Named : Whole(u, e, s)
    <2>1. Whole(u, e, fd)
      BY <1>2, <1>5, <1>11 DEF Whole
    <2>2. \A s \in Named : s # fd => Whole(u, e, s)
      BY <1>2, <1>5, <1>10, WholeKept DEF FilesInv, Named, t, d, Covers
    <2>3. QED
      BY <2>1, <2>2
  <1>13. Named' = Named
    BY <1>1 DEF Named
  <1>14. FilesInv'
    BY <1>1, <1>7, <1>8, <1>9, <1>12, <1>13, FilesSaved DEF FilesInv, d
  <1>15. QED
    BY <1>1, <1>8, <1>10, <1>14 DEF t, d

(* A new file is empty, and whole at once. *)
LEMMA OpenNewWhole ==
  ASSUME NEW G \in SUBSET Slot,
         IInv, BlockInv(G), Covers(G), FilesInv, Room, NEW n \in Name, OpenNew(n)
  PROVE  /\ FilesInv'
         /\ \A s \in G : Keeps(iNodes, DiskToBe, iNodes', DiskToBe', s, -1)
  <1> DEFINE fd == Min(EmptySlots)
             t == iNodes
             u == WithSize(t, fd, 0)
             x == TableWrite(u)
             y == DirectoryWrite(directoryEntries')
             d == DiskToBe
             e == Put(Put(d, x), y)
  <1>1. /\ iNodes' = u /\ EmptySlots # {}
        /\ pending = << >> /\ pending' = << x, y >> /\ disk' = disk
        /\ directoryEntries' = [directoryEntries EXCEPT ![fd] = n]
        /\ call'.op = "sfs_fopen"
    BY DEF OpenNew, WithSize, Idle
  <1>2. fd \in Slot /\ t \in Tables /\ d \in Disks
    <2>1. EmptySlots \in SUBSET Nat /\ EmptySlots \subseteq Slot
      BY DEF EmptySlots, Slot
    <2>2. fd \in EmptySlots
      BY <1>1, <2>1, MinIsMember
    <2>3. QED
      BY <2>1, <2>2, Typed
  <1>3. directoryEntries' \in Names /\ u \in Tables
    <2>1. IInv'
      BY OpenKeeps DEF sfs_fopen
    <2>2. QED
      BY <1>1, <2>1 DEF IInv, MemoryOK, Tables
  <1>4. /\ u[fd].size = 0
        /\ \A s \in G : s # fd => u[s].size = t[s].size
        /\ \A s \in G : u[s].direct = t[s].direct /\ u[s].indirect = t[s].indirect
    <2>1. \A s \in G : t[s] \in SoundInode
      BY <1>2 DEF Tables
    <2>2. QED
      BY <1>2, <2>1 DEF WithSize, Tables, SoundInode
  <1>5. \A s \in Named' : s \in Slot /\ (s # fd => s \in Named)
    BY <1>1, <1>2 DEF Named, IInv, MemoryOK, Names
  <1> HIDE DEF fd, u
  <1>6. /\ x \in BlockWrite /\ x.at = iNodeTableIndex /\ x.contents.inodes = u
        /\ y \in BlockWrite /\ y.at = RootDirectoryIndex
        /\ y.contents = DirectoryBlock(directoryEntries')
    BY <1>3, WriteParts
  <1> HIDE DEF x, y
  <1>7. DiskToBe' = e
    BY <1>1, <1>6, WritesIssued DEF IInv
  <1>8. /\ Put(d, x) \in Disks
        /\ e[iNodeTableIndex] = x.contents
        /\ e[RootDirectoryIndex] = y.contents
    BY <1>2, <1>6, PutIs, Places DEF Disks
  <1>9. ASSUME NEW s \in G PROVE Keeps(t, d, u, e, s, -1)
    <2>1. \A r \in Roles : /\ Held(t, d, s, r) # iNodeTableIndex
                           /\ Held(t, d, s, r) # RootDirectoryIndex
      BY SubTables, NoRole, Places DEF Room
    <2>2. /\ Keeps(t, d, t, Put(d, x), s, -1)
          /\ \A r \in Roles : Held(t, Put(d, x), s, r) = Held(t, d, s, r)
      BY <1>2, <1>6, <2>1, ApartKeeps
    <2>3. Keeps(t, Put(d, x), t, e, s, -1)
      BY <1>2, <1>6, <1>8, <2>1, <2>2, ApartKeeps
    <2>4. \A r \in DataRoles : Held(u, e, s, r) = Held(t, e, s, r)
      BY <1>4 DEF Held
    <2> HIDE DEF t, d, e
    <2>5. Keeps(t, e, u, e, s, -1)
      BY <2>4, TableKeeps
    <2>6. QED
      BY <2>2, <2>3, <2>5, KeepsBoth
  <1> HIDE DEF t, d, e
  <1>10. Whole(u, e, fd)
    <2>1. Ceiling(0) = 0
      BY Sizes DEF Ceiling
    <2>2. QED
      BY <1>4, <2>1 DEF Whole, WholeTo
  <1>11. \A s \in Named' : Whole(u, e, s)
    BY <1>2, <1>4, <1>5, <1>9, <1>10, WholeKept DEF FilesInv, t, d, Covers
  <1>12. FilesInv'
    BY <1>1, <1>6, <1>7, <1>8, <1>11, FilesSaved
  <1>13. QED
    BY <1>1, <1>7, <1>9, <1>12 DEF t, d

(* A file is removed: the others keep their blocks. *)
LEMMA RemoveFileWhole ==
  ASSUME NEW G \in SUBSET Slot,
         IInv, BlockInv(G), Covers(G), FilesInv, Room, NEW n \in Name, RemoveFile(n)
  PROVE  /\ FilesInv'
         /\ \A s \in G \ {Min(SlotsOf(n))} :
              Keeps(iNodes, DiskToBe, iNodes', DiskToBe', s, -1)
  <1> DEFINE fd == Min(SlotsOf(n))
             left == freeBlocks'
             t == iNodes
             u == [t EXCEPT ![fd] = UnusedInode]
             x == DirectoryWrite(directoryEntries')
             y == MapWrite(left)
             z == TableWrite(u)
             d == DiskToBe
             d1 == Put(d, x)
             d2 == Put(d1, y)
             e == Put(d2, z)
  <1>1. /\ SlotsOf(n) # {} /\ iNodes' = u
        /\ directoryEntries' = [directoryEntries EXCEPT ![fd] = Empty]
        /\ pending = << >> /\ pending' = << x, y, z >> /\ disk' = disk
        /\ call'.op = "sfs_remove"
    BY DEF RemoveFile, Idle
  <1>2. fd \in Slot /\ t \in Tables /\ d \in Disks
    <2>1. SlotsOf(n) \in SUBSET Nat /\ SlotsOf(n) \subseteq Slot
      BY DEF SlotsOf, Slot
    <2>2. fd \in SlotsOf(n)
      BY <1>1, <2>1, MinIsMember
    <2>3. QED
      BY <2>1, <2>2, Typed
  <1>3. directoryEntries' \in Names /\ u \in Tables /\ left \in SUBSET Allocatable
    <2>1. IInv'
      BY RemoveKeeps DEF sfs_remove
    <2>2. QED
      BY <1>1, <2>1 DEF IInv, MemoryOK, Tables
  <1>4. \A s \in G : s # fd => u[s] = t[s]
    BY <1>2 DEF Tables
  <1>5. \A s \in Named' : s \in Named /\ s \in Slot /\ s # fd
    BY <1>1, <1>2 DEF Named, IInv, MemoryOK, Names
  <1> HIDE DEF fd, u, left
  <1>6. /\ x \in BlockWrite /\ x.at = RootDirectoryIndex
        /\ x.contents = DirectoryBlock(directoryEntries')
        /\ y \in BlockWrite /\ y.at = FreeBlockListIndex
        /\ z \in BlockWrite /\ z.at = iNodeTableIndex /\ z.contents.inodes = u
    BY <1>3, WriteParts
  <1> HIDE DEF x, y, z
  <1>7. DiskToBe' = e
    BY <1>1, <1>6, WritesIssued DEF IInv
  <1>8. /\ d1 \in Disks /\ d2 \in Disks
        /\ e[iNodeTableIndex] = z.contents
        /\ e[RootDirectoryIndex] = x.contents
    BY <1>2, <1>6, PutIs, Places DEF Disks
  <1>9. ASSUME NEW s \in G, s # fd PROVE Keeps(t, d, u, e, s, -1)
    <2>1. \A r \in Roles : /\ Held(t, d, s, r) # iNodeTableIndex
                           /\ Held(t, d, s, r) # RootDirectoryIndex
                           /\ Held(t, d, s, r) # FreeBlockListIndex
      BY SubTables, NoRole, Places DEF Room
    <2>2. Keeps(t, d, t, d1, s, -1) /\ \A r \in Roles : Held(t, d1, s, r) = Held(t, d, s, r)
      BY <1>2, <1>6, <2>1, ApartKeeps
    <2>3. Keeps(t, d1, t, d2, s, -1) /\ \A r \in Roles : Held(t, d2, s, r) = Held(t, d, s, r)
      BY <1>2, <1>6, <1>8, <2>1, <2>2, ApartKeeps
    <2>4. Keeps(t, d2, t, e, s, -1)
      BY <1>2, <1>6, <1>8, <2>1, <2>3, ApartKeeps
    <2>5. \A r \in DataRoles : Held(u, e, s, r) = Held(t, e, s, r)
      BY <1>4, <1>9 DEF Held
    <2> HIDE DEF t, d, d1, d2, e
    <2>6. Keeps(t, e, u, e, s, -1)
      BY <2>5, TableKeeps
    <2>7. QED
      BY <2>2, <2>3, <2>4, <2>6, KeepsBoth
  <1> HIDE DEF t, d, d1, d2, e
  <1>10. \A s \in Named' : Whole(u, e, s)
    BY <1>2, <1>4, <1>5, <1>9, WholeKept DEF FilesInv, t, d, Covers
  <1>11. FilesInv'
    BY <1>1, <1>6, <1>7, <1>8, <1>10, FilesSaved
  <1>12. QED
    BY <1>1, <1>7, <1>9, <1>11 DEF t, d, fd

-----------------------------------------------------------------------------
(* Mounting, and every step.                                               *)

(* mksfs(1): no file. *)
LEMMA FreshWhole ==
  ASSUME mksfs_fresh
  PROVE  FilesInv'
  <1>1. /\ iNodes' = FreshInodes /\ directoryEntries' = FreshNames
        /\ disk' = FreshDisk /\ pending' = << >> /\ call' = NoCall
    BY DEF mksfs_fresh, Idle
  <1>2. DiskToBe' = FreshDisk
    BY <1>1, FreshBlocks, NothingPendingNext
  <1>3. FreshDisk[RootDirectoryIndex] = DirectoryBlock(FreshNames)
    <2>1. RootDirectoryIndex # SuperBlockIndex
      BY LayoutAssumption DEF SuperBlockIndex, iNodeTableIndex
    <2>2. QED
      BY <2>1, Places DEF FreshDisk
  <1>4. Named' = {}
    BY <1>1 DEF Named, FreshNames
  <1>5. QED
    BY <1>1, <1>2, <1>3, <1>4, FreshBlocks, FilesSaved DEF NoCall

(* mksfs(0): each file with its i-node in memory or the one saved. *)
LEMMA RemountWhole ==
  ASSUME NEW G \in SUBSET Slot,
         IInv, BlockInv(G), Covers(G), FilesInv, Remount
  PROVE  /\ FilesInv'
         /\ directoryEntries' = directoryEntries /\ DiskToBe' = DiskToBe
         /\ \A s \in Slot : iNodes'[s] \in {Saved[s], iNodes[s]}
  <1> DEFINE d == DiskToBe
  <1>1. /\ d = disk /\ d \in Disks /\ pending' = << >> /\ disk' = disk
        /\ call' = NoCall
    BY NothingPending, Typed DEF IInv, Remount, Idle
  <1>2. DiskToBe' = d
    BY <1>1, NothingPendingNext
  <1>3. \A s \in Slot : iNodes'[s] \in {Saved[s], iNodes[s]}
    BY <1>1 DEF Remount, mksfs_existing, Saved
  <1>4. directoryEntries' = directoryEntries
    <2>1. d[RootDirectoryIndex].names = directoryEntries
      BY DEF FilesInv, DirectoryBlock
    <2>2. \A s \in Slot : directoryEntries'[s] = directoryEntries[s]
      BY <1>1, <2>1 DEF Remount, mksfs_existing
    <2>3. directoryEntries \in Names /\ directoryEntries' \in Names
      BY MountKeeps DEF IInv, MemoryOK
    <2>4. QED
      BY <2>2, <2>3 DEF Names
  <1>5. Saved' = Saved /\ Named' = Named
    BY <1>2, <1>4 DEF Saved, Named
  <1>6. \A s \in Named : Whole(iNodes', d, s) /\ Saved[s].size = iNodes'[s].size
    <2>1. \A s \in Named : \A v, w : v[s] = w[s] /\ Whole(v, d, s) => Whole(w, d, s)
      BY DEF Whole, WholeTo, HasData, Held
    <2>2. \A s \in Named : s \in Slot
      BY DEF Named
    <2>3. QED
      BY <1>3, <2>1, <2>2 DEF FilesInv
  <1>7. QED
    BY <1>1, <1>2, <1>3, <1>4, <1>5, <1>6 DEF FilesInv, NoCall

LEMMA FilesFlush ==
  ASSUME NEW G \in SUBSET Slot,
         IInv, BlockInv(G), Covers(G), FilesInv, Flush
  PROVE  FilesInv'
  <1>1. /\ iNodes' = iNodes /\ directoryEntries' = directoryEntries
        /\ call' = call \/ call' = NoCall
    BY DEF Flush, memory
  <1>2. DiskToBe' = DiskToBe
    BY FlushedTheSame DEF IInv
  <1>3. QED
    BY <1>1, <1>2, FilesUntouched DEF NoCall

(* The calls that change neither a table nor the disk. *)
LEMMA QuietWhole ==
  ASSUME NEW G \in SUBSET Slot,
         IInv, BlockInv(G), Covers(G), FilesInv,
         UNCHANGED << directoryEntries, iNodes, disk, pending >>,
         call' = call \/ call'.blockIndex = 0
  PROVE  FilesInv'
  <1>1. DiskToBe' = DiskToBe
    BY DEF DiskToBe, Latest
  <1>2. QED
    BY <1>1, FilesUntouched

(* Every step between two states in which the block of the directory is    *)
(* free keeps the files whole.                                             *)
LEMMA FilesInductive ==
  ASSUME NEW G \in SUBSET Slot,
         IInv, BlockInv(G), Covers(G), FilesInv, Room, Room', [Process]_vars
  PROVE  FilesInv'
  <1>1. ASSUME NEW n \in Name, sfs_fopen(n) PROVE FilesInv'
    <2>1. CASE OpenNew(n)
      BY <2>1, OpenNewWhole
    <2>2. CASE OpenExisting(n) \/ OpenFails(n)
      BY <2>2, QuietWhole DEF OpenExisting, OpenFails, memory
    <2>3. QED
      BY <1>1, <2>1, <2>2 DEF sfs_fopen
  <1>2. CASE Refuse
    BY <1>2, QuietWhole DEF Refuse, memory
  <1>3. ASSUME NEW n \in Name, sfs_remove(n) PROVE FilesInv'
    BY <1>2, <1>3, RemoveFileWhole DEF sfs_remove
  <1>4. ASSUME NEW fd \in Slot, NEW to, NEW outcome, MovePointer(fd, to, outcome)
        PROVE  FilesInv'
    BY <1>4, QuietWhole DEF MovePointer
  <1>5. ASSUME NEW fd \in Slot,
               \/ sfs_fclose(fd)
               \/ \E location \in 0 .. MaxFileSize : sfs_fseek(fd, location)
               \/ \E count \in 0 .. MaxCount : sfs_fread(fd, count)
        PROVE  FilesInv'
    BY <1>2, <1>4, <1>5 DEF sfs_fclose, sfs_fseek, sfs_fread
  <1>6. ASSUME NEW fd \in Slot, NEW buf \in Buffer, sfs_fwrite(fd, buf)
        PROVE  FilesInv'
    <2>1. CASE WriteBegins(fd, buf)
      <3>1. call'.blockIndex = 0
        BY <2>1 DEF WriteBegins
      <3>2. QED
        BY <2>1, <3>1, QuietWhole DEF WriteBegins
    <2>2. QED
      BY <1>2, <1>6, <2>1 DEF sfs_fwrite
  <1>7. CASE WriteLoop
    BY <1>7, KnownBlockWhole, NewDirectWhole, NewIndirectWhole, FirstIndirectWhole,
       FailureWhole, WriteEndsWhole DEF WriteLoop
  <1>8. CASE Flush
    BY <1>8, FilesFlush
  <1>9. CASE mksfs_fresh \/ Remount
    BY <1>9, FreshWhole, RemountWhole
  <1>10. CASE UNCHANGED vars
    BY <1>10, QuietWhole DEF vars, memory
  <1>11. QED
    BY <1>1, <1>3, <1>5, <1>6, <1>7, <1>8, <1>9, <1>10 DEF Process, Call

LEMMA FilesInitially == Init => FilesInv
  <1> SUFFICES ASSUME Init PROVE FilesInv
    OBVIOUS
  <1>1. /\ iNodes = FreshInodes /\ directoryEntries = FreshNames
        /\ disk = FreshDisk /\ pending = << >> /\ call = NoCall
    BY DEF Init
  <1>2. DiskToBe = FreshDisk
    BY <1>1, Initially, NothingPending DEF IInv
  <1>3. FreshDisk[RootDirectoryIndex] = DirectoryBlock(FreshNames)
    <2>1. RootDirectoryIndex # SuperBlockIndex
      BY LayoutAssumption DEF SuperBlockIndex, iNodeTableIndex
    <2>2. QED
      BY <2>1, Places DEF FreshDisk
  <1>4. Named = {}
    BY <1>1 DEF Named, FreshNames
  <1>5. QED
    BY <1>1, <1>2, <1>3, <1>4 DEF FilesInv, NoCall

(* What the invariant says of the files in memory. *)
LEMMA BlocksKnown ==
  ASSUME IInv, FilesInv, NEW s \in Named
  PROVE  /\ iNodes[s].size >= 0
         /\ AllBlocksKnown(s)
         /\ \A k \in BlocksInUse(s) : Latest(BlockNumber(s, k)).is = "data"
  <1>1. /\ Whole(iNodes, DiskToBe, s) /\ iNodes \in Tables /\ DiskToBe \in Disks
        /\ s \in Slot
    BY Typed DEF FilesInv, Named
  <1>2. iNodes[s].size >= 0
    BY <1>1 DEF Whole
  <1>3. ASSUME NEW k \in BlocksInUse(s)
        PROVE  BlockNumber(s, k) >= 0 /\ Latest(BlockNumber(s, k)).is = "data"
    <2>1. k \in 0 .. DIRECT_POINTERS + INDIRECT_POINTERS - 1
      BY <1>1, <1>2, BlocksOfInode, RoleNumbers DEF BlocksInUse
    <2>2. HasData(iNodes, DiskToBe, s, k)
      BY <1>1, <1>3 DEF Whole, WholeTo, BlocksInUse
    <2>3. Held(iNodes, DiskToBe, s, k) = BlockNumber(s, k) /\ k \in Roles
      BY <1>1, <2>1, HeldInMemory, RoleNumbers
    <2>4. BlockNumber(s, k) >= 0 /\ BlockNumber(s, k) \in Block
      BY <1>1, <2>2, <2>3, HeldIsBlock DEF HasData
    <2>5. DiskToBe[BlockNumber(s, k)] = Latest(BlockNumber(s, k))
      BY <2>4 DEF DiskToBe
    <2>6. QED
      BY <2>2, <2>3, <2>4, <2>5 DEF HasData
  <1>4. QED
    BY <1>2, <1>3 DEF AllBlocksKnown

LEMMA WholeFiles ==
  ASSUME IInv, FilesInv
  PROVE  FilesWhole
  BY BlocksKnown DEF FilesWhole, Named

-----------------------------------------------------------------------------
(* The theorem.                                                            *)

(* As long as no file has the block of the root directory, a file of the   *)
(* directory has its i-node, a block for each of its bytes and data in     *)
(* every one of them: sfs_fwrite saves the new size last, an error return  *)
(* leaves the old one, and mksfs(0) finds no i-node that promises more     *)
(* than the disk holds.  (When a file has that block, sfs_fopen and        *)
(* sfs_remove write the directory over its data.)                          *)
THEOREM FilesStayWhole == ProcessSpec /\ []Room => []FilesWhole
  <1>1. IInv /\ FilesInv => FilesWhole
    BY WholeFiles
  <1>2. IInv /\ BlockInv(Slot) /\ FilesInv /\ Room /\ Room' /\ [Process]_vars => FilesInv'
    BY AllSlotsCover, FilesInductive
  <1>3. QED
    BY <1>1, <1>2, BlocksApart, FilesInitially, PTL DEF ProcessSpec

-----------------------------------------------------------------------------
(* The bytes of a file.                                                    *)

(* Byte i of slot s: in which of its blocks it is, and where in the block. *)
BlockOf(i) == (i - 1) \div DISK_BLOCK_SIZE
OffsetOf(i) == ((i - 1) % DISK_BLOCK_SIZE) + 1
ByteAt(t, d, s, i) == d[Held(t, d, s, BlockOf(i))].bytes[OffsetOf(i)]

LEMMA PlaceOfByte ==
  ASSUME NEW n \in Nat, NEW i \in 1 .. n
  PROVE  /\ BlockOf(i) \in 0 .. Ceiling(n) - 1
         /\ OffsetOf(i) \in 1 .. DISK_BLOCK_SIZE
         /\ i = BlockOf(i) * DISK_BLOCK_SIZE + OffsetOf(i)
         /\ n \in 0 .. MaxFileSize => BlockOf(i) \in DataRoles
  <1> DEFINE q == (i - 1) \div DISK_BLOCK_SIZE
             r == (i - 1) % DISK_BLOCK_SIZE
  <1>1. DISK_BLOCK_SIZE \in Nat \ {0} /\ i - 1 \in Nat /\ i \in Nat
    BY Sizes
  <1>2. q \in Nat /\ r \in 0 .. DISK_BLOCK_SIZE - 1 /\ i - 1 = q * DISK_BLOCK_SIZE + r
    BY <1>1, Division
  <1>3. Ceiling(n) \in Nat /\ n <= Ceiling(n) * DISK_BLOCK_SIZE
    BY CeilingBound
  <1>4. q \in 0 .. Ceiling(n) - 1
    <2>1. Ceiling(n) * DISK_BLOCK_SIZE \in Nat
      BY <1>1, <1>3
    <2>2. i - 1 < Ceiling(n) * DISK_BLOCK_SIZE
      BY <1>1, <1>3, <2>1
    <2>3. QED
      BY <1>1, <1>3, <2>2, BlockOfByte
  <1>5. n \in 0 .. MaxFileSize => q \in DataRoles
    <2> HIDE DEF q, r
    <2>1. n \in 0 .. MaxFileSize => Ceiling(n) <= DIRECT_POINTERS + INDIRECT_POINTERS
      BY BlocksOfSize
    <2>2. QED
      BY <1>3, <1>4, <2>1, RoleNumbers DEF DataRoles
  <1>6. r + 1 \in 1 .. DISK_BLOCK_SIZE /\ i = q * DISK_BLOCK_SIZE + (r + 1)
    <2>1. q * DISK_BLOCK_SIZE \in Nat
      BY <1>1, <1>2
    <2> HIDE DEF q, r
    <2>2. QED
      BY <1>1, <1>2, <2>1
  <1>7. QED
    BY <1>4, <1>5, <1>6 DEF BlockOf, OffsetOf

(* What the files of the directory are. *)
FilesRead ==
  \A s \in Named :
    /\ s \in Slot
    /\ iNodes[s].size \in 0 .. MaxFileSize /\ iNodes[s].size \in Nat
    /\ Content(s) \in Data /\ Len(Content(s)) = iNodes[s].size
    /\ \A i \in 1 .. iNodes[s].size :
         /\ BlockOf(i) \in DataRoles
         /\ HasData(iNodes, DiskToBe, s, BlockOf(i))
         /\ Content(s)[i] = ByteAt(iNodes, DiskToBe, s, i)

LEMMA FilesAreRead == IInv /\ FilesInv => FilesRead
  <1> SUFFICES ASSUME IInv, FilesInv, NEW s \in Named
               PROVE  /\ s \in Slot
                      /\ iNodes[s].size \in 0 .. MaxFileSize /\ iNodes[s].size \in Nat
                      /\ Content(s) \in Data /\ Len(Content(s)) = iNodes[s].size
                      /\ \A i \in 1 .. iNodes[s].size :
                           /\ BlockOf(i) \in DataRoles
                           /\ HasData(iNodes, DiskToBe, s, BlockOf(i))
                           /\ Content(s)[i] = ByteAt(iNodes, DiskToBe, s, i)
    BY DEF FilesRead
  <1> DEFINE n == iNodes[s].size
  <1>1. /\ s \in Slot /\ iNodes \in Tables /\ DiskToBe \in Disks
        /\ Whole(iNodes, DiskToBe, s)
    BY Typed DEF FilesInv, Named
  <1>2. n \in 0 .. MaxFileSize /\ n \in Nat
    <2>1. n \in 0 .. MaxFileSize \cup {-1} /\ n >= 0
      BY <1>1, OpenFile DEF Whole
    <2>2. QED
      BY <2>1, Sizes
  <1>3. Content(s) \in Data /\ Len(Content(s)) = n
    BY <1>1, <1>2, ContentOfFile DEF IInv
  <1>4. ASSUME NEW i \in 1 .. n
        PROVE  /\ BlockOf(i) \in DataRoles
               /\ HasData(iNodes, DiskToBe, s, BlockOf(i))
               /\ Content(s)[i] = ByteAt(iNodes, DiskToBe, s, i)
    <2> DEFINE k == BlockOf(i)
               b == BlockNumber(s, k)
    <2>1. k \in DataRoles /\ k \in 0 .. Ceiling(n) - 1
      BY <1>2, PlaceOfByte
    <2> HIDE DEF n
    <2>2. HasData(iNodes, DiskToBe, s, k)
      BY <1>1, <2>1 DEF Whole, WholeTo, n
    <2>3. k \in 0 .. DIRECT_POINTERS + INDIRECT_POINTERS - 1 /\ k \in Roles
      BY <2>1, RoleNumbers DEF DataRoles
    <2>4. Held(iNodes, DiskToBe, s, k) = b
      BY <1>1, <2>3, HeldInMemory
    <2>5. b >= 0 /\ b \in Block
      BY <1>1, <2>2, <2>3, <2>4, HeldIsBlock DEF HasData
    <2>6. DiskToBe[b] = Latest(b) /\ Latest(b).is = "data"
      BY <2>2, <2>4, <2>5 DEF DiskToBe, HasData
    <2>7. Content(s)[i]
            = IF b >= 0 /\ Latest(b).is = "data" THEN Latest(b).bytes[OffsetOf(i)] ELSE Junk
      BY <1>4 DEF Content, n, BlockOf, OffsetOf
    <2> HIDE DEF k, b
    <2>8. Content(s)[i] = ByteAt(iNodes, DiskToBe, s, i)
      BY <2>4, <2>5, <2>6, <2>7 DEF ByteAt, k
    <2>9. QED
      BY <2>1, <2>2, <2>8 DEF k
  <1>5. QED
    BY <1>1, <1>2, <1>3, <1>4

(* In the next state too. *)
LEMMA FilesAreReadNext == IInv' /\ FilesInv' => FilesRead'
  BY FilesAreRead, PTL

(* A byte stays where it is, unless its block is the one written. *)
LEMMA ByteKept ==
  ASSUME NEW t, NEW d, NEW u, NEW e, NEW s, NEW b, Keeps(t, d, u, e, s, b),
         NEW i, BlockOf(i) \in DataRoles, HasData(t, d, s, BlockOf(i)),
         Held(t, d, s, BlockOf(i)) # b
  PROVE  ByteAt(u, e, s, i) = ByteAt(t, d, s, i)
  BY DEF Keeps, ByteAt

(* A file none of whose blocks is written stays as it was. *)
LEMMA ContentKept ==
  ASSUME IInv, FilesInv, IInv', FilesInv', NEW s \in Named, s \in Named',
         iNodes'[s].size = iNodes[s].size,
         NEW b, Keeps(iNodes, DiskToBe, iNodes', DiskToBe', s, b),
         \A k \in DataRoles : HasData(iNodes, DiskToBe, s, k)
                                => Held(iNodes, DiskToBe, s, k) # b
  PROVE  Content(s)' = Content(s)
  <1> DEFINE n == iNodes[s].size
  <1>1. /\ Content(s) \in Data /\ Len(Content(s)) = n
        /\ \A i \in 1 .. n : /\ BlockOf(i) \in DataRoles
                             /\ HasData(iNodes, DiskToBe, s, BlockOf(i))
                             /\ Content(s)[i] = ByteAt(iNodes, DiskToBe, s, i)
    BY FilesAreRead DEF FilesRead
  <1>2. /\ Content(s)' \in Data /\ Len(Content(s)') = iNodes'[s].size
        /\ \A i \in 1 .. iNodes'[s].size :
             Content(s)'[i] = ByteAt(iNodes', DiskToBe', s, i)
    BY FilesAreReadNext DEF FilesRead
  <1>3. \A i \in 1 .. n : Content(s)'[i] = Content(s)[i]
    BY <1>1, <1>2, ByteKept
  <1> HIDE DEF n
  <1>4. QED
    BY <1>1, <1>2, <1>3, SeqEqual DEF Data, n

-----------------------------------------------------------------------------
(* Files by name.                                                          *)

(* No two slots have the same name; no name lacks its terminator.          *)
NamesInv ==
  \A s, t \in Named : directoryEntries[s] = directoryEntries[t] => s = t
ShortNames == \A s \in Slot : directoryEntries[s] \notin LongName

(* What the caller of sfs_fopen .. sfs_remove sees of a slot.              *)
FileIn(s) == IF InWrite(s) THEN call.old ELSE Content(s)
PositionIn(s) == IF InWrite(s) THEN call.rwPointer ELSE read_writePointers[s]

(* The files of the abstraction, slot by slot. *)
BySlots ==
  /\ DOMAIN FilesByName = Name /\ DOMAIN PositionsByName = Name
  /\ \A s \in Named :
       /\ s \in Slot /\ directoryEntries[s] \in Name
       /\ FilesByName[directoryEntries[s]] = FileIn(s)
       /\ PositionsByName[directoryEntries[s]] = PositionIn(s)
  /\ \A n \in Name : (\A s \in Named : directoryEntries[s] # n)
       => FilesByName[n] = Absent /\ PositionsByName[n] = -1

LEMMA NamesOfSlots == IInv /\ NamesInv => BySlots
  <1> SUFFICES ASSUME IInv, NamesInv PROVE BySlots
    OBVIOUS
  <1>0. directoryEntries \in [Slot -> Name \cup {Empty}] /\ Empty \notin Name
    BY NameAssumption DEF IInv, MemoryOK, Names
  <1>1. ASSUME NEW s \in Named
        PROVE  /\ s \in Slot /\ directoryEntries[s] \in Name
               /\ Exists(directoryEntries[s]) /\ SlotOf(directoryEntries[s]) = s
    <2>1. s \in Slot /\ directoryEntries[s] \in Name
      BY <1>0 DEF Named
    <2>2. \A t \in Slot : directoryEntries[t] = directoryEntries[s] => t = s
      BY <1>0, <2>1 DEF Named, NamesInv
    <2>3. SlotOf(directoryEntries[s]) = s
      BY <2>1, <2>2 DEF SlotOf
    <2>4. QED
      BY <2>1, <2>3 DEF Exists
  <1>2. ASSUME NEW n \in Name, \A s \in Named : directoryEntries[s] # n
        PROVE  ~Exists(n)
    BY <1>0, <1>2 DEF Exists, Named
  <1>3. /\ DOMAIN FilesByName = Name /\ DOMAIN PositionsByName = Name
        /\ \A n \in Name : ~Exists(n) => FilesByName[n] = Absent /\ PositionsByName[n] = -1
        /\ \A n \in Name : Exists(n) => FilesByName[n] = FileIn(SlotOf(n))
                                       /\ PositionsByName[n] = PositionIn(SlotOf(n))
    BY DEF FilesByName, PositionsByName, FileIn, PositionIn
  <1>4. QED
    BY <1>1, <1>2, <1>3 DEF BySlots

LEMMA NamesOfSlotsNext == IInv' /\ NamesInv' => BySlots'
  BY NamesOfSlots, PTL

(* Every name has a slot or none. *)
LEMMA SameNames ==
  ASSUME directoryEntries' = directoryEntries
  PROVE  Named' = Named /\ (NamesInv => NamesInv')
  BY DEF Named, NamesInv

(* The abstraction changes where the slots do. *)
LEMMA OneSlotChanges ==
  ASSUME BySlots, BySlots', directoryEntries' = directoryEntries, NamesInv,
         NEW f \in Named,
         \A s \in Named \ {f} : FileIn(s)' = FileIn(s) /\ PositionIn(s)' = PositionIn(s)
  PROVE  /\ FilesByName' = [FilesByName EXCEPT ![directoryEntries[f]] = FileIn(f)']
         /\ PositionsByName'
              = [PositionsByName EXCEPT ![directoryEntries[f]] = PositionIn(f)']
  <1> DEFINE n == directoryEntries[f]
  <1>1. Named' = Named
    BY SameNames
  <1>2. /\ n \in Name /\ FilesByName'[n] = FileIn(f)' /\ PositionsByName'[n] = PositionIn(f)'
        /\ DOMAIN FilesByName = Name /\ DOMAIN PositionsByName = Name
        /\ DOMAIN FilesByName' = Name /\ DOMAIN PositionsByName' = Name
    BY <1>1 DEF BySlots
  <1>3. ASSUME NEW m \in Name, m # n
        PROVE  /\ FilesByName'[m] = FilesByName[m]
               /\ PositionsByName'[m] = PositionsByName[m]
    <2>1. CASE \E s \in Named : directoryEntries[s] = m
      BY <1>1, <1>3, <2>1 DEF BySlots
    <2>2. CASE \A s \in Named : directoryEntries[s] # m
      BY <1>1, <1>3, <2>2 DEF BySlots
    <2>3. QED
      BY <2>1, <2>2
  <1> HIDE DEF n
  <1>4. FilesByName' = [m \in Name |-> FilesByName'[m]]
        /\ PositionsByName' = [m \in Name |-> PositionsByName'[m]]
        /\ FilesByName = [m \in Name |-> FilesByName[m]]
        /\ PositionsByName = [m \in Name |-> PositionsByName[m]]
    BY DEF FilesByName, PositionsByName
  <1>5. FilesByName' = [FilesByName EXCEPT ![n] = FileIn(f)']
    BY <1>2, <1>3, <1>4
  <1>6. PositionsByName' = [PositionsByName EXCEPT ![n] = PositionIn(f)']
    BY <1>2, <1>3, <1>4
  <1>7. QED
    BY <1>5, <1>6 DEF n

LEMMA NoSlotChanges ==
  ASSUME BySlots, BySlots', directoryEntries' = directoryEntries,
         \A s \in Named : FileIn(s)' = FileIn(s)
  PROVE  /\ FilesByName' = FilesByName
         /\ (\A s \in Named : PositionIn(s)' = PositionIn(s))
              => PositionsByName' = PositionsByName
  <1>1. Named' = Named
    BY SameNames
  <1>2. /\ DOMAIN FilesByName = Name /\ DOMAIN PositionsByName = Name
        /\ DOMAIN FilesByName' = Name /\ DOMAIN PositionsByName' = Name
    BY DEF BySlots
  <1>3. ASSUME NEW m \in Name
        PROVE  /\ FilesByName'[m] = FilesByName[m]
               /\ (\A s \in Named : PositionIn(s)' = PositionIn(s))
                    => PositionsByName'[m] = PositionsByName[m]
    <2>1. CASE \E s \in Named : directoryEntries[s] = m
      BY <1>1, <2>1 DEF BySlots
    <2>2. CASE \A s \in Named : directoryEntries[s] # m
      BY <1>1, <2>2 DEF BySlots
    <2>3. QED
      BY <2>1, <2>2
  <1>4. FilesByName' = [m \in Name |-> FilesByName'[m]]
        /\ PositionsByName' = [m \in Name |-> PositionsByName'[m]]
        /\ FilesByName = [m \in Name |-> FilesByName[m]]
        /\ PositionsByName = [m \in Name |-> PositionsByName[m]]
    BY DEF FilesByName, PositionsByName
  <1>5. QED
    BY <1>3, <1>4

(* A refusal is one of the abstraction. *)
LEMMA RefusedFile ==
  ASSUME result' = Failure, FilesByName' = FilesByName, PositionsByName' = PositionsByName
  PROVE  Files!Refuse
  BY DEF Files!Refuse, Failure

-----------------------------------------------------------------------------
(* What sfs_fwrite is at: it holds the bytes of the file with those of the *)
(* buffer laid over, has written the blocks it passed and left the others. *)

(* The call is to write buf. *)
Laid(buf) ==
  /\ call.fileSize = Max({call.rwPointer + Len(buf), Len(call.old)})
  /\ \A i \in 1 .. call.fileSize :
       call.fileData[i] = IF i \in call.rwPointer + 1 .. call.rwPointer + Len(buf)
                          THEN buf[i - call.rwPointer] ELSE call.old[i]

WriteMeant ==
  /\ call.fd \in Named
  /\ Len(call.old) = iNodes[call.fd].size
  /\ call.rwPointer \in 0 .. Len(call.old)
  /\ read_writePointers[call.fd] = Len(call.old)
  /\ \E buf \in Buffer : Laid(buf)

WriteDone ==
  /\ \A k \in 0 .. blockIndex - 1 :
       DiskToBe[Held(iNodes, DiskToBe, call.fd, k)] = DataBlock(DataOf(k))
  /\ \A i \in 1 .. Len(call.old) :
       BlockOf(i) >= blockIndex
         => ByteAt(iNodes, DiskToBe, call.fd, i) = call.old[i]

WriteInv == call.op = "sfs_fwrite" => WriteMeant /\ WriteDone

(* The block written has no other role. *)
LEMMA WrittenBlock ==
  ASSUME NEW G \in SUBSET Slot,
         IInv, BlockInv(G)', Covers(G), Writing, NEW b \in Block,
         Held(iNodes', DiskToBe', call.fd, blockIndex) = b,
         blockIndex < DIRECT_POINTERS + INDIRECT_POINTERS,
         NEW s \in G, NEW k \in DataRoles,
         Held(iNodes', DiskToBe', s, k) = b
  PROVE  s = call.fd /\ k = blockIndex
  <1>1. call.fd \in G /\ blockIndex \in Nat
    BY WriteInProgress DEF Covers, Writing
  <1>2. blockIndex \in Roles /\ k \in Roles /\ b # -1
    BY <1>1, RoleNumbers, Sizes DEF DataRoles, Block
  <1>3. Sound(G, iNodes', DiskToBe', freeBlocks')
    BY DEF BlockInv
  <1>4. QED
    BY <1>1, <1>2, <1>3 DEF Sound

(* An iteration of sfs_fwrite. *)
LEMMA IterationOfWrite ==
  ASSUME NEW G \in SUBSET Slot,
         IInv, IInv', BlockInv(G)', Covers(G), FilesInv, FilesInv', WriteInv,
         DataWritten(G), Writing, blockIndex < DIRECT_POINTERS + INDIRECT_POINTERS,
         NEW tables, NEW c, WriteData(tables, c)
  PROVE  /\ WriteInv'
         /\ \A s \in Named : FileIn(s)' = FileIn(s) /\ PositionIn(s)' = PositionIn(s)
  <1> DEFINE fd == call.fd
             k == blockIndex
  <1>1. /\ call \in WriteCall /\ fd \in G /\ fd \in Slot /\ k \in Nat
        /\ call.op = "sfs_fwrite" /\ WriteMeant /\ WriteDone
    BY WriteInProgress DEF Writing, WriteInv, Covers
  <1>2. /\ call' = [call EXCEPT !.blockIndex = k + 1]
        /\ directoryEntries' = directoryEntries
        /\ read_writePointers' = read_writePointers
    BY DEF WriteData
  <1>3. /\ call'.op = call.op /\ call'.fd = fd /\ call'.blockIndex = k + 1
        /\ call'.rwPointer = call.rwPointer /\ call'.fileSize = call.fileSize
        /\ call'.old = call.old /\ call'.fileData = call.fileData
    BY <1>1, <1>2 DEF WriteCall
  <1>4. PICK b \in Block :
          /\ \A s \in G : iNodes'[s].size = iNodes[s].size
          /\ \A s \in G : Keeps(iNodes, DiskToBe, iNodes', DiskToBe', s, b)
          /\ Held(iNodes', DiskToBe', fd, k) = b
          /\ DiskToBe'[b] = DataBlock(DataOf(k))
    BY DEF DataWritten
  <1> HIDE DEF fd, k
  <1>5. Named' = Named
    BY <1>2 DEF Named
  <1>6. WriteMeant'
    <2>1. \A buf : Laid(buf) => Laid(buf)'
      BY <1>3 DEF Laid
    <2>2. QED
      BY <1>1, <1>2, <1>3, <1>4, <1>5, <2>1 DEF WriteMeant, fd
  <1>7. ASSUME NEW s \in G, NEW j \in DataRoles, HasData(iNodes, DiskToBe, s, j),
               s # fd \/ j # k
        PROVE  /\ Held(iNodes, DiskToBe, s, j) # b
               /\ Held(iNodes', DiskToBe', s, j) = Held(iNodes, DiskToBe, s, j)
               /\ DiskToBe'[Held(iNodes', DiskToBe', s, j)]
                    = DiskToBe[Held(iNodes, DiskToBe, s, j)]
    <2>1. Held(iNodes', DiskToBe', s, j) = Held(iNodes, DiskToBe, s, j)
      BY <1>4, <1>7 DEF Keeps
    <2>2. Held(iNodes', DiskToBe', s, j) # b
      BY <1>4, <1>7, WrittenBlock DEF fd, k
    <2>3. QED
      BY <1>4, <1>7, <2>1, <2>2 DEF Keeps
  <1>8. WholeTo(iNodes, DiskToBe, fd, k)
    BY <1>1 DEF FilesInv, fd, k
  <1>9. \A j \in 0 .. k - 1 : j \in DataRoles
    BY <1>1, RoleNumbers DEF DataRoles, Roles, IndirectRole, k
  <1>10. ASSUME NEW j \in 0 .. k
         PROVE  DiskToBe'[Held(iNodes', DiskToBe', fd, j)] = DataBlock(DataOf(j))
    <2>1. CASE j = k
      BY <1>4, <2>1
    <2>2. CASE j # k
      <3>1. j \in 0 .. k - 1
        BY <1>1, <2>2
      <3>2. HasData(iNodes, DiskToBe, fd, j) /\ j \in DataRoles
        BY <1>8, <1>9, <3>1 DEF WholeTo
      <3>3. DiskToBe[Held(iNodes, DiskToBe, fd, j)] = DataBlock(DataOf(j))
        BY <1>1, <3>1 DEF WriteDone, fd, k
      <3>4. QED
        BY <1>1, <1>7, <2>2, <3>2, <3>3
    <2>3. QED
      BY <2>1, <2>2
  <1>11. ASSUME NEW i \in 1 .. Len(call.old), BlockOf(i) >= k + 1
         PROVE  ByteAt(iNodes', DiskToBe', fd, i) = call.old[i]
    <2>1. fd \in Named /\ i \in 1 .. iNodes[fd].size
      BY <1>1 DEF WriteMeant, fd
    <2>2. BlockOf(i) \in DataRoles /\ HasData(iNodes, DiskToBe, fd, BlockOf(i))
      BY <2>1, FilesAreRead DEF FilesRead
    <2>3. BlockOf(i) # k /\ BlockOf(i) >= k
      BY <1>1, <1>11, <2>2, RoleNumbers DEF DataRoles, Roles
    <2>4. ByteAt(iNodes, DiskToBe, fd, i) = call.old[i]
      BY <1>1, <2>3 DEF WriteDone, fd, k
    <2>5. QED
      BY <1>1, <1>7, <2>2, <2>3, <2>4 DEF ByteAt
  <1>12. WriteDone'
    <2>1. \A j : DataOf(j)' = DataOf(j)
      BY <1>3 DEF DataOf
    <2>2. \A j \in 0 .. (k + 1) - 1 : j \in 0 .. k
      BY <1>1
    <2>3. QED
      BY <1>3, <1>10, <1>11, <2>1, <2>2 DEF WriteDone, blockIndex
  <1>13. ASSUME NEW s \in Named
         PROVE  FileIn(s)' = FileIn(s) /\ PositionIn(s)' = PositionIn(s)
    <2>1. CASE s = fd
      BY <1>1, <1>3, <2>1 DEF FileIn, PositionIn, InWrite, fd
    <2>2. CASE s # fd
      <3>1. s \in G
        BY DEF Covers
      <3>2. Content(s)' = Content(s)
        BY <1>4, <1>5, <1>7, <2>2, <3>1, ContentKept
      <3>3. QED
        BY <1>2, <1>3, <2>2, <3>2 DEF FileIn, PositionIn, InWrite, fd
    <2>3. QED
      BY <2>1, <2>2
  <1>14. QED
    BY <1>6, <1>12, <1>13 DEF WriteInv

(* sfs_fwrite has read the file and laid the buffer over it. *)
LEMMA WriteStarts ==
  ASSUME IInv, FilesInv, NEW fd \in Slot, NEW buf \in Buffer, WriteBegins(fd, buf)
  PROVE  /\ WriteInv' /\ fd \in Named
         /\ FileIn(fd)' = Content(fd) /\ PositionIn(fd)' = read_writePointers[fd]
         /\ call = NoCall /\ DiskToBe' = DiskToBe
         /\ \A s : call'.fd = s => s = fd
  <1> DEFINE rw == read_writePointers[fd]
             n == iNodes[fd].size
             size == Max({rw + Len(buf), n})
             over == rw + 1 .. rw + Len(buf)
             old == Content(fd)
  <1>1. /\ IsOpen(fd) /\ call = NoCall
        /\ iNodes' = iNodes /\ directoryEntries' = directoryEntries
        /\ disk' = disk /\ pending' = pending
        /\ read_writePointers'
             = [read_writePointers EXCEPT ![fd] = IF AllBlocksKnown(fd) THEN n ELSE 0]
    BY DEF WriteBegins, Idle
  <1>2. call' = [op |-> "sfs_fwrite", fd |-> fd, blockIndex |-> 0, rwPointer |-> rw,
                 fileSize |-> size, old |-> old,
                 fileData |-> [i \in 1 .. Ceiling(size) * DISK_BLOCK_SIZE |->
                    IF i \in over THEN buf[i - rw]
                    ELSE IF AllBlocksKnown(fd) /\ i <= n THEN old[i] ELSE Junk]]
    BY DEF WriteBegins
  <1>3. fd \in Named /\ rw <= n /\ rw >= 0 /\ rw \in 0 .. MaxFileSize \cup {-1}
    BY <1>1 DEF IInv, MemoryOK, PointerWithinFile, IsOpen, Named
  <1>4. AllBlocksKnown(fd)
    BY <1>3, BlocksKnown
  <1>5. /\ n \in Nat /\ old \in Data /\ Len(old) = n
        /\ \A i \in 1 .. n : old[i] = ByteAt(iNodes, DiskToBe, fd, i)
    BY <1>3, FilesAreRead DEF FilesRead
  <1>6. rw \in Nat /\ Len(buf) \in Nat
    <2>1. rw \in Nat
      BY <1>3, Sizes
    <2>2. buf \in Seq(Byte)
      BY DEF Buffer
    <2>3. QED
      BY <2>1, <2>2
  <1>7. /\ size \in Nat /\ size >= n /\ size >= rw + Len(buf)
        /\ size = n \/ size = rw + Len(buf)
    <2>1. rw + Len(buf) \in Int /\ n \in Int
      BY <1>5, <1>6
    <2>2. QED
      BY <1>5, <1>6, <2>1, MaxOfTwo
  <1> HIDE DEF size, old, rw, n
  <1>8. Ceiling(size) * DISK_BLOCK_SIZE \in Nat /\ size <= Ceiling(size) * DISK_BLOCK_SIZE
    <2>1. Ceiling(size) \in Nat /\ size <= Ceiling(size) * DISK_BLOCK_SIZE
      BY <1>7, CeilingBound
    <2>2. DISK_BLOCK_SIZE \in Nat
      BY Sizes
    <2>3. QED
      BY <2>1, <2>2
  <1>9. Named' = Named
    BY <1>1 DEF Named
  <1>10. DiskToBe' = DiskToBe
    BY <1>1 DEF DiskToBe, Latest
  <1>11. /\ call'.op = "sfs_fwrite" /\ call'.fd = fd /\ call'.blockIndex = 0
         /\ call'.rwPointer = rw /\ call'.fileSize = size /\ call'.old = old
    BY <1>2
  <1>12. \A i \in 1 .. size : call'.fileData[i] = IF i \in over THEN buf[i - rw] ELSE old[i]
    <2>1. ASSUME NEW i \in 1 .. size PROVE i \in 1 .. Ceiling(size) * DISK_BLOCK_SIZE
      BY <1>7, <1>8
    <2>2. ASSUME NEW i \in 1 .. size, i \notin over PROVE i <= n
      BY <1>5, <1>6, <1>7, <2>2, <1>3 DEF rw, n
    <2>3. QED
      BY <1>2, <1>4, <2>1, <2>2
  <1>13. Laid(buf)'
    BY <1>5, <1>11, <1>12 DEF Laid, size
  <1>14. WriteMeant'
    <2>1. read_writePointers'[fd] = n
      BY <1>1, <1>4 DEF IInv, MemoryOK
    <2>2. rw \in 0 .. n
      BY <1>3, <1>5, <1>6 DEF rw, n
    <2>3. QED
      BY <1>1, <1>3, <1>5, <1>9, <1>11, <1>13, <2>1, <2>2 DEF WriteMeant, n
  <1>15. WriteDone'
    <2>1. 0 .. 0 - 1 = {}
      OBVIOUS
    <2>2. QED
      BY <1>1, <1>5, <1>10, <1>11, <2>1 DEF WriteDone, blockIndex
  <1>16. FileIn(fd)' = old /\ PositionIn(fd)' = rw
    BY <1>11 DEF FileIn, PositionIn, InWrite
  <1>17. QED
    BY <1>1, <1>3, <1>10, <1>11, <1>14, <1>15, <1>16 DEF WriteInv, old, rw

(* A file with buf laid over it, byte by byte. *)
Over(old, rw, buf) ==
  SubSeq(old, 1, rw) \o buf \o SubSeq(old, rw + Len(buf) + 1, Len(old))

(* Each byte of new is that of buf where buf lies, and that of old elsewhere. *)
OneOver(new, old, rw, buf) ==
  \A i \in 1 .. Len(new) :
    new[i] = IF i \in rw + 1 .. rw + Len(buf) THEN buf[i - rw] ELSE old[i]

LEMMA OverBytes ==
  ASSUME NEW T, NEW old \in Seq(T), NEW buf \in Seq(T), NEW rw \in 0 .. Len(old)
  PROVE  /\ Over(old, rw, buf) \in Seq(T)
         /\ Len(Over(old, rw, buf)) \in Nat
         /\ Len(Over(old, rw, buf)) >= Len(old)
         /\ Len(Over(old, rw, buf)) = Max({rw + Len(buf), Len(old)})
         /\ OneOver(Over(old, rw, buf), old, rw, buf)
  <1> DEFINE n == Len(old)
             b == Len(buf)
             head == SubSeq(old, 1, rw)
             tail == SubSeq(old, rw + b + 1, n)
             new == head \o buf \o tail
  <1>1. n \in Nat /\ b \in Nat /\ rw \in Nat /\ rw <= n
    OBVIOUS
  <1>2. /\ head \in Seq(T) /\ Len(head) = rw
        /\ \A i \in 1 .. rw : head[i] = old[i]
    <2>1. \A i \in 1 .. rw : old[i] \in T
      BY <1>1, ElementOfSeq
    <2>2. QED
      BY <1>1, <2>1, SubSeqProperties
  <1>3. /\ tail \in Seq(T) /\ Len(tail) = IF rw + b + 1 <= n THEN n - (rw + b) ELSE 0
        /\ \A i \in 1 .. n - (rw + b) : tail[i] = old[rw + b + i]
    <2>1. \A i \in rw + b + 1 .. n : old[i] \in T
      BY <1>1, ElementOfSeq
    <2>2. rw + b + 1 \in Int /\ n \in Int
      BY <1>1
    <2>3. /\ tail \in Seq(T)
          /\ Len(tail) = IF rw + b + 1 <= n THEN n - (rw + b + 1) + 1 ELSE 0
          /\ \A i \in 1 .. n - (rw + b + 1) + 1 : tail[i] = old[(rw + b + 1) + i - 1]
      <3> DEFINE from == rw + b + 1
      <3>1. from \in Int /\ \A i \in from .. n : old[i] \in T
        BY <2>1, <2>2
      <3> HIDE DEF from, n
      <3>2. /\ SubSeq(old, from, n) \in Seq(T)
            /\ Len(SubSeq(old, from, n)) = IF from <= n THEN n - from + 1 ELSE 0
            /\ \A i \in 1 .. n - from + 1 : SubSeq(old, from, n)[i] = old[from + i - 1]
        BY <2>2, <3>1, SubSeqProperties
      <3>3. QED
        BY <3>2 DEF from
    <2> HIDE DEF tail, n, b
    <2>4. \A i \in 1 .. n - (rw + b) : i \in 1 .. n - (rw + b + 1) + 1
                                       /\ (rw + b + 1) + i - 1 = rw + b + i
      BY <1>1
    <2>5. n - (rw + b + 1) + 1 = n - (rw + b)
      BY <1>1
    <2>6. QED
      BY <2>3, <2>4, <2>5
  <1> HIDE DEF head, tail, n, b
  <1>4. /\ head \o buf \in Seq(T) /\ Len(head \o buf) = rw + b
        /\ \A i \in 1 .. rw + b :
             (head \o buf)[i] = IF i <= rw THEN head[i] ELSE buf[i - rw]
    BY <1>2, ConcatProperties DEF b
  <1>5. /\ new \in Seq(T) /\ Len(new) = rw + b + Len(tail)
        /\ \A i \in 1 .. rw + b + Len(tail) :
             new[i] = IF i <= rw + b THEN (head \o buf)[i] ELSE tail[i - (rw + b)]
    BY <1>3, <1>4, ConcatProperties
  <1> HIDE DEF new
  <1>6. Len(new) = IF rw + b + 1 <= n THEN n ELSE rw + b
    BY <1>1, <1>3, <1>5
  <1>7. Len(new) \in Nat /\ Len(new) >= n /\ Len(new) = Max({rw + b, n})
    <2>1. rw + b \in Int /\ n \in Int
      BY <1>1
    <2>2. Max({rw + b, n}) = IF rw + b >= n THEN rw + b ELSE n
      BY <2>1, MaxOfTwo
    <2>3. QED
      BY <1>1, <1>6, <2>2
  <1>8. ASSUME NEW i \in 1 .. Len(new)
        PROVE  new[i] = IF i \in rw + 1 .. rw + b THEN buf[i - rw] ELSE old[i]
    <2>1. i \in Nat /\ i >= 1 /\ i \in 1 .. rw + b + Len(tail)
      BY <1>5, <1>7
    <2>2. CASE i <= rw
      BY <1>1, <1>2, <1>4, <1>5, <2>1, <2>2
    <2>3. CASE i > rw /\ i <= rw + b
      <3>1. i \in 1 .. rw + b /\ i \in rw + 1 .. rw + b /\ ~(i <= rw)
        BY <1>1, <2>1, <2>3
      <3>2. (head \o buf)[i] = buf[i - rw]
        BY <1>4, <3>1
      <3>3. QED
        BY <1>5, <2>1, <2>3, <3>1, <3>2
    <2>4. CASE i > rw + b
      <3>1. i <= n /\ i - (rw + b) \in 1 .. n - (rw + b)
        BY <1>1, <1>6, <2>1, <2>4
      <3>2. rw + b + (i - (rw + b)) = i
        BY <1>1, <2>1
      <3>3. tail[i - (rw + b)] = old[i]
        BY <1>3, <3>1, <3>2
      <3>4. ~(i <= rw + b) /\ i \notin rw + 1 .. rw + b
        BY <1>1, <2>1, <2>4
      <3>5. QED
        BY <1>5, <2>1, <3>3, <3>4
    <2>5. QED
      BY <1>1, <2>1, <2>2, <2>3, <2>4
  <1>9. QED
    BY <1>5, <1>7, <1>8 DEF OneOver, Over, new, head, tail, b, n

(* A byte of the data for a block. *)
LEMMA ByteOfData ==
  ASSUME NEW n \in Nat, NEW i \in 1 .. n
  PROVE  DataBlock(DataOf(BlockOf(i))).bytes[OffsetOf(i)] = call.fileData[i]
  <1> DEFINE k == BlockOf(i)
             o == OffsetOf(i)
             S == {call.fileData[j] : j \in k * DISK_BLOCK_SIZE + 1
                                            .. (k + 1) * DISK_BLOCK_SIZE}
  <1>1. DISK_BLOCK_SIZE \in Nat /\ i \in Nat
    BY Sizes
  <1>2. k \in Nat /\ o \in 1 .. DISK_BLOCK_SIZE /\ i = k * DISK_BLOCK_SIZE + o
    <2>1. Ceiling(n) \in Nat
      BY CeilingBound
    <2>2. QED
      BY <2>1, PlaceOfByte
  <1> HIDE DEF k, o
  <1>3. /\ k * DISK_BLOCK_SIZE \in Nat
        /\ (k + 1) * DISK_BLOCK_SIZE = k * DISK_BLOCK_SIZE + DISK_BLOCK_SIZE
    BY <1>1, <1>2
  <1>4. \A j \in k * DISK_BLOCK_SIZE + 1 .. (k + 1) * DISK_BLOCK_SIZE :
          call.fileData[j] \in S
    OBVIOUS
  <1> HIDE DEF S
  <1>5. k * DISK_BLOCK_SIZE + 1 \in Int /\ (k + 1) * DISK_BLOCK_SIZE \in Int
    BY <1>1, <1>3
  <1>6. \A j \in 1 .. (k + 1) * DISK_BLOCK_SIZE - (k * DISK_BLOCK_SIZE + 1) + 1 :
          DataOf(k)[j] = call.fileData[(k * DISK_BLOCK_SIZE + 1) + j - 1]
    BY <1>4, <1>5, SubSeqProperties DEF DataOf
  <1>7. o \in 1 .. (k + 1) * DISK_BLOCK_SIZE - (k * DISK_BLOCK_SIZE + 1) + 1
        /\ (k * DISK_BLOCK_SIZE + 1) + o - 1 = i
    BY <1>1, <1>2, <1>3
  <1>8. DataOf(k)[o] = call.fileData[i]
    BY <1>6, <1>7
  <1>9. QED
    BY <1>8 DEF DataBlock, k, o

(* What a file is of which sfs_fwrite has written the blocks. *)
LEMMA ContentWritten ==
  ASSUME IInv', FilesInv', NEW f \in Named',
         \A k \in 0 .. Ceiling(iNodes'[f].size) - 1 :
           DiskToBe'[Held(iNodes', DiskToBe', f, k)] = DataBlock(DataOf(k))
  PROVE  /\ iNodes'[f].size \in Nat
         /\ Content(f)' \in Data /\ Len(Content(f)') = iNodes'[f].size
         /\ \A i \in 1 .. iNodes'[f].size : Content(f)'[i] = call.fileData[i]
  <1> DEFINE n == iNodes'[f].size
  <1>1. /\ n \in Nat /\ Content(f)' \in Data /\ Len(Content(f)') = n
        /\ \A i \in 1 .. n : Content(f)'[i] = ByteAt(iNodes', DiskToBe', f, i)
    BY FilesAreReadNext DEF FilesRead
  <1>2. ASSUME NEW i \in 1 .. n
        PROVE  ByteAt(iNodes', DiskToBe', f, i) = call.fileData[i]
    <2>1. BlockOf(i) \in 0 .. Ceiling(n) - 1
      BY <1>1, PlaceOfByte
    <2>2. DataBlock(DataOf(BlockOf(i))).bytes[OffsetOf(i)] = call.fileData[i]
      BY <1>1, ByteOfData
    <2>3. QED
      BY <2>1, <2>2 DEF ByteAt
  <1>3. QED
    BY <1>1, <1>2

-----------------------------------------------------------------------------
(* The calls that write nothing.                                           *)

(* What a call leaves alone is what its caller sees. *)
LEMMA SameContent ==
  ASSUME IInv, FilesInv, IInv', FilesInv', directoryEntries' = directoryEntries,
         iNodes' = iNodes, DiskToBe' = DiskToBe
  PROVE  Named' = Named /\ \A s \in Named : Content(s)' = Content(s)
  <1>1. Named' = Named
    BY SameNames
  <1>2. \A s : Keeps(iNodes, DiskToBe, iNodes', DiskToBe', s, -1)
    BY DEF Keeps
  <1>3. \A s, k : HasData(iNodes, DiskToBe, s, k) => Held(iNodes, DiskToBe, s, k) # -1
    BY DEF HasData
  <1>4. QED
    BY <1>1, <1>2, <1>3, ContentKept

(* A file of the directory is a file of the abstraction. *)
LEMMA FilesThere ==
  ASSUME IInv, FilesInv, BySlots, NEW s \in Named
  PROVE  /\ FileIn(s) \in Data /\ FileIn(s) # Absent
         /\ directoryEntries[s] \in Files!Files
         /\ PositionIn(s) = -1 \/ call.op = "sfs_fwrite" \/ PositionIn(s) >= 0
  <1>1. s \in Slot /\ Content(s) \in Data
    BY FilesAreRead DEF FilesRead
  <1>2. call.op = "sfs_fwrite" => call.old \in Data
    BY DEF IInv, CallOK, WriteCall, OtherCall
  <1>3. FileIn(s) \in Data
    BY <1>1, <1>2 DEF FileIn, InWrite
  <1>4. FileIn(s) # Absent
    BY <1>3, EmptyAssumption DEF Data, Absent
  <1>5. directoryEntries[s] \in Files!Files
    BY <1>4 DEF BySlots, Files!Files
  <1>6. call.op # "sfs_fwrite" => PositionIn(s) \in 0 .. MaxFileSize \cup {-1}
    BY <1>1 DEF PositionIn, InWrite, IInv, MemoryOK
  <1>7. QED
    BY <1>3, <1>4, <1>5, <1>6

(* The pointer of one descriptor moves. *)
LEMMA PositionMoves ==
  ASSUME IInv, FilesInv, NamesInv, IInv', FilesInv',
         NEW f \in Named, NEW to, NEW outcome, MovePointer(f, to, outcome)
  PROVE  /\ f \in Slot /\ directoryEntries[f] \in Name
         /\ directoryEntries[f] \in Files!Files
         /\ FilesByName' = FilesByName
         /\ FilesByName[directoryEntries[f]] = Content(f)
         /\ Content(f) \in Data /\ Len(Content(f)) = iNodes[f].size
         /\ iNodes[f].size \in Nat
         /\ PositionsByName[directoryEntries[f]] = read_writePointers[f]
         /\ PositionsByName' = [PositionsByName EXCEPT ![directoryEntries[f]] = to]
         /\ result' = outcome
  <1>1. /\ call = NoCall /\ call' = NoCall /\ iNodes' = iNodes
        /\ directoryEntries' = directoryEntries
        /\ disk' = disk /\ pending' = pending /\ result' = outcome
        /\ read_writePointers' = [read_writePointers EXCEPT ![f] = to]
    BY DEF MovePointer, Idle
  <1>2. DiskToBe' = DiskToBe
    BY <1>1 DEF DiskToBe, Latest
  <1>3. Named' = Named /\ \A s \in Named : Content(s)' = Content(s)
    BY <1>1, <1>2, SameContent
  <1>4. /\ f \in Slot /\ Content(f) \in Data /\ Len(Content(f)) = iNodes[f].size
        /\ iNodes[f].size \in Nat
    BY FilesAreRead DEF FilesRead
  <1>5. \A s : /\ FileIn(s) = Content(s) /\ PositionIn(s) = read_writePointers[s]
               /\ FileIn(s)' = Content(s)' /\ PositionIn(s)' = read_writePointers'[s]
    BY <1>1 DEF FileIn, PositionIn, InWrite, NoCall
  <1>6. BySlots /\ BySlots'
    BY <1>1, NamesOfSlots, NamesOfSlotsNext, SameNames
  <1>7. /\ read_writePointers'[f] = to
        /\ \A s \in Named \ {f} : read_writePointers'[s] = read_writePointers[s]
    BY <1>1, <1>4 DEF IInv, MemoryOK, Named
  <1>8. FilesByName' = FilesByName
    BY <1>1, <1>3, <1>5, <1>6, NoSlotChanges
  <1>9. PositionsByName' = [PositionsByName EXCEPT ![directoryEntries[f]] = to]
    BY <1>1, <1>3, <1>5, <1>6, <1>7, OneSlotChanges
  <1>10. QED
    BY <1>1, <1>4, <1>5, <1>6, <1>8, <1>9, FilesThere DEF BySlots

(* A call that is refused, and a step the caller does not see. *)
LEMMA NothingMoves ==
  ASSUME IInv, FilesInv, NamesInv, IInv', FilesInv', directoryEntries' = directoryEntries,
         iNodes' = iNodes, DiskToBe' = DiskToBe,
         read_writePointers' = read_writePointers,
         \/ call' = call
         \/ call.op # "sfs_fwrite" /\ call'.op # "sfs_fwrite"
  PROVE  FilesByName' = FilesByName /\ PositionsByName' = PositionsByName
  <1>1. Named' = Named /\ \A s \in Named : Content(s)' = Content(s)
    BY SameContent
  <1>2. \A s \in Named : FileIn(s)' = FileIn(s) /\ PositionIn(s)' = PositionIn(s)
    BY <1>1 DEF FileIn, PositionIn, InWrite
  <1>3. BySlots /\ BySlots'
    BY NamesOfSlots, NamesOfSlotsNext, SameNames
  <1>4. QED
    BY <1>2, <1>3, NoSlotChanges

LEMMA RefuseFiles ==
  ASSUME IInv, FilesInv, NamesInv, IInv', FilesInv', Refuse
  PROVE  Files!Refuse
  <1>1. /\ directoryEntries' = directoryEntries /\ iNodes' = iNodes
        /\ read_writePointers' = read_writePointers /\ call' = call
        /\ disk' = disk /\ pending' = pending /\ result' = Failure
    BY DEF Refuse, memory
  <1>2. DiskToBe' = DiskToBe
    BY <1>1 DEF DiskToBe, Latest
  <1>3. QED
    BY <1>1, <1>2, NothingMoves, RefusedFile

(* The first slot that matches a name is the one that has it. *)
LEMMA SlotOfName ==
  ASSUME NEW n \in Name, SlotsOf(n) # {}
  PROVE  /\ Min(SlotsOf(n)) \in Named /\ Min(SlotsOf(n)) \in Slot
         /\ directoryEntries[Min(SlotsOf(n))] = n
  <1>1. SlotsOf(n) \in SUBSET Nat /\ SlotsOf(n) \subseteq Slot
    BY DEF SlotsOf, Slot
  <1>2. Min(SlotsOf(n)) \in SlotsOf(n)
    BY <1>1, MinIsMember
  <1>3. QED
    BY <1>1, <1>2, NameAssumption DEF SlotsOf, Matches, Named

LEMMA OpenExistingFiles ==
  ASSUME IInv, FilesInv, NamesInv, IInv', FilesInv', NEW n \in Name, OpenExisting(n)
  PROVE  Files!Open(n)
  <1> DEFINE f == Min(SlotsOf(n))
  <1>1. f \in Named /\ directoryEntries[f] = n
    BY SlotOfName DEF OpenExisting
  <1>2. MovePointer(f, iNodes[f].size, Success)
    BY DEF OpenExisting, MovePointer
  <1> HIDE DEF f
  <1>3. /\ n \in Files!Files /\ FilesByName' = FilesByName
        /\ Len(FilesByName[n]) = iNodes[f].size
        /\ PositionsByName' = [PositionsByName EXCEPT ![n] = iNodes[f].size]
        /\ result' = Success
    BY <1>1, <1>2, PositionMoves
  <1>4. FilesByName' = [FilesByName EXCEPT ![n] = IF n \in Files!Files THEN @ ELSE << >>]
    BY <1>3 DEF FilesByName
  <1>5. QED
    BY <1>3, <1>4 DEF Files!Open, Files!Success, Success

LEMMA CloseFiles ==
  ASSUME IInv, FilesInv, NamesInv, IInv', FilesInv', NEW fd \in Slot,
         IsOpen(fd), MovePointer(fd, -1, Success)
  PROVE  \E n \in Name : Files!Close(n)
  <1>1. fd \in Named
    BY OpenFile DEF Named
  <1>2. QED
    BY <1>1, PositionMoves DEF Files!Close, Files!Success, Success, IsOpen

LEMMA SeekFiles ==
  ASSUME IInv, FilesInv, NamesInv, IInv', FilesInv', NEW fd \in Slot,
         NEW location \in 0 .. MaxFileSize, location <= iNodes[fd].size,
         IsOpen(fd), MovePointer(fd, location, Success)
  PROVE  \E n \in Name : Files!Seek(n)
  <1> DEFINE n == directoryEntries[fd]
  <1>1. fd \in Named
    BY OpenFile DEF Named
  <1>2. /\ n \in Name /\ PositionsByName[n] >= 0 /\ result' = Success
        /\ PositionsByName' = [PositionsByName EXCEPT ![n] = location]
        /\ FilesByName' = FilesByName
        /\ Len(FilesByName[n]) = iNodes[fd].size /\ iNodes[fd].size \in Nat
    BY <1>1, PositionMoves DEF IsOpen
  <1> HIDE DEF n
  <1>3. location \in 0 .. Len(FilesByName[n])
    BY <1>2, Sizes
  <1>4. QED
    BY <1>2, <1>3 DEF Files!Seek, Files!Success, Success

LEMMA ReadFiles ==
  ASSUME IInv, FilesInv, NamesInv, IInv', FilesInv', NEW fd \in Slot,
         NEW count \in 0 .. MaxCount, IsOpen(fd),
         NEW bytes, bytes = Min({count, iNodes[fd].size - read_writePointers[fd]}),
         MovePointer(fd, read_writePointers[fd] + bytes,
           [ok |-> TRUE, data |-> SubSeq(Content(fd), read_writePointers[fd] + 1,
                                         read_writePointers[fd] + bytes)])
  PROVE  \E n \in Name : Files!Read(n)
  <1> DEFINE n == directoryEntries[fd]
             rw == read_writePointers[fd]
             size == iNodes[fd].size
  <1>1. fd \in Named /\ rw \in Int /\ rw >= 0
    BY OpenFile DEF Named, IsOpen
  <1>2. /\ n \in Name /\ PositionsByName[n] = rw /\ FilesByName[n] = Content(fd)
        /\ result' = [ok |-> TRUE, data |-> SubSeq(Content(fd), rw + 1, rw + bytes)]
        /\ PositionsByName' = [PositionsByName EXCEPT ![n] = rw + bytes]
        /\ FilesByName' = FilesByName
        /\ Len(FilesByName[n]) = size /\ size \in Nat
    BY <1>1, PositionMoves
  <1>3. count \in Int
    BY SizeAssumption
  <1> HIDE DEF n, rw, size
  <1>4. rw + bytes = IF rw + count < size THEN rw + count ELSE size
    <2>1. size - rw \in Int
      BY <1>1, <1>2
    <2>2. bytes = IF count <= size - rw THEN count ELSE size - rw
      BY <1>3, <2>1, MinOfTwo DEF rw, size
    <2>3. CASE rw + count < size
      <3>1. count <= size - rw
        BY <1>1, <1>2, <1>3, <2>3
      <3>2. bytes = count
        BY <2>2, <3>1
      <3>3. QED
        BY <2>3, <3>2
    <2>4. CASE ~(rw + count < size)
      <3>1. bytes = size - rw
        BY <1>1, <1>2, <1>3, <2>2, <2>4
      <3>2. QED
        BY <1>1, <1>2, <2>4, <3>1
    <2>5. QED
      BY <2>3, <2>4
  <1>5. QED
    BY <1>1, <1>2, <1>4 DEF Files!Read, Files!Success

-----------------------------------------------------------------------------
(* The calls that change the directory.                                    *)

(* A name that no slot matches is in no slot. *)
LEMMA FreeName ==
  ASSUME ShortNames, NEW n \in Name, SlotsOf(n) = {}
  PROVE  \A s \in Slot : directoryEntries[s] # n
  BY DEF ShortNames, SlotsOf, Matches

(* The slot that sfs_fopen takes. *)
LEMMA SlotTaken ==
  ASSUME IInv, NEW n \in Name, OpenNew(n)
  PROVE  LET f == Min(EmptySlots)
         IN  /\ f \in Slot /\ f \notin Named /\ Named' = Named \cup {f}
             /\ directoryEntries'[f] = n
             /\ \A s \in Named : s # f /\ directoryEntries'[s] = directoryEntries[s]
  <1> DEFINE f == Min(EmptySlots)
  <1>1. EmptySlots \in SUBSET Nat /\ EmptySlots \subseteq Slot /\ EmptySlots # {}
    BY DEF EmptySlots, Slot, OpenNew
  <1>2. f \in EmptySlots
    BY <1>1, MinIsMember
  <1>3. /\ directoryEntries' = [directoryEntries EXCEPT ![f] = n]
        /\ directoryEntries \in [Slot -> Name \cup {Empty}] /\ n # Empty
    BY NameAssumption DEF OpenNew, IInv, MemoryOK, Names
  <1> HIDE DEF f
  <1>4. f \in Slot /\ directoryEntries[f] = Empty
    BY <1>2 DEF EmptySlots
  <1>5. QED
    BY <1>3, <1>4 DEF Named, f

(* And the one that sfs_remove leaves. *)
LEMMA SlotLeft ==
  ASSUME IInv, NEW n \in Name, RemoveFile(n)
  PROVE  LET f == Min(SlotsOf(n))
         IN  /\ f \in Slot /\ f \in Named /\ directoryEntries[f] = n
             /\ Named' = Named \ {f}
             /\ \A s \in Named' : directoryEntries'[s] = directoryEntries[s]
  <1> DEFINE f == Min(SlotsOf(n))
  <1>1. f \in Slot /\ f \in Named /\ directoryEntries[f] = n
    BY SlotOfName DEF RemoveFile
  <1>2. /\ directoryEntries' = [directoryEntries EXCEPT ![f] = Empty]
        /\ directoryEntries \in [Slot -> Name \cup {Empty}]
    BY DEF RemoveFile, IInv, MemoryOK, Names
  <1> HIDE DEF f
  <1>3. QED
    BY <1>1, <1>2 DEF Named, f

LEMMA NamesInductive ==
  ASSUME NEW G \in SUBSET Slot,
         IInv, BlockInv(G), Covers(G), FilesInv, NamesInv, ShortNames, [Process]_vars
  PROVE  NamesInv'
  <1>1. CASE directoryEntries' = directoryEntries
    BY <1>1, SameNames
  <1>2. ASSUME NEW n \in Name, OpenNew(n) PROVE NamesInv'
    <2>1. \A s \in Named : directoryEntries[s] # n
      BY <1>2, FreeName DEF OpenNew, Named
    <2>2. QED
      BY <1>2, <2>1, SlotTaken DEF NamesInv
  <1>3. ASSUME NEW n \in Name, RemoveFile(n) PROVE NamesInv'
    BY <1>3, SlotLeft DEF NamesInv
  <1>4. CASE mksfs_fresh
    BY <1>4 DEF mksfs_fresh, FreshNames, NamesInv, Named
  <1>5. CASE Remount
    BY <1>1, <1>5, RemountWhole
  <1>6. CASE WriteLoop
    <2>1. directoryEntries' = directoryEntries
      BY <1>6 DEF WriteLoop, WriteKnownBlock, WriteNewDirect, WriteNewIndirect,
         WriteFirstIndirect, WriteData, FileTooLarge, NoBlockLeft,
         NoBlockForFirstPointer, NoBlockForPointers, WriteFails, WriteEnds
    <2>2. QED
      BY <1>1, <2>1
  <1>7. CASE Flush
    BY <1>1, <1>7 DEF Flush, memory
  <1>8. CASE UNCHANGED vars
    BY <1>1, <1>8 DEF vars, memory
  <1>9. CASE Call
    <2>1. CASE \E n \in Name : OpenNew(n) \/ RemoveFile(n)
      BY <1>2, <1>3, <2>1
    <2>2. CASE ~\E n \in Name : OpenNew(n) \/ RemoveFile(n)
      <3>1. directoryEntries' = directoryEntries
        BY <1>9, <2>2 DEF Call, sfs_fopen, OpenExisting, OpenFails, sfs_remove,
           Refuse, sfs_fclose, sfs_fseek, sfs_fread, MovePointer, sfs_fwrite,
           WriteBegins, memory
      <3>2. QED
        BY <1>1, <3>1
    <2>3. QED
      BY <2>1, <2>2
  <1>10. QED
    BY <1>4, <1>5, <1>6, <1>7, <1>8, <1>9 DEF Process

(* The abstraction changes where the directory does. *)
LEMMA OneNameChanges ==
  ASSUME BySlots, BySlots', NEW n \in Name,
         \A s \in Named : directoryEntries[s] # n
           => /\ s \in Named' /\ directoryEntries'[s] = directoryEntries[s]
              /\ FileIn(s)' = FileIn(s) /\ PositionIn(s)' = PositionIn(s),
         \A s \in Named' : directoryEntries'[s] # n
           => s \in Named /\ directoryEntries[s] = directoryEntries'[s]
  PROVE  /\ FilesByName' = [FilesByName EXCEPT ![n] = FilesByName'[n]]
         /\ PositionsByName' = [PositionsByName EXCEPT ![n] = PositionsByName'[n]]
         /\ FilesByName'[n] = [FilesByName EXCEPT ![n] = FilesByName'[n]][n]
  <1>1. /\ DOMAIN FilesByName = Name /\ DOMAIN PositionsByName = Name
        /\ DOMAIN FilesByName' = Name /\ DOMAIN PositionsByName' = Name
    BY DEF BySlots
  <1>2. ASSUME NEW m \in Name, m # n
        PROVE  /\ FilesByName'[m] = FilesByName[m]
               /\ PositionsByName'[m] = PositionsByName[m]
    <2>1. CASE \E s \in Named : directoryEntries[s] = m
      BY <1>2, <2>1 DEF BySlots
    <2>2. CASE \A s \in Named : directoryEntries[s] # m
      <3>1. \A s \in Named' : directoryEntries'[s] # m
        BY <1>2, <2>2
      <3>2. QED
        BY <2>2, <3>1 DEF BySlots
    <2>3. QED
      BY <2>1, <2>2
  <1>3. FilesByName' = [m \in Name |-> FilesByName'[m]]
        /\ PositionsByName' = [m \in Name |-> PositionsByName'[m]]
        /\ FilesByName = [m \in Name |-> FilesByName[m]]
        /\ PositionsByName = [m \in Name |-> PositionsByName[m]]
    BY DEF FilesByName, PositionsByName
  <1>4. FilesByName' = [FilesByName EXCEPT ![n] = FilesByName'[n]]
    BY <1>1, <1>2, <1>3
  <1>5. PositionsByName' = [PositionsByName EXCEPT ![n] = PositionsByName'[n]]
    BY <1>1, <1>2, <1>3
  <1>6. QED
    BY <1>1, <1>4, <1>5

(* The abstraction counts as the file system does. *)
LEMMA SameCount ==
  ASSUME NEW S
  PROVE  Files!Cardinality(S) = Cardinality(S)
  BY DEF Files!Cardinality, Cardinality

(* There is room for one more file while a slot is empty. *)
LEMMA RoomForOneMore ==
  ASSUME IInv, BySlots, EmptySlots # {}
  PROVE  Cardinality(Files!Files) < TOTAL_FILES
  <1> DEFINE T == Slot \ {Min(EmptySlots)}
             g == [m \in Files!Files |-> SlotOf(m)]
  <1>1. Min(EmptySlots) \in EmptySlots /\ Min(EmptySlots) \in Slot
    <2>1. EmptySlots \in SUBSET Nat /\ EmptySlots \subseteq Slot
      BY DEF EmptySlots, Slot
    <2>2. QED
      BY <2>1, MinIsMember
  <1>2. ASSUME NEW m \in Files!Files
        PROVE  SlotOf(m) \in T /\ directoryEntries[SlotOf(m)] = m
    <2>1. m \in Name /\ FilesByName[m] # Absent
      BY DEF Files!Files
    <2>2. PICK s \in Named : directoryEntries[s] = m
      BY <2>1 DEF BySlots
    <2>3. SlotOf(m) \in Slot /\ directoryEntries[SlotOf(m)] = m
      BY <2>2 DEF SlotOf, Named
    <2>4. m # Empty
      BY <2>1, NameAssumption
    <2>5. QED
      BY <1>1, <2>3, <2>4 DEF EmptySlots
  <1>3. g \in Injection(Files!Files, T)
    BY <1>2 DEF Injection, IsInjective
  <1>4. IsFiniteSet(T) /\ Cardinality(T) = TOTAL_FILES - 1
    <2>1. IsFiniteSet(Slot) /\ Cardinality(Slot) = TOTAL_FILES
      <3>1. TOTAL_FILES \in Nat /\ TOTAL_FILES > 0
        BY SizeAssumption
      <3>2. /\ IsFiniteSet(0 .. TOTAL_FILES - 1)
            /\ Cardinality(0 .. TOTAL_FILES - 1)
                 = IF 0 > TOTAL_FILES - 1 THEN 0 ELSE TOTAL_FILES - 1 - 0 + 1
        BY <3>1, FS_Interval
      <3>3. QED
        BY <3>1, <3>2 DEF Slot
    <2>2. QED
      BY <1>1, <2>1, FS_RemoveElement
  <1> HIDE DEF T, g
  <1>5. IsFiniteSet(Files!Files) /\ Cardinality(Files!Files) <= Cardinality(T)
    BY <1>3, <1>4, FS_Injection
  <1>6. Cardinality(Files!Files) \in Nat
    BY <1>5, FS_CardinalityType
  <1>7. QED
    BY <1>4, <1>5, <1>6, SizeAssumption

(* sfs_fopen of a new file. *)
LEMMA OpenNewFiles ==
  ASSUME NEW G \in SUBSET Slot,
         IInv, BlockInv(G), Covers(G), FilesInv, NamesInv, Room, ShortNames,
         IInv', FilesInv', NamesInv', NEW n \in Name, OpenNew(n)
  PROVE  Files!Open(n)
  <1>0. PICK f \in Slot : f = Min(EmptySlots)
    BY SlotTaken
  <1>1. /\ f \in Slot /\ f \notin Named /\ Named' = Named \cup {f}
        /\ directoryEntries'[f] = n
        /\ \A s \in Named : s # f /\ directoryEntries'[s] = directoryEntries[s]
    BY <1>0, SlotTaken
  <1>2. /\ EmptySlots # {} /\ SlotsOf(n) = {} /\ call = NoCall
        /\ iNodes' = [iNodes EXCEPT ![f].size = 0]
        /\ read_writePointers' = [read_writePointers EXCEPT ![f] = 0]
        /\ call'.op = "sfs_fopen" /\ result' = Success
    BY <1>0 DEF OpenNew, Idle
  <1>3. \A s \in G : Keeps(iNodes, DiskToBe, iNodes', DiskToBe', s, -1)
    BY OpenNewWhole
  <1>4. BySlots /\ BySlots'
    BY NamesOfSlots, NamesOfSlotsNext
  <1>5. /\ iNodes'[f].size = 0 /\ read_writePointers'[f] = 0
        /\ \A s \in Named : /\ iNodes'[s].size = iNodes[s].size
                            /\ read_writePointers'[s] = read_writePointers[s]
    <2>1. iNodes \in Tables /\ iNodes[f] \in SoundInode
      BY <1>1, Typed DEF Tables
    <2>2. \A s \in Named : s \in Slot
      BY DEF Named
    <2>3. /\ iNodes'[f].size = 0
          /\ \A s \in Named : iNodes'[s].size = iNodes[s].size
      BY <1>1, <1>2, <2>1, <2>2 DEF Tables, SoundInode
    <2>4. /\ read_writePointers'[f] = 0
          /\ \A s \in Named : read_writePointers'[s] = read_writePointers[s]
      BY <1>1, <1>2, <2>2 DEF IInv, MemoryOK
    <2>5. QED
      BY <2>3, <2>4
  <1>6. \A s : /\ FileIn(s) = Content(s) /\ PositionIn(s) = read_writePointers[s]
               /\ FileIn(s)' = Content(s)' /\ PositionIn(s)' = read_writePointers'[s]
    BY <1>2 DEF FileIn, PositionIn, InWrite, NoCall
  <1>7. \A s \in Named : FileIn(s)' = FileIn(s) /\ PositionIn(s)' = PositionIn(s)
    <2>1. \A s, k : HasData(iNodes, DiskToBe, s, k) => Held(iNodes, DiskToBe, s, k) # -1
      BY DEF HasData
    <2>2. \A s \in Named : s \in Slot /\ s \in Named'
      BY <1>1 DEF Named
    <2>3. \A s \in Named : Content(s)' = Content(s)
      BY <1>3, <1>5, <2>1, <2>2, ContentKept DEF Covers
    <2>4. QED
      BY <1>5, <1>6, <2>3
  <1>8. Content(f)' = << >>
    <2>1. f \in Named' /\ FilesRead'
      BY <1>1, FilesAreReadNext
    <2>2. Content(f)' \in Data /\ Len(Content(f)') = 0
      BY <1>5, <2>1 DEF FilesRead
    <2>3. QED
      BY <2>2 DEF Data
  <1>9. FilesByName'[n] = << >> /\ PositionsByName'[n] = 0
    <2>1. f \in Named'
      BY <1>1
    <2>2. FilesByName'[n] = FileIn(f)' /\ PositionsByName'[n] = PositionIn(f)'
      BY <1>1, <1>4, <2>1 DEF BySlots
    <2>3. QED
      BY <1>5, <1>6, <1>8, <2>2
  <1>10. /\ FilesByName' = [FilesByName EXCEPT ![n] = FilesByName'[n]]
         /\ PositionsByName' = [PositionsByName EXCEPT ![n] = PositionsByName'[n]]
    BY <1>1, <1>4, <1>7, OneNameChanges
  <1>11. n \notin Files!Files
    <2>1. \A s \in Named : directoryEntries[s] # n
      BY <1>2, FreeName DEF Named
    <2>2. QED
      BY <1>4, <2>1 DEF BySlots, Files!Files
  <1>12. Cardinality(Files!Files) < TOTAL_FILES
    BY <1>2, <1>4, RoomForOneMore
  <1>13. FilesByName' = [FilesByName EXCEPT ![n] = IF n \in Files!Files THEN @ ELSE << >>]
    BY <1>9, <1>10, <1>11
  <1>14. PositionsByName' = [PositionsByName EXCEPT ![n] = Len(FilesByName'[n])]
    <2>1. Len(<< >>) = 0
      OBVIOUS
    <2>2. QED
      BY <1>9, <1>10, <2>1
  <1>15. QED
    BY <1>2, <1>12, <1>13, <1>14, SameCount DEF Files!Open, Files!Success, Success

LEMMA RemoveFiles ==
  ASSUME NEW G \in SUBSET Slot,
         IInv, BlockInv(G), Covers(G), FilesInv, NamesInv, Room,
         IInv', FilesInv', NamesInv', NEW n \in Name, RemoveFile(n)
  PROVE  Files!Remove(n)
  <1> DEFINE f == Min(SlotsOf(n))
  <1>1. /\ f \in Slot /\ f \in Named /\ directoryEntries[f] = n
        /\ Named' = Named \ {f}
        /\ \A s \in Named' : directoryEntries'[s] = directoryEntries[s]
    BY SlotLeft
  <1>2. /\ call = NoCall
        /\ iNodes' = [iNodes EXCEPT ![f] = UnusedInode]
        /\ read_writePointers' = [read_writePointers EXCEPT ![f] = -1]
        /\ call'.op = "sfs_remove" /\ result' = Success
    BY DEF RemoveFile, Idle
  <1>3. \A s \in G \ {f} : Keeps(iNodes, DiskToBe, iNodes', DiskToBe', s, -1)
    BY RemoveFileWhole
  <1>4. BySlots /\ BySlots'
    BY NamesOfSlots, NamesOfSlotsNext
  <1> HIDE DEF f
  <1>5. \A s \in Named' : /\ iNodes'[s].size = iNodes[s].size
                          /\ read_writePointers'[s] = read_writePointers[s]
    <2>1. \A s \in Named' : s \in Slot /\ s # f
      BY <1>1 DEF Named
    <2>2. QED
      BY <1>1, <1>2, <2>1 DEF IInv, MemoryOK
  <1>6. \A s : /\ FileIn(s) = Content(s) /\ PositionIn(s) = read_writePointers[s]
               /\ FileIn(s)' = Content(s)' /\ PositionIn(s)' = read_writePointers'[s]
    BY <1>2 DEF FileIn, PositionIn, InWrite, NoCall
  <1>7. \A s \in Named' : FileIn(s)' = FileIn(s) /\ PositionIn(s)' = PositionIn(s)
    <2>1. \A s, k : HasData(iNodes, DiskToBe, s, k) => Held(iNodes, DiskToBe, s, k) # -1
      BY DEF HasData
    <2>2. \A s \in Named' : s \in Slot \ {f} /\ s \in Named
      BY <1>1 DEF Named
    <2>3. \A s \in Named' : Content(s)' = Content(s)
      BY <1>3, <1>5, <2>1, <2>2, ContentKept DEF Covers
    <2>4. QED
      BY <1>5, <1>6, <2>3
  <1>8. \A s \in Named : directoryEntries[s] = n => s = f
    BY <1>1 DEF NamesInv
  <1>9. FilesByName'[n] = Absent /\ PositionsByName'[n] = -1
    <2>1. \A s \in Named' : directoryEntries'[s] # n
      BY <1>1, <1>8
    <2>2. QED
      BY <1>4, <2>1 DEF BySlots
  <1>10. /\ FilesByName' = [FilesByName EXCEPT ![n] = FilesByName'[n]]
         /\ PositionsByName' = [PositionsByName EXCEPT ![n] = PositionsByName'[n]]
    <2>1. \A s \in Named : directoryEntries[s] # n => s \in Named'
      BY <1>1
    <2>2. \A s \in Named' : s \in Named /\ directoryEntries'[s] = directoryEntries[s]
      BY <1>1
    <2>3. QED
      BY <1>4, <1>7, <2>1, <2>2, OneNameChanges
  <1>11. n \in Files!Files
    BY <1>1, <1>4, FilesThere
  <1>12. QED
    BY <1>2, <1>9, <1>10, <1>11 DEF Files!Remove, Files!Success, Success

(* mksfs(1). *)
LEMMA FormatFiles ==
  ASSUME IInv', NamesInv', mksfs_fresh
  PROVE  Files!Format
  <1>1. BySlots'
    BY NamesOfSlotsNext
  <1>2. Named' = {} /\ result' = Success
    BY DEF mksfs_fresh, Named, FreshNames
  <1>3. \A n \in Name : FilesByName'[n] = Absent /\ PositionsByName'[n] = -1
    BY <1>1, <1>2 DEF BySlots
  <1>4. FilesByName' = [m \in Name |-> FilesByName'[m]]
        /\ PositionsByName' = [m \in Name |-> PositionsByName'[m]]
    BY DEF FilesByName, PositionsByName
  <1>5. QED
    BY <1>2, <1>3, <1>4 DEF Files!Format, Files!Success, Success

(* mksfs(0): the i-node saved leads to the bytes that the one in memory    *)
(* leads to.                                                               *)
LEMMA MountFiles ==
  ASSUME NEW G \in SUBSET Slot,
         IInv, BlockInv(G), Covers(G), FilesInv, NamesInv, IInv', FilesInv', NamesInv', Remount
  PROVE  Files!Mount
  <1>1. /\ directoryEntries' = directoryEntries /\ DiskToBe' = DiskToBe
        /\ \A s \in Slot : iNodes'[s] \in {Saved[s], iNodes[s]}
    BY RemountWhole
  <1>2. /\ call = NoCall /\ call' = NoCall /\ result' = Success
        /\ read_writePointers' = [s \in Slot |-> -1]
    BY DEF Remount, Idle, mksfs_existing
  <1>3. Named' = Named
    BY <1>1, SameNames
  <1>4. BySlots /\ BySlots'
    BY NamesOfSlots, NamesOfSlotsNext
  <1>5. ASSUME NEW s \in Named PROVE Content(s)' = Content(s)
    <2> DEFINE n == iNodes[s].size
    <2>1. /\ s \in Slot /\ Content(s) \in Data /\ Len(Content(s)) = n
          /\ \A i \in 1 .. n : /\ BlockOf(i) \in DataRoles
                               /\ Content(s)[i] = ByteAt(iNodes, DiskToBe, s, i)
      BY FilesAreRead DEF FilesRead
    <2>2. iNodes'[s].size = n
      BY <1>1, <2>1 DEF FilesInv
    <2>3. /\ Content(s)' \in Data /\ Len(Content(s)') = n
          /\ \A i \in 1 .. n : /\ HasData(iNodes', DiskToBe, s, BlockOf(i))
                               /\ Content(s)'[i] = ByteAt(iNodes', DiskToBe, s, i)
      BY <1>1, <1>3, <2>2, FilesAreReadNext DEF FilesRead
    <2> HIDE DEF n
    <2>4. ASSUME NEW k \in DataRoles, HasData(iNodes', DiskToBe, s, k)
          PROVE  Held(iNodes', DiskToBe, s, k) = Held(iNodes, DiskToBe, s, k)
      <3>1. Held(Saved, DiskToBe, s, k) \in {-1, Held(iNodes, DiskToBe, s, k)}
        BY SubTables, SubRoles DEF DataRoles, Covers
      <3>2. Held(iNodes', DiskToBe, s, k)
              \in {Held(Saved, DiskToBe, s, k), Held(iNodes, DiskToBe, s, k)}
        <4>1. \A v, w : v[s] = w[s]
                => Held(v, DiskToBe, s, k) = Held(w, DiskToBe, s, k)
          BY DEF Held
        <4>2. QED
          BY <1>1, <2>1, <4>1
      <3>3. Held(iNodes', DiskToBe, s, k) # -1
        BY <2>4 DEF HasData
      <3>4. QED
        BY <3>1, <3>2, <3>3
    <2>5. \A i \in 1 .. n : Content(s)'[i] = Content(s)[i]
      BY <2>1, <2>3, <2>4 DEF ByteAt
    <2>6. QED
      BY <2>1, <2>3, <2>5, SeqEqual DEF Data
  <1>6. \A s \in Named : FileIn(s)' = FileIn(s) /\ PositionIn(s)' = -1
    BY <1>2, <1>5 DEF FileIn, PositionIn, InWrite, NoCall, Named
  <1>7. FilesByName' = FilesByName
    BY <1>1, <1>4, <1>6, NoSlotChanges
  <1>8. \A n \in Name : PositionsByName'[n] = -1
    BY <1>1, <1>3, <1>4, <1>6 DEF BySlots
  <1>9. PositionsByName' = [m \in Name |-> PositionsByName'[m]]
    BY DEF PositionsByName
  <1>10. QED
    BY <1>2, <1>7, <1>8, <1>9 DEF Files!Mount, Files!Success, Success

-----------------------------------------------------------------------------
(* The steps of sfs_fwrite.                                                *)

(* What the call holds is the file with the buffer laid over it. *)
LEMMA LaidBytes ==
  ASSUME IInv, call.op = "sfs_fwrite", WriteMeant
  PROVE  /\ call.fileSize \in Nat /\ call.old \in Data
         /\ \E buf \in Buffer :
              LET new == Over(call.old, call.rwPointer, buf)
              IN  /\ new \in Data /\ Len(new) = call.fileSize
                  /\ Len(new) >= Len(call.old)
                  /\ \A i \in 1 .. call.fileSize : new[i] = call.fileData[i]
  <1>1. call \in WriteCall
    BY DEF IInv, CallOK, OtherCall
  <1>2. call.fileSize \in Nat /\ call.old \in Data
    BY <1>1 DEF WriteCall
  <1>3. PICK buf \in Buffer : Laid(buf)
    BY DEF WriteMeant
  <1>0. PICK old, rw : old = call.old /\ rw = call.rwPointer
    OBVIOUS
  <1> DEFINE new == Over(old, rw, buf)
  <1>4. buf \in Seq(Byte \cup {Junk}) /\ old \in Seq(Byte \cup {Junk})
    BY <1>0, <1>2 DEF Buffer, Data
  <1>5. rw \in 0 .. Len(old)
    BY <1>0 DEF WriteMeant
  <1>6. /\ new \in Data /\ Len(new) >= Len(old)
        /\ Len(new) = Max({rw + Len(buf), Len(old)})
        /\ \A i \in 1 .. Len(new) :
             new[i] = IF i \in rw + 1 .. rw + Len(buf) THEN buf[i - rw] ELSE old[i]
    <2> DEFINE T == Byte \cup {Junk}
    <2>1. buf \in Seq(T) /\ old \in Seq(T)
      BY <1>4
    <2> HIDE DEF T
    <2>2. /\ new \in Seq(T) /\ Len(new) >= Len(old)
          /\ Len(new) = Max({rw + Len(buf), Len(old)})
          /\ \A i \in 1 .. Len(new) :
               new[i] = IF i \in rw + 1 .. rw + Len(buf) THEN buf[i - rw] ELSE old[i]
      <3>1. Over(old, rw, buf) \in Seq(T)
        BY <1>5, <2>1, OverBytes
      <3>2. Len(Over(old, rw, buf)) >= Len(old)
        BY <1>5, <2>1, OverBytes
      <3>3. Len(Over(old, rw, buf)) = Max({rw + Len(buf), Len(old)})
        BY <1>5, <2>1, OverBytes
      <3>4. OneOver(Over(old, rw, buf), old, rw, buf)
        BY <1>5, <2>1, OverBytes
      <3>5. QED
        BY <3>1, <3>2, <3>3, <3>4 DEF OneOver
    <2>3. QED
      BY <2>2 DEF T, Data
  <1> HIDE DEF new
  <1>7. Len(new) = call.fileSize /\ \A i \in 1 .. call.fileSize : new[i] = call.fileData[i]
    BY <1>0, <1>3, <1>6 DEF Laid
  <1>8. QED
    BY <1>0, <1>2, <1>6, <1>7 DEF new

(* What the abstraction sees of the file, until the call returns. *)
LEMMA FileInWrite ==
  ASSUME IInv, NamesInv, WriteInv, call.op = "sfs_fwrite"
  PROVE  LET n == directoryEntries[call.fd]
         IN  /\ WriteMeant /\ WriteDone /\ call.fd \in Named /\ call.fd \in Slot
             /\ n \in Name
             /\ FilesByName[n] = call.old /\ PositionsByName[n] = call.rwPointer
             /\ PositionsByName[n] >= 0
             /\ \A buf : Files!Overlay(n, buf) = Over(call.old, call.rwPointer, buf)
  <1>1. WriteMeant /\ WriteDone /\ call.fd \in Named
    BY DEF WriteInv, WriteMeant
  <1>2. BySlots
    BY NamesOfSlots
  <1>3. call.rwPointer >= 0
    BY <1>1 DEF WriteMeant
  <1>4. QED
    BY <1>1, <1>2, <1>3 DEF BySlots, FileIn, PositionIn, InWrite, Files!Overlay, Over

(* The blocks it passed stay as it wrote them. *)
LEMMA WrittenStays ==
  ASSUME IInv, FilesInv, WriteInv, Writing, NEW f, f = call.fd, NEW m \in Nat,
         m <= blockIndex, m <= DIRECT_POINTERS + INDIRECT_POINTERS,
         Keeps(iNodes, DiskToBe, iNodes', DiskToBe', f, -1)
  PROVE  \A k \in 0 .. m - 1 :
           DiskToBe'[Held(iNodes', DiskToBe', f, k)] = DataBlock(DataOf(k))
  <1>1. /\ WriteDone /\ blockIndex \in Nat
        /\ WholeTo(iNodes, DiskToBe, f, blockIndex)
    BY WriteInProgress DEF Writing, WriteInv, FilesInv
  <1>2. ASSUME NEW k \in 0 .. m - 1
        PROVE  DiskToBe'[Held(iNodes', DiskToBe', f, k)] = DataBlock(DataOf(k))
    <2>1. k \in 0 .. blockIndex - 1 /\ k \in DataRoles
      BY <1>1, RoleNumbers DEF DataRoles, Roles, IndirectRole
    <2>2. HasData(iNodes, DiskToBe, f, k)
      BY <1>1, <2>1 DEF WholeTo
    <2>3. DiskToBe[Held(iNodes, DiskToBe, f, k)] = DataBlock(DataOf(k))
      BY <1>1, <2>1 DEF WriteDone
    <2>4. QED
      BY <2>1, <2>2, <2>3 DEF Keeps, HasData
  <1>3. QED
    BY <1>2

(* The call returns: the file is what the call held. *)
LEMMA WriteFiles ==
  ASSUME NEW G \in SUBSET Slot,
         IInv, BlockInv(G), Covers(G), FilesInv, NamesInv, WriteInv, Room, IInv', FilesInv', WriteEnds
  PROVE  \E n \in Name : Files!Write(n)
  <1>0. PICK f \in Slot : f = call.fd
    BY WriteInProgress DEF WriteEnds
  <1> DEFINE n == directoryEntries[f]
             size == call.fileSize
             old == call.old
  <1>1. /\ Writing /\ ~MoreBlocks /\ call.op = "sfs_fwrite"
        /\ read_writePointers' = [read_writePointers EXCEPT ![f] = size]
        /\ iNodes' = [iNodes EXCEPT ![f].size = size]
        /\ call'.op = "return" /\ result' = Success
        /\ directoryEntries' = directoryEntries
    BY <1>0 DEF WriteEnds, Writing
  <1>2. /\ WriteMeant /\ WriteDone /\ f \in Named /\ n \in Name
        /\ FilesByName[n] = old /\ PositionsByName[n] = call.rwPointer
        /\ PositionsByName[n] >= 0
        /\ \A buf : Files!Overlay(n, buf) = Over(old, call.rwPointer, buf)
    BY <1>0, <1>1, FileInWrite
  <1>3. size \in Nat /\ old \in Data
    BY <1>1, <1>2, LaidBytes
  <1>4. PICK buf \in Buffer :
          LET new == Over(old, call.rwPointer, buf)
          IN  /\ new \in Data /\ Len(new) = size /\ Len(new) >= Len(old)
              /\ \A i \in 1 .. size : new[i] = call.fileData[i]
    BY <1>1, <1>2, LaidBytes
  <1>5. \A s \in G : Keeps(iNodes, DiskToBe, iNodes', DiskToBe', s, -1)
    BY WriteEndsWhole
  <1>6. Ceiling(size) \in Nat /\ Ceiling(size) <= blockIndex
        /\ Ceiling(size) <= DIRECT_POINTERS + INDIRECT_POINTERS
        /\ size <= MaxFileSize
    <2>1. Ceiling(size) \in Nat
      BY <1>3, CeilingBound
    <2>2. blockIndex \in Nat /\ blockIndex <= DIRECT_POINTERS + INDIRECT_POINTERS
      BY <1>1, WriteInProgress
    <2>3. Ceiling(size) <= blockIndex
      BY <1>1, <2>1, <2>2 DEF MoreBlocks
    <2>4. Ceiling(size) <= DIRECT_POINTERS + INDIRECT_POINTERS
      BY <2>1, <2>2, <2>3, RoleNumbers
    <2>5. size \in 0 .. MaxFileSize
      BY <1>3, <2>4, SizeOfBlocks
    <2>6. QED
      BY <2>1, <2>3, <2>4, <2>5
  <1> HIDE DEF n, size, old
  <1>7. Named' = Named
    BY <1>1, SameNames
  <1>8. /\ iNodes'[f].size = size /\ read_writePointers'[f] = size
        /\ \A s \in Named \ {f} : /\ iNodes'[s].size = iNodes[s].size
                                  /\ read_writePointers'[s] = read_writePointers[s]
    <2>1. iNodes \in Tables /\ iNodes[f] \in SoundInode
      BY Typed DEF Tables
    <2>2. QED
      BY <1>1, <2>1 DEF Tables, SoundInode, IInv, MemoryOK, Named
  <1>9. Content(f)' = Over(old, call.rwPointer, buf)
    <2>1. \A k \in 0 .. Ceiling(size) - 1 :
            DiskToBe'[Held(iNodes', DiskToBe', f, k)] = DataBlock(DataOf(k))
      BY <1>0, <1>1, <1>5, <1>6, WrittenStays DEF Covers, Writing
    <2>2. /\ Content(f)' \in Data /\ Len(Content(f)') = size
          /\ \A i \in 1 .. size : Content(f)'[i] = call.fileData[i]
      BY <1>2, <1>7, <1>8, <2>1, ContentWritten
    <2>3. QED
      BY <1>4, <2>2, SeqEqual DEF Data
  <1>10. FileIn(f)' = Content(f)' /\ PositionIn(f)' = size
    BY <1>1, <1>8 DEF FileIn, PositionIn, InWrite
  <1>11. \A s \in Named \ {f} : FileIn(s)' = FileIn(s) /\ PositionIn(s)' = PositionIn(s)
    <2>1. \A s, k : HasData(iNodes, DiskToBe, s, k) => Held(iNodes, DiskToBe, s, k) # -1
      BY DEF HasData
    <2>2. \A s \in Named \ {f} : Content(s)' = Content(s)
      BY <1>5, <1>7, <1>8, <2>1, ContentKept DEF Named, Covers
    <2>3. QED
      BY <1>0, <1>1, <1>8, <2>2 DEF FileIn, PositionIn, InWrite
  <1>12. BySlots /\ BySlots'
    BY <1>1, NamesOfSlots, NamesOfSlotsNext, SameNames
  <1>13. /\ FilesByName' = [FilesByName EXCEPT ![n] = Files!Overlay(n, buf)]
         /\ PositionsByName' = [PositionsByName EXCEPT ![n] = size]
    BY <1>1, <1>2, <1>9, <1>10, <1>11, <1>12, OneSlotChanges DEF n
  <1>14. /\ Len(Files!Overlay(n, buf)) = size
         /\ FilesByName'[n] = Files!Overlay(n, buf)
    BY <1>2, <1>4, <1>12, <1>13 DEF BySlots
  <1>15. buf \in Files!Buffer
    BY DEF Files!Buffer, Buffer
  <1>16. QED
    BY <1>1, <1>2, <1>6, <1>13, <1>14, <1>15 DEF Files!Write, Files!Success, Success

(* The call fails: every block of the old size has its new data. *)
LEMMA WriteFailsFiles ==
  ASSUME IInv, FilesInv, NamesInv, WriteInv, IInv', FilesInv', FileTooLarge
  PROVE  \E n \in Name : Files!WriteFails(n)
  <1>0. PICK f \in Slot : f = call.fd
    BY WriteInProgress DEF FileTooLarge
  <1> DEFINE n == directoryEntries[f]
             old == call.old
             size == iNodes[f].size
  <1>1. /\ Writing /\ call.op = "sfs_fwrite"
        /\ blockIndex >= DIRECT_POINTERS + INDIRECT_POINTERS
        /\ pending = << >> /\ pending' = << >> /\ disk' = disk
        /\ iNodes' = iNodes /\ read_writePointers' = read_writePointers
        /\ call' = NoCall /\ result' = Failure
        /\ directoryEntries' = directoryEntries
    BY DEF FileTooLarge, WriteFails, Writing
  <1>2. DiskToBe' = DiskToBe
    BY <1>1, WritesIssued DEF IInv
  <1>3. /\ WriteMeant /\ WriteDone /\ f \in Named /\ n \in Name
        /\ FilesByName[n] = old /\ PositionsByName[n] = call.rwPointer
        /\ PositionsByName[n] >= 0
        /\ \A buf : Files!Overlay(n, buf) = Over(old, call.rwPointer, buf)
    BY <1>0, <1>1, FileInWrite
  <1>4. /\ old \in Data /\ call.fileSize \in Nat
        /\ Len(old) = size /\ read_writePointers[f] = size
        /\ size \in Nat
    <2>1. Len(old) = size /\ read_writePointers[f] = Len(old)
      BY <1>0, <1>3 DEF WriteMeant
    <2>2. QED
      BY <1>1, <1>3, <2>1, LaidBytes, FilesAreRead DEF FilesRead
  <1>5. PICK buf \in Buffer :
          LET new == Over(old, call.rwPointer, buf)
          IN  /\ new \in Data /\ Len(new) = call.fileSize /\ Len(new) >= Len(old)
              /\ \A i \in 1 .. call.fileSize : new[i] = call.fileData[i]
    BY <1>1, <1>3, LaidBytes
  <1> DEFINE new == Over(old, call.rwPointer, buf)
  <1> HIDE DEF n, old, size, new
  <1>6. Named' = Named
    BY <1>1, SameNames
  <1>7. /\ Content(f)' \in Data /\ Len(Content(f)') = size
        /\ \A i \in 1 .. size : Content(f)'[i] = call.fileData[i]
    <2>1. Ceiling(size) \in Nat /\ Ceiling(size) <= DIRECT_POINTERS + INDIRECT_POINTERS
      <3>1. size >= 0 /\ iNodes \in Tables
        BY <1>4, Typed
      <3>2. QED
        BY <3>1, BlocksOfInode DEF size
    <2>2. Ceiling(size) <= blockIndex
      BY <1>1, <2>1, RoleNumbers, WriteInProgress
    <2>3. Keeps(iNodes, DiskToBe, iNodes', DiskToBe', f, -1)
      BY <1>1, <1>2 DEF Keeps
    <2>4. \A k \in 0 .. Ceiling(size) - 1 :
            DiskToBe'[Held(iNodes', DiskToBe', f, k)] = DataBlock(DataOf(k))
      BY <1>0, <1>1, <2>1, <2>2, <2>3, WrittenStays
    <2>5. iNodes'[f].size = size
      BY <1>1 DEF size
    <2>6. QED
      BY <1>3, <1>6, <2>4, <2>5, ContentWritten
  <1>8. Content(f)' = SubSeq(new, 1, Len(old))
    <2>1. new \in Data /\ Len(new) = call.fileSize /\ size <= call.fileSize
      BY <1>4, <1>5 DEF new
    <2>2. \A i \in 1 .. size : new[i] \in Byte \cup {Junk} /\ new[i] = call.fileData[i]
      <3>1. \A i \in 1 .. size : i \in 1 .. call.fileSize
        BY <1>4, <2>1
      <3>2. \A i \in 1 .. call.fileSize : new[i] \in Byte \cup {Junk}
        BY <2>1, ElementOfSeq DEF Data
      <3>3. QED
        BY <1>5, <3>1, <3>2 DEF new
    <2>3. /\ SubSeq(new, 1, size) \in Data /\ Len(SubSeq(new, 1, size)) = size
          /\ \A i \in 1 .. size : SubSeq(new, 1, size)[i] = new[i]
      <3>1. /\ SubSeq(new, 1, size) \in Seq(Byte \cup {Junk})
            /\ Len(SubSeq(new, 1, size)) = IF 1 <= size THEN size - 1 + 1 ELSE 0
            /\ \A i \in 1 .. size - 1 + 1 : SubSeq(new, 1, size)[i] = new[1 + i - 1]
        BY <1>4, <2>2, SubSeqProperties
      <3>2. QED
        BY <1>4, <3>1 DEF Data
    <2>4. \A i \in 1 .. size : Content(f)'[i] = SubSeq(new, 1, size)[i]
      BY <1>7, <2>2, <2>3
    <2>5. QED
      BY <1>4, <1>7, <2>3, <2>4, SeqEqual DEF Data
  <1>9. FileIn(f)' = Content(f)' /\ PositionIn(f)' = Len(old)
    BY <1>1, <1>4 DEF FileIn, PositionIn, InWrite, NoCall
  <1>10. \A s \in Named \ {f} : FileIn(s)' = FileIn(s) /\ PositionIn(s)' = PositionIn(s)
    <2>1. \A s \in Named : Content(s)' = Content(s)
      BY <1>1, <1>2, SameContent
    <2>2. QED
      BY <1>0, <1>1, <2>1 DEF FileIn, PositionIn, InWrite, NoCall
  <1>11. BySlots /\ BySlots'
    BY <1>1, NamesOfSlots, NamesOfSlotsNext, SameNames
  <1>12. /\ FilesByName' = [FilesByName EXCEPT ![n] = SubSeq(new, 1, Len(old))]
         /\ PositionsByName' = [PositionsByName EXCEPT ![n] = Len(old)]
    BY <1>1, <1>3, <1>8, <1>9, <1>10, <1>11, OneSlotChanges DEF n
  <1>13. buf \in Files!Buffer
    BY DEF Files!Buffer, Buffer
  <1>14. QED
    BY <1>1, <1>3, <1>12, <1>13 DEF Files!WriteFails, Failure, new

(* An iteration of its loop, and what the caller sees of it: nothing. *)
LEMMA Iterates ==
  ASSUME NEW G \in SUBSET Slot,
         IInv, BlockInv(G), Covers(G), FilesInv, Room, Room',
         WriteKnownBlock \/ WriteNewDirect \/ WriteNewIndirect \/ WriteFirstIndirect
  PROVE  /\ DataWritten(G) /\ Writing
         /\ blockIndex < DIRECT_POINTERS + INDIRECT_POINTERS
         /\ \E tables, c : WriteData(tables, c)
  <1>1. Writing /\ DataWritten(G)
    BY KnownBlockWhole, NewDirectWhole, NewIndirectWhole, FirstIndirectWhole
       DEF WriteKnownBlock, WriteNewDirect, WriteNewIndirect, WriteFirstIndirect
  <1>2. \E tables, c : WriteData(tables, c)
    BY DEF WriteKnownBlock, WriteNewDirect, WriteNewIndirect, WriteFirstIndirect
  <1>3. blockIndex < DIRECT_POINTERS + INDIRECT_POINTERS
    <2>1. /\ blockIndex \in Nat /\ Indirect \in SoundPointer
          /\ blockIndex > DIRECT_POINTERS => Indirect >= 0
      BY <1>1, WriteInProgress
    <2>2. CASE WriteKnownBlock \/ WriteNewDirect \/ WriteNewIndirect
      BY <2>1, <2>2, RoleNumbers DEF WriteKnownBlock, WriteNewDirect, WriteNewIndirect
    <2>3. CASE WriteFirstIndirect
      <3>1. Indirect < 0 /\ Indirect \in Int
        BY <2>1, <2>3, Sizes DEF WriteFirstIndirect
      <3>2. ~(blockIndex > DIRECT_POINTERS)
        BY <2>1, <3>1
      <3>3. QED
        BY <2>1, <3>2, RoleNumbers
    <2>4. QED
      BY <2>2, <2>3
  <1>4. QED
    BY <1>1, <1>2, <1>3

LEMMA IterationWrites ==
  ASSUME NEW G \in SUBSET Slot,
         IInv, BlockInv(G), Covers(G), FilesInv, WriteInv, Room, Room',
         IInv', BlockInv(G)', FilesInv',
         WriteKnownBlock \/ WriteNewDirect \/ WriteNewIndirect \/ WriteFirstIndirect
  PROVE  /\ WriteInv'
         /\ directoryEntries' = directoryEntries /\ result' = result
         /\ \A s \in Named : FileIn(s)' = FileIn(s) /\ PositionIn(s)' = PositionIn(s)
  <1>1. PICK tables, c : WriteData(tables, c)
    BY Iterates
  <1>2. /\ WriteInv'
        /\ \A s \in Named : FileIn(s)' = FileIn(s) /\ PositionIn(s)' = PositionIn(s)
    BY <1>1, Iterates, IterationOfWrite
  <1>3. directoryEntries' = directoryEntries /\ result' = result
    BY <1>1 DEF WriteData
  <1>4. QED
    BY <1>2, <1>3

LEMMA IterationFiles ==
  ASSUME NEW G \in SUBSET Slot,
         IInv, BlockInv(G), Covers(G), FilesInv, NamesInv, WriteInv, Room, Room',
         IInv', BlockInv(G)', FilesInv',
         WriteKnownBlock \/ WriteNewDirect \/ WriteNewIndirect \/ WriteFirstIndirect
  PROVE  /\ result' = result
         /\ FilesByName' = FilesByName /\ PositionsByName' = PositionsByName
  <1>1. BySlots /\ BySlots'
    BY IterationWrites, NamesOfSlots, NamesOfSlotsNext, SameNames
  <1>2. QED
    BY <1>1, IterationWrites, NoSlotChanges

(* The call begins: the caller sees nothing of it either. *)
LEMMA WriteBeginsFiles ==
  ASSUME IInv, FilesInv, NamesInv, IInv', FilesInv',
         NEW fd \in Slot, NEW buf \in Buffer, WriteBegins(fd, buf)
  PROVE  /\ result' = result
         /\ FilesByName' = FilesByName /\ PositionsByName' = PositionsByName
  <1>1. /\ directoryEntries' = directoryEntries /\ iNodes' = iNodes /\ result' = result
        /\ read_writePointers' = [read_writePointers EXCEPT
             ![fd] = IF AllBlocksKnown(fd) THEN iNodes[fd].size ELSE 0]
    BY DEF WriteBegins
  <1>2. /\ fd \in Named /\ call = NoCall /\ DiskToBe' = DiskToBe
        /\ FileIn(fd)' = Content(fd) /\ PositionIn(fd)' = read_writePointers[fd]
        /\ \A s : call'.fd = s => s = fd
    BY WriteStarts
  <1>3. \A s \in Named : Content(s)' = Content(s)
    BY <1>1, <1>2, SameContent
  <1>4. ASSUME NEW s \in Named
        PROVE  FileIn(s)' = FileIn(s) /\ PositionIn(s)' = PositionIn(s)
    <2>1. FileIn(s) = Content(s) /\ PositionIn(s) = read_writePointers[s]
      BY <1>2 DEF FileIn, PositionIn, InWrite, NoCall
    <2>2. CASE s = fd
      BY <1>2, <2>1, <2>2
    <2>3. CASE s # fd
      <3>1. FileIn(s)' = Content(s)' /\ PositionIn(s)' = read_writePointers'[s]
        BY <1>2, <2>3 DEF FileIn, PositionIn, InWrite
      <3>2. read_writePointers'[s] = read_writePointers[s]
        BY <1>1, <2>3 DEF IInv, MemoryOK, Named
      <3>3. QED
        BY <1>3, <2>1, <3>1, <3>2
    <2>4. QED
      BY <2>2, <2>3
  <1>5. BySlots /\ BySlots'
    BY <1>1, NamesOfSlots, NamesOfSlotsNext, SameNames
  <1>6. QED
    BY <1>1, <1>4, <1>5, NoSlotChanges

(* What sfs_fwrite is at stays true while nothing moves. *)
LEMMA WriteUntouched ==
  ASSUME WriteInv, directoryEntries' = directoryEntries, iNodes' = iNodes,
         read_writePointers' = read_writePointers, DiskToBe' = DiskToBe, call' = call
  PROVE  WriteInv'
  BY DEF WriteInv, WriteMeant, WriteDone, Laid, Named, DataOf, blockIndex

(* A write reaches the disk. *)
LEMMA FlushWrites ==
  ASSUME IInv, WriteInv, Flush
  PROVE  /\ WriteInv' /\ DiskToBe' = DiskToBe /\ result' = result
         /\ directoryEntries' = directoryEntries /\ iNodes' = iNodes
         /\ read_writePointers' = read_writePointers
         /\ \/ call' = call
            \/ call.op # "sfs_fwrite" /\ call'.op # "sfs_fwrite"
  <1>1. /\ directoryEntries' = directoryEntries /\ iNodes' = iNodes
        /\ read_writePointers' = read_writePointers /\ result' = result
    BY DEF Flush, memory
  <1>2. call' = call \/ (call.op # "sfs_fwrite" /\ call' = NoCall)
    BY DEF Flush
  <1>3. DiskToBe' = DiskToBe
    BY FlushedTheSame DEF IInv
  <1>4. WriteInv'
    <2>1. CASE call' = call
      BY <1>1, <1>3, <2>1, WriteUntouched
    <2>2. CASE call' = NoCall
      BY <2>2 DEF WriteInv, NoCall
    <2>3. QED
      BY <1>2, <2>1, <2>2
  <1>5. \/ call' = call
        \/ call.op # "sfs_fwrite" /\ call'.op # "sfs_fwrite"
    BY <1>2 DEF NoCall
  <1>6. QED
    BY <1>1, <1>3, <1>4, <1>5

LEMMA FlushFiles ==
  ASSUME IInv, FilesInv, NamesInv, WriteInv, IInv', FilesInv', Flush
  PROVE  /\ result' = result
         /\ FilesByName' = FilesByName /\ PositionsByName' = PositionsByName
  BY FlushWrites, NothingMoves

-----------------------------------------------------------------------------
(* The refinement.                                                         *)

AllInv(G) == IInv /\ BlockInv(G) /\ FilesInv /\ WriteInv

(* What sfs_fwrite is at, after any step. *)
LEMMA WriteInductive ==
  ASSUME NEW G \in SUBSET Slot,
         AllInv(G), Covers(G), Room, Room', IInv', BlockInv(G)', FilesInv',
         [Process]_vars
  PROVE  WriteInv'
  <1> USE DEF AllInv
  <1>1. CASE call' = NoCall \/ call'.op # "sfs_fwrite"
    BY <1>1 DEF WriteInv, NoCall
  <1>2. ASSUME NEW fd \in Slot, NEW buf \in Buffer, WriteBegins(fd, buf) PROVE WriteInv'
    BY <1>2, WriteStarts
  <1>3. CASE Call
    <2>1. CASE \E fd \in Slot, buf \in Buffer : WriteBegins(fd, buf)
      BY <1>2, <2>1
    <2>2. CASE ~\E fd \in Slot, buf \in Buffer : WriteBegins(fd, buf)
      <3>1. \A n \in Name : sfs_fopen(n) => call' = NoCall \/ call'.op = "sfs_fopen"
        BY DEF sfs_fopen, OpenExisting, OpenNew, OpenFails, Idle
      <3>2. Refuse => call' = NoCall
        BY DEF Refuse, Idle
      <3>3. \A n \in Name : RemoveFile(n) => call'.op = "sfs_remove"
        BY DEF RemoveFile
      <3>4. \A fd, to, outcome : MovePointer(fd, to, outcome) => call' = NoCall
        BY DEF MovePointer, Idle
      <3>5. \A fd \in Slot, location \in 0 .. MaxFileSize :
              sfs_fseek(fd, location) => call' = NoCall
        BY <3>2, <3>4 DEF sfs_fseek
      <3>6. \A fd \in Slot, count \in 0 .. MaxCount : sfs_fread(fd, count) => call' = NoCall
        BY <3>2, <3>4 DEF sfs_fread
      <3>7. \A fd \in Slot : sfs_fclose(fd) => call' = NoCall
        BY <3>2, <3>4 DEF sfs_fclose
      <3>8. QED
        BY <1>1, <1>3, <2>2, <3>1, <3>2, <3>3, <3>5, <3>6, <3>7
           DEF Call, sfs_remove, sfs_fwrite
    <2>3. QED
      BY <2>1, <2>2
  <1>4. CASE WriteKnownBlock \/ WriteNewDirect \/ WriteNewIndirect \/ WriteFirstIndirect
    BY <1>4, IterationWrites
  <1>5. CASE \/ FileTooLarge \/ NoBlockLeft \/ NoBlockForFirstPointer
             \/ NoBlockForPointers
    <2>1. FileTooLarge
      BY <1>5, FailureWhole
    <2>2. call' = NoCall
      BY <2>1 DEF FileTooLarge, WriteFails
    <2>3. QED
      BY <1>1, <2>2
  <1>6. CASE WriteEnds
    <2>1. call'.op = "return"
      BY <1>6 DEF WriteEnds
    <2>2. QED
      BY <1>1, <2>1
  <1>7. CASE Flush
    BY <1>7, FlushWrites
  <1>8. CASE mksfs_fresh \/ Remount
    BY <1>1, <1>8 DEF mksfs_fresh, Remount, Idle
  <1>9. CASE UNCHANGED vars
    <2>1. DiskToBe' = DiskToBe
      BY <1>9 DEF vars, DiskToBe, Latest
    <2>2. QED
      BY <1>9, <2>1, WriteUntouched DEF vars, memory
  <1>10. QED
    BY <1>3, <1>4, <1>5, <1>6, <1>7, <1>8, <1>9 DEF Process, WriteLoop

(* Every step of the process is one of the abstraction, or none. *)
LEMMA StepsOfFiles ==
  ASSUME NEW G \in SUBSET Slot,
         AllInv(G), NamesInv, Covers(G), AllInv(G)', NamesInv', Room, Room',
         ShortNames, [Process]_vars
  PROVE  Files!Next \/ UNCHANGED Files!fvars
  <1> USE DEF AllInv
  <1>1. ASSUME result' = result, FilesByName' = FilesByName,
               PositionsByName' = PositionsByName
        PROVE  UNCHANGED Files!fvars
    BY <1>1 DEF Files!fvars
  <1>2. ASSUME Refuse PROVE Files!Next
    BY <1>2, RefuseFiles DEF Files!Next
  <1>3. ASSUME NEW n \in Name, sfs_fopen(n) PROVE Files!Next
    <2>1. CASE OpenExisting(n)
      BY <2>1, OpenExistingFiles DEF Files!Next
    <2>2. CASE OpenNew(n)
      BY <2>2, OpenNewFiles DEF Files!Next
    <2>3. CASE OpenFails(n)
      BY <1>2, <2>3 DEF OpenFails, Refuse
    <2>4. QED
      BY <1>3, <2>1, <2>2, <2>3 DEF sfs_fopen
  <1>4. ASSUME NEW n \in Name, sfs_remove(n) PROVE Files!Next
    BY <1>2, <1>4, RemoveFiles DEF sfs_remove, Files!Next
  <1>5. ASSUME NEW fd \in Slot, sfs_fclose(fd) PROVE Files!Next
    BY <1>2, <1>5, CloseFiles DEF sfs_fclose, Files!Next
  <1>6. ASSUME NEW fd \in Slot, NEW location \in 0 .. MaxFileSize, sfs_fseek(fd, location)
        PROVE  Files!Next
    BY <1>2, <1>6, SeekFiles DEF sfs_fseek, Files!Next
  <1>7. ASSUME NEW fd \in Slot, NEW count \in 0 .. MaxCount, sfs_fread(fd, count)
        PROVE  Files!Next
    BY <1>2, <1>7, ReadFiles DEF sfs_fread, Files!Next
  <1>8. ASSUME NEW fd \in Slot, NEW buf \in Buffer, sfs_fwrite(fd, buf)
        PROVE  Files!Next \/ UNCHANGED Files!fvars
    BY <1>1, <1>2, <1>8, WriteBeginsFiles DEF sfs_fwrite
  <1>9. CASE Call
    BY <1>3, <1>4, <1>5, <1>6, <1>7, <1>8, <1>9 DEF Call
  <1>10. CASE WriteKnownBlock \/ WriteNewDirect \/ WriteNewIndirect \/ WriteFirstIndirect
    BY <1>1, <1>10, IterationFiles
  <1>11. CASE \/ FileTooLarge \/ NoBlockLeft \/ NoBlockForFirstPointer
              \/ NoBlockForPointers
    BY <1>11, FailureWhole, WriteFailsFiles DEF Files!Next
  <1>12. CASE WriteEnds
    BY <1>12, WriteFiles DEF Files!Next
  <1>13. CASE Flush
    BY <1>1, <1>13, FlushFiles
  <1>14. CASE mksfs_fresh
    BY <1>14, FormatFiles DEF Files!Next
  <1>15. CASE Remount
    BY <1>15, MountFiles DEF Files!Next
  <1>16. CASE UNCHANGED vars
    <2>1. FilesByName' = FilesByName /\ PositionsByName' = PositionsByName
      <3>1. DiskToBe' = DiskToBe
        BY <1>16 DEF vars, DiskToBe, Latest
      <3>2. QED
        BY <1>16, <3>1, NothingMoves DEF vars, memory
    <2>2. QED
      BY <1>1, <1>16, <2>1 DEF vars
  <1>17. QED
    BY <1>9, <1>10, <1>11, <1>12, <1>13, <1>14, <1>15, <1>16 DEF Process, WriteLoop

(* It begins as the abstraction does. *)
LEMMA FilesBegin == Init => Files!Init /\ NamesInv /\ WriteInv
  <1> SUFFICES ASSUME Init PROVE Files!Init /\ NamesInv /\ WriteInv
    OBVIOUS
  <1>1. directoryEntries = FreshNames /\ call = NoCall /\ result = Success /\ IInv
    BY Initially DEF Init
  <1>2. Named = {}
    BY <1>1 DEF Named, FreshNames
  <1>3. NamesInv /\ WriteInv
    BY <1>1, <1>2 DEF NamesInv, WriteInv, NoCall
  <1>4. BySlots
    BY <1>1, <1>3, NamesOfSlots
  <1>5. \A n \in Name : FilesByName[n] = Absent /\ PositionsByName[n] = -1
    BY <1>2, <1>4 DEF BySlots
  <1>6. FilesByName = [m \in Name |-> FilesByName[m]]
        /\ PositionsByName = [m \in Name |-> PositionsByName[m]]
    BY DEF FilesByName, PositionsByName
  <1>7. QED
    BY <1>1, <1>3, <1>5, <1>6 DEF Files!Init, Files!Success, Success

(* As long as no file has the block of the root directory and no name has  *)
(* lost its terminator, a caller cannot tell the tables, blocks and        *)
(* pointers from files by name: sfs_fread returns what was written,        *)
(* sfs_fwrite and sfs_remove touch one file, a file that cannot grow keeps *)
(* its size, and mksfs(0) finds every file as it was.                      *)
THEOREM FilesImplemented ==
  ProcessSpec /\ []Room /\ []ShortNames => AbstractFiles
  <1> DEFINE Inv == AllInv(Slot) /\ NamesInv
  <1>1. Init => Inv /\ Files!Init
    BY Initially, BlocksInitially, FilesInitially, FilesBegin DEF AllInv
  <1>2. Inv /\ Room /\ Room' /\ ShortNames /\ [Process]_vars => Inv'
    <2> SUFFICES ASSUME Inv, Room, Room', ShortNames, [Process]_vars PROVE Inv'
      OBVIOUS
    <2>1. IInv'
      BY Inductive DEF AllInv, Next
    <2>2. Covers(Slot)
      BY AllSlotsCover DEF AllInv
    <2>3. BlockInv(Slot)' /\ FilesInv' /\ NamesInv'
      BY <2>2, BlocksInductive, FilesInductive, NamesInductive DEF AllInv
    <2>4. WriteInv'
      BY <2>1, <2>2, <2>3, WriteInductive
    <2>5. QED
      BY <2>1, <2>3, <2>4 DEF AllInv
  <1>3. Inv /\ Inv' /\ Room /\ Room' /\ ShortNames /\ [Process]_vars
          => [Files!Next]_(Files!fvars)
    BY StepsOfFiles, AllSlotsCover DEF AllInv
  <1>4. QED
    BY <1>1, <1>2, <1>3, PTL DEF ProcessSpec, AbstractFiles, Files!Spec

=============================================================================
