CONSTANTS
  Name = {n1, n2}
  LongName = {n1}
  Empty = Empty
  Byte = {x}
  Junk = Junk
  TOTAL_FILES = 2
  DIRECT_POINTERS = 1
  INDIRECT_POINTERS = 2
  DISK_BLOCK_SIZE = 1
  FirstFree = 2
  RootDirectoryIndex = 4
  FreeBlockListIndex = 6
  DirSlotsOnDisk = 2
  InodesOnDisk = 2
  MaxCount = 1
SPECIFICATION ProcessSpec
INVARIANTS
  TypeOK
  NoSharedBlocks
  OwnedBlocksOccupied
  PointerWithinFile
