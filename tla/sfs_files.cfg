CONSTANTS
  Name = {n1, n2}
  LongName = {}
  Empty = Empty
  Byte = {x, y}
  Junk = Junk
  TOTAL_FILES = 2
  DIRECT_POINTERS = 1
  INDIRECT_POINTERS = 1
  DISK_BLOCK_SIZE = 2
  FirstFree = 2
  RootDirectoryIndex = 5
  FreeBlockListIndex = 6
  DirSlotsOnDisk = 2
  InodesOnDisk = 2
  MaxCount = 1
SPECIFICATION ProcessSpec
CONSTRAINT Room
PROPERTY AbstractFiles
SYMMETRY Symmetry
