CONSTANTS
  a = a  b = b  x0 = x0  x1 = x1
  INODE_NUM = 3  DATA_BLOCKS_NUM = 7
  DIRECT_DATA_BLOCKS_NUM = 2  MAX_OPEN_FILE = 1
  UnitsPerBlock = 4
  Names = {a, b}
  Paths <- OnePath
  Data = {x0, x1}  Zero = x0
  Extents <- SomeExtents
  Sizes = {0, 6}
  MaxUnits = 12
  Rules = {"room_for_mkdir", "one_block_directories", "long_files_kept", "symlinks_saved"}
SPECIFICATION CrashSpec
INVARIANTS FilesOnMarkedBlocks
CHECK_DEADLOCK FALSE
