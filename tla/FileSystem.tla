--------------------------- MODULE FileSystem ---------------------------
(***************************************************************************)
(* The file system of P6 (common.c): the tables kept in memory, the device *)
(* they are written to, and one action per FUSE operation, served one at a *)
(* time.  Sizes count units of sizeof(dentry), UnitsPerBlock to a block,   *)
(* so a file and a directory are both sequences of units.                  *)
(*                                                                         *)
(* Rules names what the users of this volume keep to.  Each rule stands    *)
(* for a fault of the code: without it the properties below are false.     *)
(***************************************************************************)
EXTENDS Integers, Sequences, FiniteSets, FiniteSetsExt, SequencesExt

CONSTANTS
  INODE_NUM, DATA_BLOCKS_NUM, DIRECT_DATA_BLOCKS_NUM, MAX_OPEN_FILE,
  UnitsPerBlock,
  Names, Paths,      \* the paths asked for, sequences of names
  Data, Zero,        \* what a unit of a file holds
  Extents, Sizes,    \* <<offset, size>> of the writes, sizes of the truncations
  MaxUnits,          \* bounds the files, at most to one block of the second index
  Rules

AllRules == {"room_for_mkdir", "one_block_directories", "long_files_kept", "symlinks_saved"}

ASSUME FileAssumption ==
  /\ INODE_NUM \in Nat \ {0} /\ DATA_BLOCKS_NUM \in Nat \ {0}
  /\ DIRECT_DATA_BLOCKS_NUM \in Nat \ {0} /\ UnitsPerBlock \in Nat \ {0, 1}
  /\ Zero \in Data /\ Rules \subseteq AllRules
  /\ Names \cap {"..", "."} = {} /\ Paths \subseteq Seq(Names) \ {<<>>}
  /\ Sizes \subseteq Nat /\ Extents \subseteq Nat \X Nat
  /\ MaxUnits \in 0..(DIRECT_DATA_BLOCKS_NUM + UnitsPerBlock) * UnitsPerBlock

Inodes == 0..INODE_NUM - 1
Blocks == 0..DATA_BLOCKS_NUM - 1
Root   == 0

VARIABLES
  vol,              \* the tables in memory, the tables on disk, the data blocks
  file_info_table   \* the entries of the table of open files in use

fsVars == <<vol, file_info_table>>

\* the k-th block of a buffer, with zeros where the buffer ends
Block(buf, k) ==
  [j \in 1..UnitsPerBlock |->
     LET u == (k - 1) * UnitsPerBlock + j IN IF u <= Len(buf) THEN buf[u] ELSE Zero]

NoInode == [file_type |-> "NORMAL_FILE", file_size |-> 0, dentry_num |-> 0,
            blocks_number |-> 0, links |-> 0, indirect_block |-> 0,
            direct_block |-> [k \in 1..DIRECT_DATA_BLOCKS_NUM |-> 0]]

(***************************************************************************)
(* my_mkfs() and my_mount(): the root directory is inode 0 in block 0.     *)
(***************************************************************************)
FreshTables ==
  [inode_bitmap |-> {Root}, datablock_bitmap |-> {0},
   inode |-> [i \in Inodes |->
      IF i = Root
        THEN [NoInode EXCEPT !.file_type = "DIRECTORY", !.file_size = 2,
                             !.dentry_num = 2, !.blocks_number = 1, !.links = 1]
        ELSE NoInode]]

FsInit ==
  /\ vol = [mem |-> FreshTables, disk |-> FreshTables,
            device |-> [b \in Blocks |->
              IF b = 0 THEN Block(<< <<"..", Root>>, <<".", Root>> >>, 1) ELSE Block(<<>>, 1)]]
  /\ file_info_table = {}

-----------------------------------------------------------------------------
(***************************************************************************)
(* Helpers.  Each takes a volume and gives the volume the function leaves. *)
(***************************************************************************)
CeilDivision(a, b) == IF a = 0 THEN 0 ELSE (a - 1) \div b + 1
BlocksNum(size)    == CeilDivision(size, UnitsPerBlock)

\* the first unused bit, -1 when there is none
ApplyAvailableBit(bitmap, bits) ==
  IF bits \subseteq bitmap THEN -1 ELSE Min(bits \ bitmap)

\* the bits in the order in which they are found
InOrder(bits) ==
  [k \in 1..Cardinality(bits) |->
     CHOOSE b \in bits : Cardinality({c \in bits : c < b}) = k - 1]

WriteInodeBitmap(v) == [v EXCEPT !.disk.inode_bitmap = v.mem.inode_bitmap]
WriteBlockBitmap(v) == [v EXCEPT !.disk.datablock_bitmap = v.mem.datablock_bitmap]
WriteInodeTable(v)  == [v EXCEPT !.disk.inode = v.mem.inode]

SecondIndirectNum(size) == Max({0, BlocksNum(size) - DIRECT_DATA_BLOCKS_NUM})

\* an index block, clear where it holds no entry
Index(entries) ==
  [k \in 1..UnitsPerBlock |-> IF k <= Len(entries) THEN entries[k] ELSE 0]

\* entry k (from 0) of the first indirect block
SecondIndirect(v, i, k) == v.device[v.mem.inode[i].indirect_block][k + 1]

DatablockIndex(v, i) ==
  LET n == v.mem.inode[i]
  IN [k \in 1..n.blocks_number |->
        IF k <= DIRECT_DATA_BLOCKS_NUM THEN n.direct_block[k]
        ELSE v.device[SecondIndirect(v, i, 0)][k - DIRECT_DATA_BLOCKS_NUM]]

ReadFile(v, i) ==
  LET index == DatablockIndex(v, i)
  IN [u \in 1..Len(index) * UnitsPerBlock |->
        v.device[index[BlocksNum(u)]][((u - 1) % UnitsPerBlock) + 1]]

WriteFile(v, i, buf) ==
  LET index == DatablockIndex(v, i)
      LastAt(b) == Max({k \in DOMAIN index : index[k] = b})
  IN [v EXCEPT !.device = [b \in Blocks |->
        IF b \in ToSet(index) THEN Block(buf, LastAt(b)) ELSE v.device[b]]]

Directory(v, d) == SubSeq(ReadFile(v, d), 1, v.mem.inode[d].dentry_num)

LookupDirectory(v, d, name) ==
  LET dir == Directory(v, d)
      at  == {k \in DOMAIN dir : dir[k][1] = name}
  IN IF at = {} THEN -1 ELSE dir[Min(at)][2]

\* path_analize(): the directory that holds the last name, and what it names
Walk(v, path) ==
  LET at[k \in 0..Len(path)] ==
        IF k = 0 THEN Root ELSE LookupDirectory(v, at[k - 1], path[k])
  IN at[Len(path)]
ParentOf(v, path) == Walk(v, Front(path))
FileOf(v, path)   == Walk(v, path)

\* the entry goes to the end of the directory, on a new block if that is full
Enter(v, d, name, i) ==
  LET n    == v.mem.inode[d]
      size == n.file_size + 1
  IN <<[v EXCEPT !.mem.inode[d] = [n EXCEPT !.file_size = size,
                                            !.dentry_num = n.dentry_num + 1,
                                            !.blocks_number = BlocksNum(size)]],
       Append(Directory(v, d), <<name, i>>)>>

\* the block a directory takes when its size is a multiple of a block
NeedsBlock(v, d) == v.mem.inode[d].file_size % UnitsPerBlock = 0
FreeBlock(v)     == ApplyAvailableBit(v.mem.datablock_bitmap, Blocks)
FreeInode(v)     == ApplyAvailableBit(v.mem.inode_bitmap, Inodes)
TakeBlock(v)     == [v EXCEPT !.mem.datablock_bitmap = @ \cup {FreeBlock(v)}]
TakeInode(v)     == [v EXCEPT !.mem.inode_bitmap = @ \cup {FreeInode(v)}]

(***************************************************************************)
(* add_file_in_directory_by_inode() and add_dentry_in_directory_by_inode() *)
(***************************************************************************)
\* what both do once the bits are taken: the new block is never recorded
AddFile(v, d, name, type) ==
  LET i == FreeInode(v)
      w == TakeInode(v)
      x == IF NeedsBlock(v, d) THEN TakeBlock(w) ELSE w
      y == Enter(x, d, name, i)
      n == v.mem.inode[i]
      z == [y[1] EXCEPT !.mem.inode[i] =
              [n EXCEPT !.file_size = 0, !.dentry_num = 0, !.blocks_number = 0,
                        !.links = 1, !.file_type = type]]
  IN IF i = -1 THEN v
     ELSE IF NeedsBlock(v, d) /\ FreeBlock(v) = -1 THEN w
     ELSE WriteFile(WriteInodeTable(WriteBlockBitmap(WriteInodeBitmap(z))), d, y[2])

FileAdded(v, d) == FreeInode(v) # -1 /\ (NeedsBlock(v, d) => FreeBlock(v) # -1)

AddDentry(v, d, name, i) ==
  LET x == IF NeedsBlock(v, d) THEN TakeBlock(v) ELSE v
      y == Enter(x, d, name, i)
  IN IF NeedsBlock(v, d) /\ FreeBlock(v) = -1 THEN v
     ELSE WriteFile(WriteInodeTable(y[1]), d, y[2])

\* Faulty: the last entry goes, whichever was asked for.
RemovesLastEntry(v, d, name) ==
  LET dir == Directory(v, d)
      at  == {k \in 3..Len(dir) : dir[k][1] = name}
      w   == [v EXCEPT !.mem.inode[d] = [@ EXCEPT !.dentry_num = @ - 1,
                                                  !.file_size = @ - 1]]
  IN IF at = {} THEN v ELSE WriteFile(WriteInodeTable(w), d, Front(dir))

\* the entries after the first two are searched, later ones move up
RemoveDentry(v, d, name) ==
  LET n   == v.mem.inode[d]
      dir == Directory(v, d)
      at  == {k \in 3..Len(dir) : dir[k][1] = name}
      w   == [v EXCEPT !.mem.inode[d] = [n EXCEPT !.dentry_num = n.dentry_num - 1,
                                                  !.file_size = n.file_size - 1]]
  IN IF at = {} THEN v
     ELSE WriteFile(WriteInodeTable(w), d, RemoveAt(dir, Min(at)))

(***************************************************************************)
(* file_increase_block_num().  Past the direct blocks a file takes a block *)
(* for the first index and one for the second.                             *)
(***************************************************************************)
TakesIndexes(v, i, size) ==
  /\ BlocksNum(size) > DIRECT_DATA_BLOCKS_NUM
  /\ BlocksNum(v.mem.inode[i].file_size) <= DIRECT_DATA_BLOCKS_NUM

BlocksToTake(v, i, size) ==
  BlocksNum(size) - BlocksNum(v.mem.inode[i].file_size)
  + (IF TakesIndexes(v, i, size) THEN 2 ELSE 0)

\* the file with its blocks in the inode and the indexes, no table saved yet
Linked(v, i, size) ==
  LET n     == v.mem.inode[i]
      old   == BlocksNum(n.file_size)
      new   == BlocksNum(size)
      first == TakesIndexes(v, i, size)
      need  == BlocksToTake(v, i, size)
      free  == InOrder(Blocks \ v.mem.datablock_bitmap)
      data  == SubSeq(free, 1, new - old)
      table == IF first THEN free[need - 1] ELSE n.indirect_block
      block == IF first THEN free[need] ELSE SecondIndirect(v, i, 0)
      kept  == IF first THEN <<>>
               ELSE SubSeq(v.device[block], 1, old - DIRECT_DATA_BLOCKS_NUM)
      added == SubSeq(data, Len(data) - (SecondIndirectNum(size) - Len(kept)) + 1, Len(data))
      direct == [k \in 1..DIRECT_DATA_BLOCKS_NUM |->
                   IF k \in old + 1..new THEN data[k - old] ELSE n.direct_block[k]]
      device == [b \in Blocks |->
                   IF new > DIRECT_DATA_BLOCKS_NUM /\ b = block THEN Index(kept \o added)
                   ELSE IF first /\ b = table THEN Index(<<block>>) ELSE v.device[b]]
  IN [v EXCEPT
        !.mem.datablock_bitmap = @ \cup ToSet(SubSeq(free, 1, need)),
        !.mem.inode[i] = [n EXCEPT !.file_size = size, !.blocks_number = new,
                                   !.indirect_block = table, !.direct_block = direct],
        !.device = device]

\* the blocks from the old-th on are cleared last
Cleared(v, i, old) ==
  LET index == DatablockIndex(v, i)
  IN [v EXCEPT !.device = [b \in Blocks |->
        IF \E k \in old + 1..Len(index) : index[k] = b THEN Block(<<>>, 1) ELSE @[b]]]

\* {<<result, volume>>}: count_bitmap() adds to an uninitialised count, so its
\* test goes either way.  With up to two blocks the code also reads two blocks
\* and writes them back as they were.
Increase(v, i, size) ==
  LET n == v.mem.inode[i] IN
  IF size <= n.blocks_number * UnitsPerBlock THEN {<<TRUE, v>>}
  ELSE {<<FALSE, v>>} \cup
       (IF Cardinality(Blocks \ v.mem.datablock_bitmap) < BlocksToTake(v, i, size)
          THEN {<<FALSE, [v EXCEPT !.mem.datablock_bitmap = Blocks]>>}
          ELSE {<<TRUE, Cleared(WriteBlockBitmap(WriteInodeTable(Linked(v, i, size))),
                                i, BlocksNum(n.file_size))>>})

(***************************************************************************)
(* file_decrease_block_num().                                              *)
(***************************************************************************)
\* Faulty: the last block kept is freed as well.
FreesLastKept(v, i, size) ==
  LET n     == v.mem.inode[i]
      new   == BlocksNum(size)
      index == DatablockIndex(v, i)
      freed == {index[k] : k \in Max({1, new})..n.blocks_number}
               \cup (IF n.blocks_number > DIRECT_DATA_BLOCKS_NUM
                        /\ new <= DIRECT_DATA_BLOCKS_NUM
                      THEN {SecondIndirect(v, i, 0), n.indirect_block} ELSE {})
      w     == [v EXCEPT !.mem.datablock_bitmap = @ \ freed,
                         !.mem.inode[i] = [@ EXCEPT !.file_size = size,
                                                    !.blocks_number = new]]
  IN WriteInodeTable(WriteBlockBitmap(w))

Decrease(v, i, size) ==
  LET n     == v.mem.inode[i]
      new   == BlocksNum(size)
      index == DatablockIndex(v, i)
      freed == {index[k] : k \in new + 1..n.blocks_number}
               \cup {SecondIndirect(v, i, k) :
                       k \in SecondIndirectNum(size)..SecondIndirectNum(n.file_size) - 1}
               \cup (IF n.blocks_number > DIRECT_DATA_BLOCKS_NUM
                        /\ new <= DIRECT_DATA_BLOCKS_NUM THEN {n.indirect_block} ELSE {})
      w     == [v EXCEPT !.mem.datablock_bitmap = @ \ freed,
                         !.mem.inode[i] = [@ EXCEPT !.file_size = size,
                                                    !.blocks_number = new]]
  IN WriteInodeTable(WriteBlockBitmap(w))

\* recycle_inode_and_space(): the second indirect block stays taken
Recycle(v, i) ==
  LET n     == v.mem.inode[i]
      freed == ToSet(DatablockIndex(v, i))
               \cup (IF n.blocks_number > DIRECT_DATA_BLOCKS_NUM
                       THEN {n.indirect_block} ELSE {})
      w     == [v EXCEPT !.mem.datablock_bitmap = @ \ freed,
                         !.mem.inode_bitmap = @ \ {i}, !.mem.inode[i] = NoInode]
  IN WriteInodeTable(WriteBlockBitmap(WriteInodeBitmap(w)))

-----------------------------------------------------------------------------
(***************************************************************************)
(* The operations.  The kernel resolves a path name by name, so it asks    *)
(* only below directories that exist, and follows symbolic links itself.   *)
(***************************************************************************)
TypeAt(p) == vol.mem.inode[FileOf(vol, p)].file_type
IsDir(d)  == d # -1 /\ vol.mem.inode[d].file_type = "DIRECTORY"
Asked     == {p \in Paths : \A k \in 1..Len(p) - 1 : IsDir(FileOf(vol, SubSeq(p, 1, k)))}
Present   == {p \in Asked : FileOf(vol, p) # -1}
Absent    == Asked \ Present

RoomToMkdir ==
  "room_for_mkdir" \in Rules =>
    FreeInode(vol) # -1 /\ FreeBlock(vol) # -1
FitsDirectory(p) ==
  "one_block_directories" \in Rules =>
    vol.mem.inode[ParentOf(vol, p)].dentry_num < UnitsPerBlock
\* a file with two or more indirect data blocks gives none of them back
MayShrink(size, new) ==
  "long_files_kept" \in Rules =>
    SecondIndirectNum(size) \in {0, 1, SecondIndirectNum(new)}

Changes(v) == vol' = v /\ UNCHANGED file_info_table

p6fs_mknod(p) ==
  /\ p \in Absent /\ FitsDirectory(p)
  /\ Changes(AddFile(vol, ParentOf(vol, p), Last(p), "NORMAL_FILE"))

\* the file is added first, a failure of that is not looked at
p6fs_mkdir(p) ==
  LET d == ParentOf(vol, p)
      v == AddFile(vol, d, Last(p), "DIRECTORY")
      i == FreeInode(vol)
      n == v.mem.inode[i]
      w == [v EXCEPT !.mem.inode[i] = [n EXCEPT !.file_size = n.file_size + 2,
                                                !.dentry_num = n.dentry_num + 2,
                                                !.blocks_number = BlocksNum(2)]]
      x == [TakeBlock(w) EXCEPT !.mem.inode[i].direct_block[1] = FreeBlock(w)]
  IN /\ p \in Absent /\ FitsDirectory(p) /\ RoomToMkdir
     /\ Changes(IF FreeBlock(w) = -1 THEN w
                ELSE WriteFile(WriteInodeTable(WriteBlockBitmap(WriteInodeBitmap(x))),
                               i, << <<"..", d>>, <<".", i>> >>))

\* the root is no member of Paths
p6fs_rmdir(p) ==
  LET i == FileOf(vol, p) IN
  /\ p \in Present /\ TypeAt(p) = "DIRECTORY"
  /\ vol.mem.inode[i].dentry_num <= 2
  /\ Changes(RemoveDentry(Recycle(vol, i), ParentOf(vol, p), Last(p)))

p6fs_unlink(p) ==
  LET i == FileOf(vol, p)
      v == [RemoveDentry(vol, ParentOf(vol, p), Last(p)) EXCEPT !.mem.inode[i].links = @ - 1]
  IN /\ p \in Present /\ TypeAt(p) # "DIRECTORY"
     /\ Changes(WriteInodeTable(IF v.mem.inode[i].links = 0 THEN Recycle(v, i) ELSE v))

\* Faulty: the link is not counted.
LinksUncounted(p, q) ==
  LET i == FileOf(vol, p) IN
  /\ p \in Present /\ TypeAt(p) # "DIRECTORY"
  /\ q \in Absent /\ FitsDirectory(q)
  /\ Changes(AddDentry(vol, ParentOf(vol, q), Last(q), i))

p6fs_link(p, q) ==
  LET i == FileOf(vol, p)
      v == AddDentry(vol, ParentOf(vol, q), Last(q), i)
  IN /\ p \in Present /\ TypeAt(p) # "DIRECTORY"
     /\ q \in Absent /\ FitsDirectory(q)
     /\ Changes(WriteInodeTable([v EXCEPT !.mem.inode[i].links = @ + 1]))

\* no table is written after the block of the link is taken
p6fs_symlink(p, q) ==
  LET d == ParentOf(vol, q)
      v == AddFile(vol, d, Last(q), "SOFT_LINK")
      i == FreeInode(vol)
      n == v.mem.inode[i]
      w == [TakeBlock(v) EXCEPT !.mem.inode[i] =
              [n EXCEPT !.direct_block[1] = FreeBlock(v), !.file_size = 1, !.blocks_number = 1]]
  IN /\ p \in Present
     /\ q \in Absent /\ FitsDirectory(q)
     /\ Changes(IF ~FileAdded(vol, d) \/ FreeBlock(v) = -1 THEN v
                ELSE WriteFile(w, i, <<Last(p)>>))

\* the kernel refuses to move a directory below itself
p6fs_rename(p, q) ==
  LET v == RemoveDentry(vol, ParentOf(vol, p), Last(p)) IN
  /\ p \in Present /\ q \in Absent /\ FitsDirectory(q)
  /\ ~IsPrefix(p, q)
  /\ Changes(AddDentry(v, ParentOf(vol, q), Last(q), FileOf(vol, p)))

p6fs_write(p, offset, size, x) ==
  LET i == FileOf(vol, p)
      grown == IF offset + size > vol.mem.inode[i].file_size
                 THEN Increase(vol, i, offset + size) ELSE {<<TRUE, vol>>}
      Put(buf) == [k \in DOMAIN buf |-> IF k \in offset + 1..offset + size THEN x ELSE buf[k]]
      Written(v) == WriteInodeTable(
        [WriteFile(v, i, Put(ReadFile(v, i))) EXCEPT
           !.mem.inode[i].file_size = Max({@, offset + size})])
  IN /\ p \in Present /\ TypeAt(p) = "NORMAL_FILE" /\ offset + size <= MaxUnits
     /\ \E r \in grown : Changes(IF r[1] THEN Written(r[2]) ELSE r[2])

p6fs_truncate(p, size) ==
  LET i == FileOf(vol, p)
      n == vol.mem.inode[i]
  IN /\ p \in Present /\ TypeAt(p) = "NORMAL_FILE" /\ size <= MaxUnits
     /\ \/ size > n.file_size /\ \E r \in Increase(vol, i, size) : Changes(r[2])
        \/ size < n.file_size /\ MayShrink(n.file_size, size)
           /\ Changes(Decrease(vol, i, size))

\* p6fs_read() and p6fs_chmod() set a time or a mode and save the inodes
p6fs_chmod(p) ==
  p \in Present /\ Changes(WriteInodeTable(vol))

p6fs_open(p) ==
  LET fi == ApplyAvailableBit(file_info_table, 0..MAX_OPEN_FILE - 1) IN
  /\ p \in Present /\ fi # -1
  /\ file_info_table' = file_info_table \cup {fi}
  /\ UNCHANGED vol

p6fs_release(p) ==
  \E fi \in file_info_table :
    /\ p \in Present
    /\ file_info_table' = file_info_table \ {fi}
    /\ UNCHANGED vol

\* p6fs_destroy() saves no table: what is not on disk yet is lost
Remount ==
  /\ "symlinks_saved" \in Rules =>
       \A i \in Inodes : vol.mem.inode[i].file_type = "SOFT_LINK" =>
         /\ vol.disk.inode[i] = vol.mem.inode[i]
         /\ vol.mem.datablock_bitmap \subseteq vol.disk.datablock_bitmap
  /\ vol' = [vol EXCEPT !.mem = vol.disk]
  /\ file_info_table' = {}

FsNext ==
  \/ \E p \in Paths :
       \/ p6fs_mknod(p) \/ p6fs_mkdir(p) \/ p6fs_rmdir(p) \/ p6fs_unlink(p)
       \/ p6fs_chmod(p) \/ p6fs_open(p) \/ p6fs_release(p)
       \/ \E q \in Paths : p6fs_link(p, q) \/ p6fs_symlink(p, q) \/ p6fs_rename(p, q)
       \/ \E e \in Extents, x \in Data \ {Zero} : p6fs_write(p, e[1], e[2], x)
       \/ \E size \in Sizes : p6fs_truncate(p, size)
  \/ Remount

FsSpec == FsInit /\ [][FsNext]_fsVars

-----------------------------------------------------------------------------
Files == {i \in vol.mem.inode_bitmap : vol.mem.inode[i].links > 0}

\* the blocks that hold the data and the indexes of file i
BlocksOf(i) ==
  ToSet(DatablockIndex(vol, i)) \cup
  (IF vol.mem.inode[i].blocks_number > DIRECT_DATA_BLOCKS_NUM
     THEN {vol.mem.inode[i].indirect_block, SecondIndirect(vol, i, 0)} ELSE {})

Dentries == UNION {{<<d, e[1], e[2]>> : e \in ToSet(SubSeq(Directory(vol, d), 3, vol.mem.inode[d].dentry_num))} :
                     d \in {i \in Files : IsDir(i)}}

(***************************************************************************)
(* No block serves two purposes, and each that serves one is marked: what  *)
(* file_increase_block_num(), file_decrease_block_num() and                *)
(* recycle_inode_and_space() must leave whatever fails between.            *)
(***************************************************************************)
BlocksOwnedOnce ==
  /\ \A i, j \in Files : i # j => BlocksOf(i) \cap BlocksOf(j) = {}
  /\ \A i \in Files : BlocksOf(i) \subseteq vol.mem.datablock_bitmap

\* the link count that decides when unlink() recycles is the number of names
LinksAreNames ==
  \A i \in Files \ {Root} :
    vol.mem.inode[i].links = Cardinality({e \in Dentries : e[3] = i})

\* what a user sees
Tree == INSTANCE FileTree WITH
  Objects <- Inodes, MaxSize <- MaxUnits,
  entries <- Dentries,
  kind    <- [i \in Inodes |-> IF i \in Files THEN vol.mem.inode[i].file_type ELSE "NONE"],
  content <- [i \in Inodes |->
                IF i \in Files /\ ~IsDir(i)
                  THEN SubSeq(ReadFile(vol, i), 1, vol.mem.inode[i].file_size) ELSE <<>>]

(***************************************************************************)
(* Every operation, and every remount, is one step of the tree of names or *)
(* changes nothing of it.                                                  *)
(***************************************************************************)
IsFileTree == Tree!TreeSpec
=============================================================================
