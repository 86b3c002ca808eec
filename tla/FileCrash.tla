---------------------------- MODULE FileCrash ----------------------------
(***************************************************************************)
(* The file system of P6 when the power may fail while a file grows.       *)
(* file_increase_block_num() has saved the indexes and then saves the      *)
(* inodes and the bitmap of the blocks: the volume is mounted again from   *)
(* what had reached the device.                                            *)
(***************************************************************************)
EXTENDS FileSystem

\* the volumes between the writes of the growth
Interrupted(v, i, size) ==
  LET linked == Linked(v, i, size)
      saved  == WriteInodeTable(linked)
  IN {linked, saved, WriteBlockBitmap(saved)}

CrashInIncrease(p, size) ==
  LET i == FileOf(vol, p) IN
  /\ p \in Present /\ TypeAt(p) = "NORMAL_FILE" /\ size <= MaxUnits
  /\ size > vol.mem.inode[i].blocks_number * UnitsPerBlock
  /\ Cardinality(Blocks \ vol.mem.datablock_bitmap) >= BlocksToTake(vol, i, size)
  /\ \E v \in Interrupted(vol, i, size) : vol' = [v EXCEPT !.mem = v.disk]
  /\ file_info_table' = {}

CrashNext ==
  \/ FsNext
  \/ \E p \in Paths, e \in Extents : CrashInIncrease(p, e[1] + e[2])

CrashSpec == FsInit /\ [][CrashNext]_fsVars

-----------------------------------------------------------------------------
(***************************************************************************)
(* The order a comment gives for the growth is the bitmap, then the        *)
(* inodes: no file on disk has a block that the bitmap on disk calls free. *)
(***************************************************************************)
FilesOnMarkedBlocks ==
  \A i \in Files :
    vol.mem.inode[i].file_type = "NORMAL_FILE" =>
      BlocksOf(i) \subseteq vol.disk.datablock_bitmap
=============================================================================
