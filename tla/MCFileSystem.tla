-------------------------- MODULE MCFileSystem --------------------------
(* Instances of FileSystem for TLC. *)
EXTENDS FileSystem

CONSTANTS a, b, x0, x1

ShallowPaths == {<<a>>, <<b>>, <<a, b>>}
SomeExtents  == {<<0, 2>>, <<0, 9>>, <<0, 13>>}

(***************************************************************************)
(* The numbers of the blocks are interchangeable: states are explored once *)
(* that agree on the inodes, the contents of the files, which files the    *)
(* bitmap on disk covers, and how many blocks are marked without an owner. *)
(* The invariants are part of it, so that no state that breaks one hides   *)
(* behind a state that does not.                                           *)
(***************************************************************************)
Unplaced(t) ==
  [i \in Inodes |-> [t.inode[i] EXCEPT !.direct_block = 0, !.indirect_block = 0]]
Owned == UNION {BlocksOf(i) : i \in Files}
LiveView ==
  <<Unplaced(vol.mem), Unplaced(vol.disk), vol.mem.inode_bitmap, vol.disk.inode_bitmap,
    [i \in Files |-> ReadFile(vol, i)],
    {i \in Files : BlocksOf(i) \subseteq vol.disk.datablock_bitmap},
    Cardinality(vol.mem.datablock_bitmap \ Owned),
    Cardinality(vol.disk.datablock_bitmap \ Owned), file_info_table,
    BlocksOwnedOnce, LinksAreNames>>
=============================================================================
