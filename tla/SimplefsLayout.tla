---------------------------- MODULE SimplefsLayout ----------------------------
(***************************************************************************)
(* The on-disk format of simplefs (src/simplefs/simple.h), the arithmetic  *)
(* of its free-block map, and the volume that mkfs.c writes.               *)
(*                                                                         *)
(* A block is a row of cells; one cell is one directory record or one unit *)
(* of file data.  A record is <<name, inode_no>>; data is <<"data", tag>> with *)
(* the number of the inode it was written through as its tag, so that data *)
(* that lands in a directory, or in another file, can be told apart.       *)
(***************************************************************************)
EXTENDS Naturals

CONSTANTS
  IntBits,      \* width of a C int: 32 in this build
  MaxObjects,   \* SIMPLEFS_MAX_FILESYSTEM_OBJECTS_SUPPORTED: 64
  BlockCells    \* cells of a block: 16 records

ASSUME LayoutAssumption ==
  /\ IntBits \in Nat /\ 6 < IntBits
  /\ MaxObjects \in Nat /\ 2 < MaxObjects /\ MaxObjects <= 2 * IntBits
  /\ BlockCells \in Nat \ {0}

RootIno == 1
RootBlock == 2
Slots == 0..MaxObjects
Blocks == 2..(MaxObjects - 1)
Cells == 0..(BlockCells - 1)

Zero == <<"nil", 0>>
Data(ino) == <<"data", ino>>

\* i_ino = count + SIMPLEFS_START_INO - SIMPLEFS_RESERVED_INODES + 1
InodeNumber(count) == (count + 10 - 3) + 1

\* `mode', `inode_no', `data_block_number' and the union of file_size and
\* dir_children_count.
Inode(ino, mode, block, n) ==
  [ino |-> ino, mode |-> mode, block |-> block, n |-> n]
NoInode == Inode(0, "none", 0, 0)
InodeType ==
  {i \in [ino : Nat, mode : {"none", "dir", "reg"}, block : Blocks \cup {0}, n : Nat] :
     i.mode # "none" => i.block # 0}

(***************************************************************************)
(* free_blocks, a uint64_t, is the set of its one bits.  The mask 1 << i   *)
(* is computed in an int: the shift count is taken modulo IntBits, and the *)
(* mask of the sign bit is sign-extended when it meets the uint64_t.       *)
(***************************************************************************)
Word == 0..(2 * IntBits - 1)

ShiftMask(i) ==
  LET bit == i % IntBits
  IN  IF bit = IntBits - 1 THEN bit..(2 * IntBits - 1) ELSE {bit}

IsFree(free, i) == free \cap ShiftMask(i) # {}

\* The search loop of simplefs_sb_get_a_freeblock stops at block i.
FirstFree(free, i) ==
  /\ i \in Blocks /\ IsFree(free, i)
  /\ \A j \in 2..(i - 1) : ~IsFree(free, j)

-------------------------------------------------------------------------------
\* The enumerations block_id and inode_id of mkfs.c.
B_DATA1 == 3
B_DATA2 == 4
NR_BLOCK == 5
I_DATA1 == 2
I_DATA2 == 3
NR_INODE == 4

\* (~0) & ~(1 << NR_BLOCK), widened to 64 bits.
MkfsFreeBlocks == Word \ ShiftMask(NR_BLOCK)

\* The state of a volume: super block, inode store and data blocks.  A text of
\* mkfs ("I am Data 1\n") is one cell.
MkfsVolume(free) ==
  [sb |-> [count |-> NR_INODE - 1, free |-> free],
   istore |-> [s \in Slots |->
     CASE s = 0 -> Inode(RootIno, "dir", RootBlock, 2)
       [] s = 1 -> Inode(I_DATA1, "reg", B_DATA1, 1)
       [] s = 2 -> Inode(I_DATA2, "reg", B_DATA2, 1)
       [] OTHER -> NoInode],
   blk |-> [b \in Blocks |-> [c \in Cells |->
     CASE b = RootBlock /\ c = 0 -> <<"Data1", I_DATA1>>
       [] b = RootBlock /\ c = 1 -> <<"Data2", I_DATA2>>
       [] b = B_DATA1 /\ c = 0 -> Data(I_DATA1)
       [] b = B_DATA2 /\ c = 0 -> Data(I_DATA2)
       [] OTHER -> Zero]]]

MkfsImage == MkfsVolume(MkfsFreeBlocks)
===============================================================================
