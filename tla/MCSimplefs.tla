------------------------------ MODULE MCSimplefs ------------------------------
(***************************************************************************)
(* Small instances of Simplefs: on the volume that mkfs.c writes, and on   *)
(* one whose free map has the blocks that mkfs.c fills marked as used.     *)
(***************************************************************************)
EXTENDS Simplefs, TLC

TaskSymmetry == Permutations(Tasks)
NewNames == {"a", "b"}
TwoCells == {<<0, 2>>}

\* The volume after a first `mkdir a', which was given block b.
AfterMkdir(volume, b) ==
  [volume EXCEPT !.sb = [count |-> NR_INODE, free |-> @.free \ ShiftMask(b)],
                 !.istore[0].n = 3,
                 !.istore[3] = Inode(InodeNumber(3), "dir", b, 0),
                 !.blk[RootBlock][2] = <<"a", InodeNumber(3)>>]

\* ... and after two creates of which a crash left the inodes, not the records.
\* With ints of seven bits the next blocks are that of the sign bit, 6, and that
\* of a shift count that wraps, 7.
AfterCutOffCreates(volume) ==
  [volume EXCEPT !.sb = [count |-> NR_INODE + 2, free |-> @.free \ {B_DATA1, B_DATA2}],
                 !.istore[4] = Inode(InodeNumber(4), "reg", B_DATA1, 0),
                 !.istore[5] = Inode(InodeNumber(5), "reg", B_DATA2, 0)]

MkfsNearlyFull == AfterCutOffCreates(AfterMkdir(MkfsImage, RootBlock))
FormattedWithDirectory == AfterMkdir(MkfsVolume(Word \ 0..(NR_BLOCK - 1)), NR_BLOCK)

\* The hypothesis of the crash theorems has instances; mkfs.c's volume is not one.
ASSUME FormattedAssumption == WellFormed(FormattedWithDirectory) /\ ~WellFormed(MkfsImage)
===============================================================================
