--------------------------- MODULE SimplefsNamespace ---------------------------
(***************************************************************************)
(* What simplefs promises about the names on the disk: a tree of entries   *)
(* that grows by one complete object at a time, below a directory that is  *)
(* already there, and that never loses or changes an entry.                *)
(***************************************************************************)
EXTENDS Naturals

CONSTANTS
  RootIno,      \* the inode number of the root directory
  Names,        \* file names
  Formatted     \* the entries of a fresh volume

VARIABLE tree   \* the entries: an object `ino' called `name' in directory `dir'

Entry(dir, name, ino, mode) == [dir |-> dir, name |-> name, ino |-> ino, mode |-> mode]

Directories == {RootIno} \cup {e.ino : e \in {e \in tree : e.mode = "dir"}}

Create(dir, name, ino, mode) ==
  /\ dir \in Directories
  /\ \A e \in tree : <<e.dir, e.name>> # <<dir, name>> /\ e.ino # ino
  /\ ino # RootIno
  /\ tree' = tree \cup {Entry(dir, name, ino, mode)}

Init == tree = Formatted

Next ==
  \E e \in tree' \ tree : /\ e.name \in Names /\ e.mode \in {"dir", "reg"}
                          /\ Create(e.dir, e.name, e.ino, e.mode)

Spec == Init /\ [][Next]_tree
===============================================================================
