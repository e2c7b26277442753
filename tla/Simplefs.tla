------------------------------- MODULE Simplefs -------------------------------
(***************************************************************************)
(* The simplefs file system of src/simplefs/simple.c: tasks that create,   *)
(* make directories, look up and write concurrently, under the module's    *)
(* three mutexes, over the buffer cache and the disk, with crashes.        *)
(*                                                                         *)
(* A lock acquisition and what the code does right after it are one step,  *)
(* and so are the last action under a lock and its release (an acquisition *)
(* commutes to the right, a release to the left).  Everything else that    *)
(* another task, the flusher or a crash could see in between is a step of  *)
(* its own.  pc[t] names the place where task t is about to run.           *)
(***************************************************************************)
EXTENDS SimplefsLayout, Sequences

CONSTANTS
  Tasks,      \* tasks inside a system call on the volume
  NoTask,     \* owner of a free mutex
  Signalled,  \* tasks that may have a signal pending when they must wait
  Names,      \* file names that calls use
  MaxDepth,   \* bound: length of a path
  Ranges,     \* bound: the <<pos, end>> of writes
  Image       \* the volume that is mounted first

ASSUME TaskAssumption == NoTask \notin Tasks /\ Signalled \subseteq Tasks

ASSUME NameAssumption ==
  /\ Names \cap {"nil", "data"} = {} /\ MaxDepth \in Nat
  /\ \A r \in Ranges : r \in Nat \X Nat /\ r[1] <= r[2] /\ r[2] <= BlockCells

NameType == Names \cup {"Data1", "Data2", "nil", "data"}
SuperBlockType == [count : Nat, free : SUBSET Word]
BlocksType == [Blocks -> [Cells -> NameType \X Nat]]

\* The inode numbers of a mounted volume are those of mkfs.c and of creates.
ASSUME ImageAssumption ==
  /\ Image \in [sb : SuperBlockType, istore : [Slots -> InodeType], blk : BlocksType]
  /\ \A s \in Slots :
       IF s < Image.sb.count
       THEN /\ 0 < Image.istore[s].ino /\ Image.istore[s].ino < InodeNumber(Image.sb.count)
            /\ \A r \in Slots : r < s => Image.istore[r].ino # Image.istore[s].ino
       ELSE Image.istore[s] = NoInode

VARIABLES
  dir_lock, mgmt_lock, sb_lock,  \* owners of the three mutexes
  sb, istore, blk,               \* buffer cache: blocks 0, 1 and the others
  dsb, distore, dblk,            \* the same blocks on disk
  icache,                        \* in-memory simplefs_inode of each path
  pc, job,                       \* place and locals of each task
  acked                          \* history: entries whose create returned 0

locks == <<dir_lock, mgmt_lock, sb_lock>>
cache == <<sb, istore, blk>>
disk == <<dsb, distore, dblk>>
vars == <<locks, cache, disk, icache, pc, job, acked>>

Paths == UNION {[1..k -> Names] : k \in 0..MaxDepth}
Root == <<>>

\* `path' is the directory of a create or lookup and the file of a write,
\* `count' a create's object count or a lookup's inode number, `block' the
\* allocated block, `end' the offset where a write stops.
Job(path, name, mode, end) ==
  [path |-> path, name |-> name, mode |-> mode, end |-> end, count |-> 0, block |-> 0]
NoJob == Job(Root, "nil", "none", 0)
JobType == [path : Paths, name : NameType, mode : {"none", "dir", "reg"},
            end : Nat, count : Nat, block : Blocks \cup {0}]
Places == {"idle", "c_dir", "c_count", "c_counting", "c_new", "c_free", "c_alloc",
           "a_mgmt", "a_sb", "a_store", "a_sync", "c_record", "c_mgmt", "c_save", "c_saving",
           "w_mgmt", "w_save", "w_saving", "iget", "oops"}

\* simplefs_get_inode: copies of the inode in the first slot with number ino.
get_inode(count, store, ino) ==
  {store[s] : s \in {s \in Slots :
     /\ s < count /\ store[s].ino = ino
     /\ \A r \in Slots : r < s => store[r].ino # ino}}

\* simplefs_inode_search also looks at the slot after the last one.
inode_search(ino) ==
  {s \in Slots : /\ s <= sb.count /\ istore[s].ino = ino
                 /\ \A r \in Slots : r < s => istore[r].ino # ino}

\* The record that the loop of simplefs_lookup stops at.
records(dir, name) ==
  {c \in Cells : /\ c < dir.n /\ blk[dir.block][c][1] = name
                 /\ \A e \in Cells : e < c => blk[dir.block][e][1] # name}

\* The super block's root, alone in the inode cache (simplefs_fill_super).
OnlyRoot(count, store) ==
  {[p \in Paths |-> IF p = Root THEN i ELSE NoInode] : i \in get_inode(count, store, RootIno)}

fill_super(image) ==
  /\ dir_lock = NoTask /\ mgmt_lock = NoTask /\ sb_lock = NoTask
  /\ sb = image.sb /\ istore = image.istore /\ blk = image.blk
  /\ icache \in OnlyRoot(sb.count, istore)
  /\ pc = [t \in Tasks |-> "idle"]
  /\ job = [t \in Tasks |-> NoJob]

Init ==
  /\ fill_super(Image)
  /\ dsb = sb /\ distore = istore /\ dblk = blk
  /\ acked = {}

-------------------------------------------------------------------------------
Goto(t, place) == pc' = [pc EXCEPT ![t] = place]
Return(t) == Goto(t, "idle") /\ job' = [job EXCEPT ![t] = NoJob]

\* mutex_lock_interruptible takes a free mutex at once; only a task that has to
\* wait can see its pending signal, and then fails with -EINTR.
Takes(t, lock) == lock = NoTask /\ lock' = t
Interrupted(t, lock) == lock # NoTask /\ t \in Signalled

\* The VFS holds the directory's i_rwsem for create and mkdir, and shares it
\* among lookups of distinct names.
Creating(d) == \E t \in Tasks : pc[t] \notin {"idle", "iget", "oops"}
                                /\ job[t].mode \in {"dir", "reg"} /\ job[t].path = d
LookingUp(d, names) == \E t \in Tasks : pc[t] \in {"iget", "oops"}
                                        /\ job[t].path = d /\ job[t].name \in names

(***************************************************************************)
(* simplefs_create, simplefs_mkdir -> simplefs_create_fs_object.           *)
(* The VFS calls them for a name that simplefs_lookup does not find.       *)
(* Bound: a directory has at most BlockCells children.                     *)
(***************************************************************************)
create(t, d, name, mode) ==
  /\ pc[t] = "idle" /\ icache[d].mode = "dir"
  /\ Append(d, name) \in Paths /\ icache[Append(d, name)] = NoInode
  /\ records(icache[d], name) = {} /\ icache[d].n < BlockCells
  /\ ~Creating(d) /\ ~LookingUp(d, Names)
  /\ Goto(t, "c_dir")
  /\ job' = [job EXCEPT ![t] = Job(d, name, mode, 0)]
  /\ UNCHANGED <<locks, cache, disk, icache, acked>>

\* Mutant: the directory mutex is not taken.
create_lock_unlocked(t) ==
  /\ pc[t] = "c_dir" /\ Goto(t, "c_count")
  /\ UNCHANGED <<locks, cache, disk, icache, job, acked>>

create_lock(t) ==
  /\ pc[t] = "c_dir"
  /\ \/ Takes(t, dir_lock) /\ Goto(t, "c_count") /\ UNCHANGED job
     \/ Interrupted(t, dir_lock) /\ Return(t) /\ UNCHANGED dir_lock
  /\ UNCHANGED <<mgmt_lock, sb_lock, cache, disk, icache, acked>>

get_objects_count_lock(t) ==
  /\ pc[t] = "c_count"
  /\ \/ Takes(t, mgmt_lock) /\ Goto(t, "c_counting") /\ UNCHANGED <<dir_lock, job>>
     \/ Interrupted(t, mgmt_lock) /\ dir_lock' = NoTask /\ Return(t) /\ UNCHANGED mgmt_lock
  /\ UNCHANGED <<sb_lock, cache, disk, icache, acked>>

get_objects_count(t) ==
  /\ pc[t] = "c_counting"
  /\ job' = [job EXCEPT ![t].count = sb.count]
  /\ mgmt_lock' = NoTask
  /\ Goto(t, "c_new")
  /\ UNCHANGED <<dir_lock, sb_lock, cache, disk, icache, acked>>

\* Mutant: an error return that forgets the directory mutex.
new_inode_keeps_lock(t) ==
  /\ pc[t] = "c_new"
  /\ \/ job[t].count < MaxObjects /\ Goto(t, "c_free") /\ UNCHANGED job
     \/ Return(t)
  /\ UNCHANGED <<locks, cache, disk, icache, acked>>

\* -ENOSPC at the limit, -ENOMEM at any time.
new_inode(t) ==
  /\ pc[t] = "c_new"
  /\ \/ job[t].count < MaxObjects /\ Goto(t, "c_free") /\ UNCHANGED <<dir_lock, job>>
     \/ dir_lock' = NoTask /\ Return(t)
  /\ UNCHANGED <<mgmt_lock, sb_lock, cache, disk, icache, acked>>

\* The interrupted path leaves through `end', which unlocks the mutex that some
\* other task holds.
get_a_freeblock_lock(t) ==
  /\ pc[t] = "c_free"
  /\ \/ Takes(t, sb_lock) /\ Goto(t, "c_alloc") /\ UNCHANGED <<dir_lock, job>>
     \/ Interrupted(t, sb_lock) /\ sb_lock' = NoTask /\ dir_lock' = NoTask /\ Return(t)
  /\ UNCHANGED <<mgmt_lock, cache, disk, icache, acked>>

\* Mutants: the bit stays set; the bit below is set; no test for -ENOSPC.
get_a_freeblock_with(t, i, free) ==
  /\ pc[t] = "c_alloc"
  /\ sb_lock' = NoTask
  /\ job' = [job EXCEPT ![t].block = i]
  /\ sb' = [sb EXCEPT !.free = free]
  /\ dsb' = sb' /\ Goto(t, "a_mgmt")
  /\ UNCHANGED <<dir_lock, mgmt_lock, istore, blk, distore, dblk, icache, acked>>
get_a_freeblock_uncleared(t) ==
  \E i \in Blocks : FirstFree(sb.free, i) /\ get_a_freeblock_with(t, i, sb.free)
get_a_freeblock_flipped(t) ==
  \E i \in Blocks : FirstFree(sb.free, i) /\
    get_a_freeblock_with(t, i, (sb.free \ ShiftMask(i)) \cup ShiftMask(i - 1))

get_a_freeblock(t) ==
  /\ pc[t] = "c_alloc"
  /\ sb_lock' = NoTask
  /\ \/ \E i \in Blocks :
          /\ FirstFree(sb.free, i)
          /\ job' = [job EXCEPT ![t].block = i]
          /\ sb' = [sb EXCEPT !.free = @ \ ShiftMask(i)]
          /\ dsb' = sb'                                    \* simplefs_sb_sync
          /\ Goto(t, "a_mgmt") /\ UNCHANGED dir_lock
     \/ /\ \A i \in Blocks : ~IsFree(sb.free, i)           \* -ENOSPC
        /\ dir_lock' = NoTask /\ Return(t) /\ UNCHANGED <<sb, dsb>>
  /\ UNCHANGED <<mgmt_lock, istore, blk, distore, dblk, icache, acked>>

(***************************************************************************)
(* simplefs_inode_add.  Its interrupted paths return void: the create goes *)
(* on as if the inode had been stored, and the second one would keep       *)
(* mgmt_lock.  The inode store is only marked dirty.                       *)
(***************************************************************************)
inode_add_lock(t) ==
  /\ pc[t] = "a_mgmt"
  /\ \/ Takes(t, mgmt_lock) /\ Goto(t, "a_sb")
     \/ Interrupted(t, mgmt_lock) /\ Goto(t, "c_record") /\ UNCHANGED mgmt_lock
  /\ UNCHANGED <<dir_lock, sb_lock, cache, disk, icache, job, acked>>

inode_add_lock_sb(t) ==
  /\ pc[t] = "a_sb"
  /\ \/ Takes(t, sb_lock) /\ Goto(t, "a_store")
     \/ Interrupted(t, sb_lock) /\ Goto(t, "c_record") /\ UNCHANGED sb_lock
  /\ UNCHANGED <<dir_lock, mgmt_lock, cache, disk, icache, job, acked>>

NewInode(j) == Inode(InodeNumber(j.count), j.mode, j.block, 0)

\* Mutant: inodes_count is not advanced.
inode_add_uncounted(t) ==
  /\ pc[t] = "a_store"
  /\ istore' = [istore EXCEPT ![sb.count] = NewInode(job[t])]
  /\ Goto(t, "a_sync")
  /\ UNCHANGED <<locks, sb, blk, disk, icache, job, acked>>

inode_add(t) ==
  /\ pc[t] = "a_store"
  /\ istore' = [istore EXCEPT ![sb.count] = NewInode(job[t])]
  /\ sb' = [sb EXCEPT !.count = @ + 1]
  /\ Goto(t, "a_sync")
  /\ UNCHANGED <<locks, blk, disk, icache, job, acked>>

\* Mutant: simplefs_sb_sync is left out.
inode_add_unsynced(t) ==
  /\ pc[t] = "a_sync"
  /\ sb_lock' = NoTask /\ mgmt_lock' = NoTask
  /\ Goto(t, "c_record")
  /\ UNCHANGED <<dir_lock, cache, disk, icache, job, acked>>

inode_add_sync(t) ==
  /\ pc[t] = "a_sync"
  /\ dsb' = sb                                             \* simplefs_sb_sync
  /\ sb_lock' = NoTask /\ mgmt_lock' = NoTask
  /\ Goto(t, "c_record")
  /\ UNCHANGED <<dir_lock, cache, distore, dblk, icache, job, acked>>

\* Mutant: the record goes one slot too low.
add_record_low(t) ==
  /\ pc[t] = "c_record"
  /\ LET dir == icache[job[t].path]
         c == IF dir.n = 0 THEN 0 ELSE dir.n - 1
     IN  /\ blk' = [blk EXCEPT ![dir.block][c] = <<job[t].name, InodeNumber(job[t].count)>>]
         /\ dblk' = [dblk EXCEPT ![dir.block] = blk'[dir.block]]
  /\ Goto(t, "c_mgmt")
  /\ UNCHANGED <<locks, sb, istore, dsb, distore, icache, job, acked>>

\* Back in simplefs_create_fs_object: the record goes to the parent's block,
\* which is written through.
add_record(t) ==
  /\ pc[t] = "c_record"
  /\ LET dir == icache[job[t].path]
         record == <<job[t].name, InodeNumber(job[t].count)>>
     IN  /\ blk' = [blk EXCEPT ![dir.block][dir.n] = record]
         /\ dblk' = [dblk EXCEPT ![dir.block] = blk'[dir.block]]
  /\ Goto(t, "c_mgmt")
  /\ UNCHANGED <<locks, sb, istore, dsb, distore, icache, job, acked>>

count_child(t) ==
  /\ pc[t] = "c_mgmt"
  /\ \/ /\ Takes(t, mgmt_lock)
        /\ icache' = [icache EXCEPT ![job[t].path].n = @ + 1]
        /\ Goto(t, "c_save") /\ UNCHANGED <<dir_lock, job>>
     \/ /\ Interrupted(t, mgmt_lock)
        /\ dir_lock' = NoTask /\ Return(t) /\ UNCHANGED <<mgmt_lock, icache>>
  /\ UNCHANGED <<sb_lock, cache, disk, acked>>

\* dir_lock is the creator's to release; a writer leaves it alone.
ReleaseDir(creator) == dir_lock' = IF creator THEN NoTask ELSE dir_lock

\* Mutant: an interrupted save forgets mgmt_lock.
inode_save_lock_leak(t) ==
  /\ pc[t] \in {"c_save", "w_save"}
  /\ \/ /\ Takes(t, sb_lock)
        /\ Goto(t, IF pc[t] = "c_save" THEN "c_saving" ELSE "w_saving")
        /\ UNCHANGED <<dir_lock, job>>
     \/ /\ Interrupted(t, sb_lock) /\ ReleaseDir(pc[t] = "c_save")
        /\ Return(t) /\ UNCHANGED sb_lock
  /\ UNCHANGED <<mgmt_lock, cache, disk, icache, acked>>

inode_save_lock(t) ==
  /\ pc[t] \in {"c_save", "w_save"}
  /\ \/ /\ Takes(t, sb_lock)
        /\ Goto(t, IF pc[t] = "c_save" THEN "c_saving" ELSE "w_saving")
        /\ UNCHANGED <<dir_lock, mgmt_lock, job>>
     \/ /\ Interrupted(t, sb_lock)
        /\ mgmt_lock' = NoTask /\ ReleaseDir(pc[t] = "c_save")
        /\ Return(t) /\ UNCHANGED sb_lock
  /\ UNCHANGED <<cache, disk, icache, acked>>

\* The entry that a create has promised when it returns 0.
Acknowledged(j) == [dir |-> icache[j.path].ino, name |-> j.name,
                    ino |-> InodeNumber(j.count), mode |-> j.mode]

\* Mutants: the store is changed but not written; nothing is stored.
inode_save_with(t, store, written) ==
  /\ pc[t] \in {"c_saving", "w_saving"}
  /\ istore' = store /\ distore' = written
  /\ IF pc[t] = "c_saving"
     THEN /\ icache' = [icache EXCEPT ![Append(job[t].path, job[t].name)] = NewInode(job[t])]
          /\ acked' = acked \cup {Acknowledged(job[t])}
     ELSE UNCHANGED <<icache, acked>>
  /\ sb_lock' = NoTask /\ mgmt_lock' = NoTask /\ ReleaseDir(pc[t] = "c_saving")
  /\ Return(t)
  /\ UNCHANGED <<sb, blk, dsb, dblk>>
inode_save_unsynced(t) ==
  \E s \in inode_search(icache[job[t].path].ino) :
    inode_save_with(t, [istore EXCEPT ![s] = icache[job[t].path]], distore)
inode_save_nothing(t) == inode_save_with(t, istore, distore)

\* Success ends a create with d_add and 0, a write with its length; an inode
\* that the store does not hold ends both with -EIO.
inode_save(t) ==
  /\ pc[t] \in {"c_saving", "w_saving"}
  /\ LET path == job[t].path
         child == Append(path, job[t].name)
         slots == inode_search(icache[path].ino)
     IN  \/ /\ \E s \in slots : istore' = [istore EXCEPT ![s] = icache[path]]
            /\ distore' = istore'
            /\ IF pc[t] = "c_saving"
               THEN /\ icache' = [icache EXCEPT ![child] = NewInode(job[t])]
                    /\ acked' = acked \cup {Acknowledged(job[t])}
               ELSE UNCHANGED <<icache, acked>>
         \/ slots = {} /\ UNCHANGED <<istore, distore, icache, acked>>
  /\ sb_lock' = NoTask /\ mgmt_lock' = NoTask /\ ReleaseDir(pc[t] = "c_saving")
  /\ Return(t)
  /\ UNCHANGED <<sb, blk, dsb, dblk>>

(***************************************************************************)
(* simplefs_write of cells pos to end - 1.  A fault in copy_from_user      *)
(* leaves a prefix in the buffer, which stays clean.                       *)
(* Bound: the write ends within the block.                                 *)
(***************************************************************************)
write(t, p, pos, end) ==
  /\ pc[t] = "idle" /\ icache[p].mode = "reg"
  /\ LET b == icache[p].block
         Copied(upto) == [blk EXCEPT ![b] = [c \in Cells |->
                            IF pos <= c /\ c < upto THEN Data(icache[p].ino) ELSE @[c]]]
     IN  \/ /\ blk' = Copied(end)
            /\ dblk' = [dblk EXCEPT ![b] = blk'[b]]
            /\ Goto(t, "w_mgmt")
            /\ job' = [job EXCEPT ![t] = Job(p, "nil", "none", end)]
         \/ /\ \E upto \in pos..(end - 1) : blk' = Copied(upto)
            /\ UNCHANGED <<dblk, pc, job>>                 \* -EFAULT
  /\ UNCHANGED <<locks, sb, istore, dsb, distore, icache, acked>>

write_lock(t) ==
  /\ pc[t] = "w_mgmt"
  /\ \/ /\ Takes(t, mgmt_lock)
        /\ icache' = [icache EXCEPT ![job[t].path].n = job[t].end]
        /\ Goto(t, "w_save") /\ UNCHANGED job
     \/ Interrupted(t, mgmt_lock) /\ Return(t) /\ UNCHANGED <<mgmt_lock, icache>>
  /\ UNCHANGED <<dir_lock, sb_lock, cache, disk, acked>>

(***************************************************************************)
(* simplefs_lookup of a name that is there, and simplefs_iget, which uses  *)
(* the result of simplefs_get_inode without a test for NULL.               *)
(***************************************************************************)
lookup(t, d, name) ==
  /\ pc[t] = "idle" /\ icache[d].mode = "dir"
  /\ Append(d, name) \in Paths /\ icache[Append(d, name)] = NoInode
  /\ ~Creating(d) /\ ~LookingUp(d, {name})
  /\ \E c \in records(icache[d], name) :
       job' = [job EXCEPT ![t] = [Job(d, name, "none", 0) EXCEPT
                                    !.count = blk[icache[d].block][c][2]]]
  /\ Goto(t, "iget")
  /\ UNCHANGED <<locks, cache, disk, icache, acked>>

iget(t) ==
  /\ pc[t] = "iget"
  /\ LET found == get_inode(sb.count, istore, job[t].count)
     IN  \/ /\ \E i \in found :
                 icache' = [icache EXCEPT ![Append(job[t].path, job[t].name)] = i]
            /\ Return(t)
         \/ found = {} /\ Goto(t, "oops") /\ UNCHANGED <<icache, job>>
  /\ UNCHANGED <<locks, cache, disk, acked>>

\* The dentry cache drops an unused inode (simplefs_destory_inode).
InUse(p) == \/ \E n \in Names : Append(p, n) \in Paths /\ icache[Append(p, n)] # NoInode
            \/ \E t \in Tasks : pc[t] # "idle" /\ job[t].path = p
destroy_inode(p) ==
  /\ p # Root /\ icache[p] # NoInode /\ ~InUse(p)
  /\ icache' = [icache EXCEPT ![p] = NoInode]
  /\ UNCHANGED <<locks, cache, disk, pc, job, acked>>

-------------------------------------------------------------------------------
(***************************************************************************)
(* The kernel around the module: the flusher writes the dirty inode store, *)
(* memory pressure drops a clean data buffer, the machine crashes, and the *)
(* volume is unmounted and mounted again.                                  *)
(***************************************************************************)
writeback ==
  /\ distore # istore /\ distore' = istore
  /\ UNCHANGED <<locks, cache, dsb, dblk, icache, pc, job, acked>>

reclaim(b) ==
  /\ blk[b] # dblk[b] /\ blk' = [blk EXCEPT ![b] = dblk[b]]
  /\ UNCHANGED <<locks, sb, istore, disk, icache, pc, job, acked>>

mount ==
  /\ sb' = dsb' /\ istore' = distore' /\ blk' = dblk'
  /\ icache' \in OnlyRoot(sb'.count, istore')
  /\ pc' = [t \in Tasks |-> "idle"]
  /\ job' = [t \in Tasks |-> NoJob]
  /\ UNCHANGED acked

crash ==
  /\ dir_lock' = NoTask /\ mgmt_lock' = NoTask /\ sb_lock' = NoTask
  /\ UNCHANGED disk /\ mount

kill_superblock ==
  /\ \A t \in Tasks : pc[t] = "idle"
  /\ dsb' = sb /\ distore' = istore /\ UNCHANGED <<dblk, locks>>
  /\ mount


Step(t) ==
  \/ create_lock(t) \/ get_objects_count_lock(t) \/ get_objects_count(t) \/ new_inode(t)
  \/ get_a_freeblock_lock(t) \/ get_a_freeblock(t)
  \/ inode_add_lock(t) \/ inode_add_lock_sb(t) \/ inode_add(t) \/ inode_add_sync(t)
  \/ add_record(t) \/ count_child(t) \/ inode_save_lock(t) \/ inode_save(t)
  \/ write_lock(t) \/ iget(t)

Call(t) ==
  \/ \E d \in Paths, name \in Names :
       lookup(t, d, name) \/ \E mode \in {"dir", "reg"} : create(t, d, name, mode)
  \/ \E p \in Paths, r \in Ranges : write(t, p, r[1], r[2])

Kernel == writeback \/ \E b \in Blocks : reclaim(b) \/ \E p \in Paths : destroy_inode(p)

Running == (\E t \in Tasks : Step(t) \/ Call(t)) \/ Kernel \/ kill_superblock

Next == Running \/ crash

Spec == Init /\ [][Next]_vars

\* No crash, and a task that can run, or can take the mutex it waits for again and
\* again, does: the scheduler is fair and a kernel mutex is handed to its waiters.
FairSpec == Init /\ [][Running]_vars /\ \A t \in Tasks : SF_vars(Step(t))

-------------------------------------------------------------------------------
TypeOK ==
  /\ {dir_lock, mgmt_lock, sb_lock} \subseteq Tasks \cup {NoTask}
  /\ {sb, dsb} \subseteq SuperBlockType
  /\ {istore, distore} \subseteq [Slots -> InodeType]
  /\ {blk, dblk} \subseteq BlocksType
  /\ icache \in [Paths -> InodeType]
  /\ pc \in [Tasks -> Places]
  /\ job \in [Tasks -> JobType]
  /\ acked \subseteq [dir : Nat, name : NameType, ino : Nat, mode : {"dir", "reg"}]

\* A task that is out of the module holds none of its mutexes, whichever of its
\* waits were interrupted: the early return of simplefs_inode_add between its two
\* locks and the unlock of a mutex not held in simplefs_sb_get_a_freeblock leak
\* nothing.
NoLockLeak ==
  \A t \in Tasks : pc[t] = "idle" => t \notin {dir_lock, mgmt_lock, sb_lock}

Live(count) == {s \in Slots : s < count}

\* A volume on which every inode has a block of its own that the free map does not
\* offer, files hold their own data, and every record names one inode that is there,
\* once.  The volume of mkfs.c is not one, because of its free map: see
\* OneInodePerBlock.
Listed(v, s, c) == v.istore[s].mode = "dir" /\ c < v.istore[s].n
RecordAt(v, s, c) == v.blk[v.istore[s].block][c]

WellFormed(v) ==
  /\ \A s \in Live(v.sb.count) : LET i == v.istore[s] IN
       /\ i.mode # "none" /\ ~IsFree(v.sb.free, i.block)
       /\ \A r \in Live(v.sb.count) : v.istore[r].block = i.block => r = s
       /\ i.mode = "reg" => \A c \in Cells : v.blk[i.block][c] \in {Zero, Data(i.ino)}
       /\ i.mode = "dir" => i.n <= BlockCells
  /\ \A b \in Blocks : IsFree(v.sb.free, b) => \A c \in Cells : v.blk[b][c] = Zero
  /\ \A s \in Live(v.sb.count), c \in Cells : Listed(v, s, c) =>
       /\ RecordAt(v, s, c)[1] \notin {"nil", "data"} /\ RecordAt(v, s, c)[2] # RootIno
       /\ \E u \in Live(v.sb.count) : v.istore[u].ino = RecordAt(v, s, c)[2]
       /\ \A r \in Live(v.sb.count), e \in Cells :
            /\ Listed(v, r, e)
            /\ \/ RecordAt(v, r, e)[2] = RecordAt(v, s, c)[2]
               \/ r = s /\ RecordAt(v, r, e)[1] = RecordAt(v, s, c)[1]
            => r = s /\ e = c

\* No two inodes of the store have the same number, although the number comes
\* from a count that simplefs_sb_get_objects_count read under a lock that is
\* released long before simplefs_inode_add stores the inode.
DistinctInodes ==
  \A r, s \in Live(sb.count) : r # s /\ istore[r].ino = istore[s].ino => istore[r].ino = 0

\* The block of an inode created since the volume was formatted belongs to no
\* other created inode and is no longer marked free, signals and crashes included.
BlocksOwned ==
  \A r \in Live(sb.count) : r >= Image.sb.count /\ istore[r].ino # 0 =>
    /\ ~IsFree(sb.free, istore[r].block)
    /\ \A s \in Live(sb.count) : s # r /\ s >= Image.sb.count /\ istore[s].ino # 0 =>
         istore[s].block # istore[r].block

\* The following, up to NamespaceRefined, hold when no wait is interrupted.
\* No lookup meets a record whose inode is missing from the store: simplefs_iget
\* dereferences what simplefs_get_inode returned.
NoOops == \A t \in Tasks : pc[t] # "oops"

\* Between operations, the in-memory inode of a path is the one in the store, so
\* dropping it from memory (simplefs_destory_inode) forgets nothing.
CacheCoherent ==
  \A p \in Paths : icache[p] # NoInode /\ (\A t \in Tasks : pc[t] # "idle" => job[t].path # p)
    => icache[p] \in get_inode(sb.count, istore, icache[p].ino)

\* A view of the volume: through the buffers, or what a crash would leave.
Cached == [sb |-> sb, istore |-> istore, blk |-> blk]
OnDisk == [sb |-> dsb, istore |-> distore, blk |-> dblk]

\* simplefs_read: whatever the position below the file's size is, the copy starts
\* at the first cell of the block.
simplefs_read(v, i, pos, len) ==
  {v.blk[i.block][c] : c \in {c \in Cells : pos < i.n /\ c < i.n /\ c < len}}

\* simplefs_iterate from position 0: the records a listing emits.
simplefs_iterate(v, dir) ==
  {v.blk[dir.block][c] : c \in {c \in Cells : dir.mode = "dir" /\ c < dir.n}}

\* No read, from any position and of any length, returns what was written through
\* another file, and a listing emits nothing but records; after a crash neither.
BlocksIsolated ==
  \A v \in {Cached, OnDisk} : \A s \in Live(v.sb.count) : LET i == v.istore[s] IN
    /\ i.mode = "reg" => \A pos \in Cells, len \in 0..BlockCells :
         simplefs_read(v, i, pos, len) \subseteq {Zero, Data(i.ino)}
    /\ \A r \in simplefs_iterate(v, i) : r[1] \notin {"nil", "data"}

(***************************************************************************)
(* The entries of a volume: what listings and lookups find together.       *)
(***************************************************************************)
EntriesOf(v, dir) ==
  UNION {{[dir |-> dir.ino, name |-> r[1], ino |-> i.ino, mode |-> i.mode]
           : i \in get_inode(v.sb.count, v.istore, r[2])}
         : r \in simplefs_iterate(v, dir)}

TreeOf(v) == UNION {EntriesOf(v, v.istore[s]) : s \in Live(v.sb.count)}
DiskTree == TreeOf(OnDisk)

\* A create or mkdir that returned 0 survives every crash: the object is found
\* on the disk, in its directory, under its name and with its inode number.
AckedDurable == acked \subseteq DiskTree

\* Every name visible in a directory on the disk leads to an inode on the disk
\* whose block is not marked free there, whenever the machine stops between two
\* of the writes of simplefs_create_fs_object.
DiskConsistent ==
  \A s \in Live(dsb.count) : \A r \in simplefs_iterate(OnDisk, distore[s]) :
    \E i \in get_inode(dsb.count, distore, r[2]) : i.mode # "none" /\ ~IsFree(dsb.free, i.block)

Namespace == INSTANCE SimplefsNamespace WITH
  tree <- DiskTree,
  Formatted <- TreeOf(Image)

\* The tree of names on the disk grows by whole objects, atomically, through all
\* interleavings and crashes.
NamespaceRefined == Namespace!Spec

\* The super block on the disk never forgets an object or an allocation, not even
\* across a crash: simplefs_sb_sync follows every change of it.
SuperBlockMonotone ==
  [][dsb'.count >= dsb.count /\ dsb'.free \subseteq dsb.free]_vars

\* Every system call returns: no interleaving of creates, writes and lookups
\* leaves a task waiting for a mutex for ever.
CallsReturn == \A t \in Tasks : pc[t] # "idle" ~> pc[t] = "idle"

\* mkfs.c calls block B_ROOT the "root block" and gives Data1 and Data2 a block
\* each: no two inodes of the volume share a data block.
OneInodePerBlock ==
  \A r, s \in Live(sb.count) : r # s => istore[r].block # istore[s].block
===============================================================================
