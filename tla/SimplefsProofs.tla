---------------------------- MODULE SimplefsProofs ----------------------------
(***************************************************************************)
(* Proofs about Simplefs, for every set of tasks, every choice of tasks    *)
(* that signals may interrupt, every volume and every size.                *)
(***************************************************************************)
EXTENDS Simplefs, TLAPS

(***************************************************************************)
(* Where each mutex is held.  dir_lock and mgmt_lock are held exactly      *)
(* there; sb_lock may have been released by an interrupted                 *)
(* simplefs_sb_get_a_freeblock of another task.                            *)
(***************************************************************************)
CreatePlaces == {"c_dir", "c_count", "c_counting", "c_new", "c_free", "c_alloc", "a_mgmt",
                 "a_sb", "a_store", "a_sync", "c_record", "c_mgmt", "c_save", "c_saving"}
DirPlaces == CreatePlaces \ {"c_dir"}
MgmtPlaces == {"c_counting", "a_sb", "a_store", "a_sync", "c_save", "c_saving",
               "w_save", "w_saving"}
SbPlaces == {"c_alloc", "a_store", "a_sync", "c_saving", "w_saving"}

LockInv ==
  \A t \in Tasks : /\ dir_lock = t <=> pc[t] \in DirPlaces
                   /\ mgmt_lock = t <=> pc[t] \in MgmtPlaces
                   /\ sb_lock = t => pc[t] \in SbPlaces

\* What a create has computed by the time it is at each place.
NumberedPlaces == DirPlaces \ {"c_count", "c_counting"}
AllocatedPlaces == NumberedPlaces \ {"c_new", "c_free", "c_alloc"}

JobInv ==
  \A t \in Tasks : /\ pc[t] \in CreatePlaces => job[t].mode \in {"dir", "reg"}
                   /\ pc[t] \in AllocatedPlaces => job[t].block \in Blocks

-------------------------------------------------------------------------------
LEMMA LockInit == Init => LockInv
BY TaskAssumption DEF Init, fill_super, LockInv, CreatePlaces, DirPlaces, MgmtPlaces, SbPlaces

\* The second wait of simplefs_inode_add cannot be interrupted: it is never a wait.
LEMMA AddFindsSbFree ==
  ASSUME TypeOK, LockInv, NEW t \in Tasks, pc[t] = "a_sb"
  PROVE  sb_lock = NoTask
BY DEF TypeOK, LockInv, CreatePlaces, DirPlaces, MgmtPlaces, SbPlaces

LEMMA LockStep == TypeOK /\ LockInv /\ [Next]_vars => LockInv'
<1> SUFFICES ASSUME TypeOK, LockInv, [Next]_vars PROVE LockInv'
  OBVIOUS
<1> pc \in [Tasks -> Places] /\ job \in [Tasks -> JobType]
  BY DEF TypeOK
<1> USE TaskAssumption
    DEF LockInv, CreatePlaces, DirPlaces, MgmtPlaces, SbPlaces, Goto, Return, Takes,
        Interrupted, locks
<1>1. ASSUME NEW t \in Tasks, Call(t) PROVE LockInv'
  <2>1. ASSUME NEW d \in Paths, NEW name \in Names, lookup(t, d, name) PROVE LockInv'
    BY <2>1 DEF lookup
  <2>2. ASSUME NEW d \in Paths, NEW name \in Names, NEW mode \in {"dir", "reg"},
               create(t, d, name, mode)
        PROVE  LockInv'
    BY <2>2 DEF create
  <2>3. ASSUME NEW p \in Paths, NEW r \in Ranges, write(t, p, r[1], r[2]) PROVE LockInv'
    <3>1. UNCHANGED locks /\ pc[t] = "idle" /\ (UNCHANGED pc \/ pc' = [pc EXCEPT ![t] = "w_mgmt"])
      BY <2>3 DEF write
    <3> QED  BY <3>1
  <2> QED  BY <1>1, <2>1, <2>2, <2>3 DEF Call
<1>2. ASSUME NEW t \in Tasks, Step(t) PROVE LockInv'
  <2>1. CASE create_lock(t)
    BY <2>1 DEF create_lock
  <2>2. CASE get_objects_count_lock(t)
    BY <2>2 DEF get_objects_count_lock
  <2>3. CASE get_objects_count(t)
    BY <2>3 DEF get_objects_count
  <2>4. CASE new_inode(t)
    BY <2>4 DEF new_inode
  <2>5. CASE get_a_freeblock_lock(t)
    BY <2>5 DEF get_a_freeblock_lock
  <2>6. CASE get_a_freeblock(t)
    BY <2>6 DEF get_a_freeblock
  <2>7. CASE inode_add_lock(t)
    BY <2>7 DEF inode_add_lock
  <2>8. CASE inode_add_lock_sb(t)
    BY <2>8, AddFindsSbFree DEF inode_add_lock_sb
  <2>9. CASE inode_add(t)
    BY <2>9 DEF inode_add
  <2>10. CASE inode_add_sync(t)
    BY <2>10 DEF inode_add_sync
  <2>11. CASE add_record(t)
    BY <2>11 DEF add_record
  <2>12. CASE count_child(t)
    BY <2>12 DEF count_child
  <2>13. CASE inode_save_lock(t)
    BY <2>13 DEF inode_save_lock, ReleaseDir
  <2>14. CASE inode_save(t)
    BY <2>14 DEF inode_save, ReleaseDir
  <2>15. CASE write_lock(t)
    BY <2>15 DEF write_lock
  <2>16. CASE iget(t)
    BY <2>16 DEF iget
  <2> QED  BY <1>2, <2>1, <2>2, <2>3, <2>4, <2>5, <2>6, <2>7, <2>8, <2>9, <2>10, <2>11,
              <2>12, <2>13, <2>14, <2>15, <2>16 DEF Step
<1>3. CASE Kernel
  BY <1>3 DEF Kernel, writeback, reclaim, destroy_inode
<1>4. CASE kill_superblock
  BY <1>4 DEF kill_superblock, mount
<1>5. CASE crash
  BY <1>5 DEF crash, mount
<1>6. CASE UNCHANGED vars
  BY <1>6 DEF vars
<1> QED  BY <1>1, <1>2, <1>3, <1>4, <1>5, <1>6 DEF Next, Running

-------------------------------------------------------------------------------
\* The records of the model keep their types under the updates of the code.
LEMMA NoInodeType == NoInode \in InodeType /\ NoInode.ino = 0 /\ NoInode.mode = "none"
BY DEF NoInode, Inode, InodeType

LEMMA RootPath == Root \in Paths
<1>1. 0 \in 0..MaxDepth
  BY NameAssumption
<1>2. Root \in [1..0 -> Names]
  BY DEF Root
<1> QED  BY <1>1, <1>2 DEF Paths

LEMMA JobUpdate ==
  ASSUME NEW j \in JobType
  PROVE  /\ \A c \in Nat : [j EXCEPT !.count = c] \in JobType
         /\ \A b \in Blocks : [j EXCEPT !.block = b] \in JobType
         /\ j.path \in Paths /\ j.name \in NameType /\ j.count \in Nat /\ j.end \in Nat
BY DEF JobType

LEMMA NewJob ==
  ASSUME NEW p \in Paths, NEW name \in NameType, NEW mode \in {"none", "dir", "reg"},
         NEW end \in Nat
  PROVE  Job(p, name, mode, end) \in JobType /\ NoJob \in JobType
BY RootPath DEF Job, NoJob, JobType, NameType

LEMMA InodeUpdate ==
  ASSUME NEW i \in InodeType
  PROVE  /\ \A n \in Nat : [i EXCEPT !.n = n] \in InodeType
         /\ i.n \in Nat /\ i.ino \in Nat
         /\ i.mode # "none" => i.block \in Blocks
BY DEF InodeType

LEMMA NewInodeType ==
  ASSUME NEW j \in JobType, j.mode \in {"dir", "reg"}, j.block \in Blocks
  PROVE  NewInode(j) \in InodeType /\ InodeNumber(j.count) \in Nat
BY LayoutAssumption DEF NewInode, Inode, InodeType, InodeNumber, JobType, Blocks

LEMMA GetInodeType ==
  ASSUME NEW count, NEW store \in [Slots -> InodeType], NEW ino,
         NEW i \in get_inode(count, store, ino)
  PROVE  i \in InodeType /\ i.ino = ino /\ \E s \in Slots : s < count /\ i = store[s]
BY DEF get_inode

LEMMA OnlyRootType ==
  ASSUME NEW count, NEW store \in [Slots -> InodeType], NEW f \in OnlyRoot(count, store)
  PROVE  f \in [Paths -> InodeType]
BY GetInodeType, NoInodeType DEF OnlyRoot

LEMMA TypeInit == Init => TypeOK /\ JobInv
<1> SUFFICES ASSUME Init PROVE TypeOK /\ JobInv
  OBVIOUS
<1> USE DEF Init, fill_super
<1>1. /\ sb \in SuperBlockType /\ dsb \in SuperBlockType
      /\ istore \in [Slots -> InodeType] /\ distore \in [Slots -> InodeType]
      /\ blk \in BlocksType /\ dblk \in BlocksType
  BY ImageAssumption
<1>2. icache \in [Paths -> InodeType]
  BY <1>1, OnlyRootType
<1>3. NoJob \in JobType
  BY RootPath, NewJob DEF NameType, NoJob, Job, JobType
<1> QED  BY <1>1, <1>2, <1>3 DEF TypeOK, JobInv, Places, CreatePlaces, DirPlaces,
            NumberedPlaces, AllocatedPlaces

LEMMA TypeStep == TypeOK /\ JobInv /\ [Next]_vars => TypeOK' /\ JobInv'
<1> SUFFICES ASSUME TypeOK, JobInv, [Next]_vars PROVE TypeOK' /\ JobInv'
  OBVIOUS
<1>0. /\ pc \in [Tasks -> Places] /\ job \in [Tasks -> JobType] /\ NoJob \in JobType
      /\ icache \in [Paths -> InodeType] /\ NoInode \in InodeType
  BY RootPath, NoInodeType DEF TypeOK, NameType, NoJob, Job, JobType
<1> USE <1>0 DEF Goto, Return, Takes, Interrupted, locks, cache, disk, Places,
                 CreatePlaces, DirPlaces, NumberedPlaces, AllocatedPlaces
<1>1. ASSUME NEW t \in Tasks, Call(t) PROVE TypeOK' /\ JobInv'
  <2>1. ASSUME NEW d \in Paths, NEW name \in Names, lookup(t, d, name) PROVE TypeOK' /\ JobInv'
    <3>1. PICK c \in records(icache[d], name) :
            job' = [job EXCEPT ![t] = [Job(d, name, "none", 0) EXCEPT
                                         !.count = blk[icache[d].block][c][2]]]
      BY <2>1, Zenon DEF lookup
    <3>2. icache[d].block \in Blocks /\ c \in Cells
      BY <2>1, InodeUpdate DEF lookup, records
    <3>3. blk[icache[d].block][c][2] \in Nat
      BY <3>2 DEF TypeOK, BlocksType
    <3>4. [Job(d, name, "none", 0) EXCEPT !.count = blk[icache[d].block][c][2]] \in JobType
      BY <3>3, NewJob, JobUpdate, Zenon DEF NameType
    <3>5. job' \in [Tasks -> JobType]
      BY <3>1, <3>4
    <3> QED  BY <2>1, <3>5 DEF lookup, TypeOK, JobInv
  <2>2. ASSUME NEW d \in Paths, NEW name \in Names, NEW mode \in {"dir", "reg"},
               create(t, d, name, mode)
        PROVE  TypeOK' /\ JobInv'
    <3>1. Job(d, name, mode, 0) \in JobType /\ Job(d, name, mode, 0).mode = mode
      BY NewJob DEF NameType, Job
    <3> QED  BY <2>2, <3>1 DEF create, TypeOK, JobInv
  <2>3. ASSUME NEW p \in Paths, NEW r \in Ranges, write(t, p, r[1], r[2]) PROVE TypeOK' /\ JobInv'
    <3>1. icache[p].block \in Blocks /\ icache[p].ino \in Nat /\ r[1] \in Nat /\ r[2] \in Nat
      BY <2>3, InodeUpdate, NameAssumption DEF write
    <3>2. blk' \in BlocksType /\ (UNCHANGED dblk \/ dblk' = [dblk EXCEPT ![icache[p].block] = blk'[icache[p].block]])
      <4>1. ASSUME NEW upto
            PROVE  [blk EXCEPT ![icache[p].block] = [c \in Cells |->
                     IF r[1] <= c /\ c < upto THEN Data(icache[p].ino) ELSE blk[icache[p].block][c]]]
                   \in BlocksType
        BY <3>1 DEF TypeOK, BlocksType, Data, NameType
      <4>2. \E upto : blk' = [blk EXCEPT ![icache[p].block] = [c \in Cells |->
                     IF r[1] <= c /\ c < upto THEN Data(icache[p].ino) ELSE blk[icache[p].block][c]]]
        BY <2>3 DEF write
      <4>3. UNCHANGED dblk \/ dblk' = [dblk EXCEPT ![icache[p].block] = blk'[icache[p].block]]
        BY <2>3 DEF write
      <4>4. blk' \in BlocksType
        <5>1. PICK upto : blk' = [blk EXCEPT ![icache[p].block] = [c \in Cells |->
                     IF r[1] <= c /\ c < upto THEN Data(icache[p].ino) ELSE blk[icache[p].block][c]]]
          BY <4>2
        <5> QED  BY <5>1, <4>1, Zenon
      <4> QED  BY <4>3, <4>4
    <3>3. dblk' \in BlocksType
      BY <3>1, <3>2, Zenon DEF TypeOK, BlocksType
    <3>4. Job(p, "nil", "none", r[2]) \in JobType
      BY <3>1, NewJob, Zenon DEF NameType
    <3>5. /\ UNCHANGED <<locks, sb, istore, dsb, distore, icache, acked>>
          /\ \/ UNCHANGED <<pc, job>>
             \/ /\ pc' = [pc EXCEPT ![t] = "w_mgmt"]
                /\ job' = [job EXCEPT ![t] = Job(p, "nil", "none", r[2])]
      BY <2>3 DEF write
    <3> QED  BY <3>2, <3>3, <3>4, <3>5 DEF TypeOK, JobInv
  <2> QED  BY <1>1, <2>1, <2>2, <2>3 DEF Call
<1>2. ASSUME NEW t \in Tasks, Step(t) PROVE TypeOK' /\ JobInv'
  <2>1. CASE create_lock(t)
    BY <2>1 DEF create_lock, TypeOK, JobInv
  <2>2. CASE get_objects_count_lock(t)
    BY <2>2 DEF get_objects_count_lock, TypeOK, JobInv
  <2>3. CASE get_objects_count(t)
    <3>1. [job[t] EXCEPT !.count = sb.count] \in JobType
      BY JobUpdate DEF TypeOK, SuperBlockType
    <3>2. [job[t] EXCEPT !.count = sb.count].mode = job[t].mode
      BY DEF JobType
    <3> QED  BY <2>3, <3>1, <3>2 DEF get_objects_count, TypeOK, JobInv
  <2>4. CASE new_inode(t)
    BY <2>4 DEF new_inode, TypeOK, JobInv
  <2>5. CASE get_a_freeblock_lock(t)
    BY <2>5 DEF get_a_freeblock_lock, TypeOK, JobInv
  <2>6. CASE get_a_freeblock(t)
    <3>1. ASSUME NEW i \in Blocks, FirstFree(sb.free, i),
                 job' = [job EXCEPT ![t].block = i],
                 sb' = [sb EXCEPT !.free = @ \ ShiftMask(i)], dsb' = sb',
                 pc' = [pc EXCEPT ![t] = "a_mgmt"], UNCHANGED dir_lock
          PROVE  TypeOK' /\ JobInv'
      <4>1. [job[t] EXCEPT !.block = i] \in JobType
        BY JobUpdate
      <4>2. [job[t] EXCEPT !.block = i].mode = job[t].mode /\ [job[t] EXCEPT !.block = i].block = i
        BY DEF JobType
      <4>3. sb' \in SuperBlockType
        BY <3>1 DEF TypeOK, SuperBlockType
      <4> QED  BY <2>6, <3>1, <4>1, <4>2, <4>3 DEF get_a_freeblock, TypeOK, JobInv
    <3>2. CASE dir_lock' = NoTask /\ Return(t) /\ UNCHANGED <<sb, dsb>>
      BY <2>6, <3>2 DEF get_a_freeblock, TypeOK, JobInv
    <3> QED  BY <2>6, <3>1, <3>2 DEF get_a_freeblock
  <2>7. CASE inode_add_lock(t)
    BY <2>7 DEF inode_add_lock, TypeOK, JobInv
  <2>8. CASE inode_add_lock_sb(t)
    BY <2>8 DEF inode_add_lock_sb, TypeOK, JobInv
  <2>9. CASE inode_add(t)
    <3>1. NewInode(job[t]) \in InodeType
      BY <2>9, NewInodeType DEF inode_add, JobInv
    <3>2. istore' \in [Slots -> InodeType]
      BY <2>9, <3>1, Zenon DEF inode_add, TypeOK
    <3>3. sb' \in SuperBlockType
      BY <2>9 DEF inode_add, TypeOK, SuperBlockType
    <3> QED  BY <2>9, <3>2, <3>3 DEF inode_add, TypeOK, JobInv
  <2>10. CASE inode_add_sync(t)
    BY <2>10 DEF inode_add_sync, TypeOK, JobInv
  <2>11. CASE add_record(t)
    <3> DEFINE dir == icache[job[t].path]
               record == <<job[t].name, InodeNumber(job[t].count)>>
    <3>1. record \in NameType \X Nat
      BY JobUpdate DEF InodeNumber
    <3>2. blk' = [blk EXCEPT ![dir.block][dir.n] = record]
      BY <2>11 DEF add_record
    <3>3. blk' \in BlocksType
      BY <3>1, <3>2, Zenon DEF TypeOK, BlocksType
    <3>4. dblk' \in BlocksType
      BY <2>11, <3>3, Zenon DEF add_record, TypeOK, BlocksType
    <3> QED  BY <2>11, <3>3, <3>4 DEF add_record, TypeOK, JobInv
  <2>12. CASE count_child(t)
    <3> DEFINE n == icache[job[t].path].n + 1
    <3>0. icache[job[t].path] \in InodeType /\ n \in Nat
      BY InodeUpdate, JobUpdate
    <3> HIDE DEF n
    <3>1. [icache[job[t].path] EXCEPT !.n = n] \in InodeType
      BY <3>0, InodeUpdate
    <3>2. icache' \in [Paths -> InodeType]
      BY <2>12, <3>1 DEF count_child, n
    <3> QED  BY <2>12, <3>2 DEF count_child, TypeOK, JobInv
  <2>13. CASE inode_save_lock(t)
    BY <2>13 DEF inode_save_lock, ReleaseDir, TypeOK, JobInv
  <2>14. CASE inode_save(t)
    <3> DEFINE path == job[t].path
               child == Append(path, job[t].name)
    <3>1. /\ UNCHANGED <<sb, blk, dsb, dblk>> /\ sb_lock' = NoTask /\ mgmt_lock' = NoTask
          /\ dir_lock' \in {NoTask, dir_lock}
          /\ pc' = [pc EXCEPT ![t] = "idle"] /\ job' = [job EXCEPT ![t] = NoJob]
      BY <2>14 DEF inode_save, ReleaseDir
    <3>2. icache[path] \in InodeType
      BY JobUpdate
    <3>3. \/ UNCHANGED <<istore, distore>>
          \/ distore' = istore' /\ \E s \in Slots : istore' = [istore EXCEPT ![s] = icache[path]]
      BY <2>14 DEF inode_save, inode_search
    <3>4. istore' \in [Slots -> InodeType] /\ distore' \in [Slots -> InodeType]
      BY <3>2, <3>3 DEF TypeOK
    <3>5. \/ UNCHANGED <<icache, acked>>
          \/ /\ pc[t] = "c_saving"
             /\ icache' = [icache EXCEPT ![child] = NewInode(job[t])]
             /\ acked' = acked \cup {Acknowledged(job[t])}
      BY <2>14 DEF inode_save
    <3>6. pc[t] = "c_saving" => /\ NewInode(job[t]) \in InodeType
                                /\ Acknowledged(job[t]) \in
                                     [dir : Nat, name : NameType, ino : Nat, mode : {"dir", "reg"}]
      BY <3>2, NewInodeType, InodeUpdate, JobUpdate DEF JobInv, Acknowledged
    <3>7. icache' \in [Paths -> InodeType]
      BY <3>5, <3>6, Zenon
    <3>8. acked' \subseteq [dir : Nat, name : NameType, ino : Nat, mode : {"dir", "reg"}]
      BY <3>5, <3>6 DEF TypeOK
    <3> QED  BY <3>1, <3>4, <3>7, <3>8 DEF TypeOK, JobInv
  <2>15. CASE write_lock(t)
    <3>1. [icache[job[t].path] EXCEPT !.n = job[t].end] \in InodeType
      BY InodeUpdate, JobUpdate
    <3>2. icache' \in [Paths -> InodeType]
      BY <2>15, <3>1 DEF write_lock
    <3> QED  BY <2>15, <3>2 DEF write_lock, TypeOK, JobInv
  <2>16. CASE iget(t)
    <3>1. icache' \in [Paths -> InodeType]
      <4>1. ASSUME NEW i \in get_inode(sb.count, istore, job[t].count),
                   icache' = [icache EXCEPT ![Append(job[t].path, job[t].name)] = i]
            PROVE  icache' \in [Paths -> InodeType]
        BY <4>1, GetInodeType, Zenon DEF TypeOK
      <4> QED  BY <2>16, <4>1 DEF iget
    <3> QED  BY <2>16, <3>1 DEF iget, TypeOK, JobInv
  <2> QED  BY <1>2, <2>1, <2>2, <2>3, <2>4, <2>5, <2>6, <2>7, <2>8, <2>9, <2>10, <2>11,
              <2>12, <2>13, <2>14, <2>15, <2>16 DEF Step
<1>3. CASE Kernel
  <2>1. CASE writeback
    BY <2>1 DEF writeback, TypeOK, JobInv
  <2>2. ASSUME NEW b \in Blocks, reclaim(b) PROVE TypeOK' /\ JobInv'
    BY <2>2 DEF reclaim, TypeOK, JobInv, BlocksType
  <2>3. ASSUME NEW p \in Paths, destroy_inode(p) PROVE TypeOK' /\ JobInv'
    BY <2>3 DEF destroy_inode, TypeOK, JobInv
  <2> QED  BY <1>3, <2>1, <2>2, <2>3 DEF Kernel
<1>4. ASSUME mount, dsb' \in {sb, dsb}, distore' \in {istore, distore}, UNCHANGED dblk,
             {dir_lock', mgmt_lock', sb_lock'} \subseteq Tasks \cup {NoTask}
      PROVE  TypeOK' /\ JobInv'
  <2>1. icache' \in [Paths -> InodeType]
    BY <1>4, OnlyRootType DEF mount, TypeOK
  <2> QED  BY <1>4, <2>1 DEF mount, TypeOK, JobInv
<1>5. CASE kill_superblock
  BY <1>4, <1>5 DEF kill_superblock, TypeOK
<1>6. CASE crash
  BY <1>4, <1>6 DEF crash
<1>7. CASE UNCHANGED vars
  BY <1>7 DEF vars, TypeOK, JobInv
<1> QED  BY <1>1, <1>2, <1>3, <1>5, <1>6, <1>7 DEF Next, Running

-------------------------------------------------------------------------------
\* The model is well typed: in particular every inode that simplefs uses names a
\* data block of the volume, and every create that reaches simplefs_inode_add has
\* been given one.
THEOREM TypeCorrect == Spec => [](TypeOK /\ JobInv)
BY TypeInit, TypeStep, PTL DEF Spec

\* dir_lock and mgmt_lock are held exactly between their acquisition and the
\* return of the task that took them, sb_lock at most there.
THEOREM LocksHeld == Spec => []LockInv
BY LockInit, LockStep, TypeCorrect, PTL DEF Spec

\* No system call leaves a mutex of the module locked behind it, whatever signals
\* arrive: the early return of simplefs_inode_add with mgmt_lock held is dead code,
\* because dir_lock and mgmt_lock together keep everyone else off sb_lock.
THEOREM NoLeak == Spec => []NoLockLeak
<1>1. LockInv => NoLockLeak
  BY DEF LockInv, NoLockLeak, CreatePlaces, DirPlaces, MgmtPlaces, SbPlaces
<1> QED  BY <1>1, LocksHeld, PTL

-------------------------------------------------------------------------------
(***************************************************************************)
(* Inode numbers and data blocks are given out once, through signals,      *)
(* interleavings and crashes.                                              *)
(***************************************************************************)
\* The number that the inode in slot s has, if there is one.
SlotNumber(s) == IF s < Image.sb.count THEN Image.istore[s].ino ELSE InodeNumber(s)

Numbered(store) ==
  \A s \in Slots : \/ store[s].ino = SlotNumber(s)
                   \/ store[s].ino = 0 /\ Image.sb.count <= s

\* From simplefs_sb_get_objects_count to simplefs_inode_add a create's count is
\* that of the super block: dir_lock keeps other creates out.
NumberInv ==
  /\ Numbered(istore) /\ Numbered(distore)
  /\ Image.sb.count <= dsb.count /\ dsb.count <= sb.count
  /\ sb.free = dsb.free
  /\ \A t \in Tasks :
       pc[t] \in {"c_new", "c_free", "c_alloc", "a_mgmt", "a_sb", "a_store"} =>
         job[t].count = sb.count

-------------------------------------------------------------------------------
\* A call starts a task and changes no inode and no super block.
Quiet(t) ==
  /\ UNCHANGED <<sb, istore, dsb, distore, icache>>
  /\ \/ UNCHANGED <<pc, job>>
     \/ \E place \in {"iget", "c_dir", "w_mgmt"} : \E j :
          pc' = [pc EXCEPT ![t] = place] /\ job' = [job EXCEPT ![t] = j]

LEMMA CallEffect ==
  ASSUME NEW t \in Tasks, Call(t)
  PROVE  Quiet(t)
<1> USE DEF Goto, cache, disk, Quiet
<1>1. ASSUME NEW d \in Paths, NEW name \in Names, lookup(t, d, name) PROVE Quiet(t)
  BY <1>1, Zenon DEF lookup
<1>2. ASSUME NEW d \in Paths, NEW name \in Names, NEW mode \in {"dir", "reg"},
             create(t, d, name, mode)
      PROVE  Quiet(t)
  BY <1>2, Zenon DEF create
<1>3. ASSUME NEW p \in Paths, NEW r \in Ranges, write(t, p, r[1], r[2]) PROVE Quiet(t)
  BY <1>3 DEF write
<1> QED  BY <1>1, <1>2, <1>3 DEF Call

LEMMA NumberInit == Init => NumberInv
<1>1. Numbered(Image.istore)
  BY ImageAssumption, NoInodeType DEF Numbered, SlotNumber, Slots, SuperBlockType
<1>2. Image.sb.count \in Nat
  BY ImageAssumption DEF SuperBlockType
<1> QED  BY <1>1, <1>2 DEF Init, fill_super, NumberInv

LEMMA NumberStep ==
  TypeOK /\ TypeOK' /\ JobInv /\ LockInv /\ NumberInv /\ [Next]_vars => NumberInv'
<1> SUFFICES ASSUME TypeOK, TypeOK', JobInv, LockInv, NumberInv, [Next]_vars PROVE NumberInv'
  OBVIOUS
<1>0. /\ pc \in [Tasks -> Places] /\ job \in [Tasks -> JobType]
      /\ sb \in SuperBlockType /\ dsb \in SuperBlockType
      /\ sb.count \in Nat /\ dsb.count \in Nat /\ Image.sb.count \in Nat
      /\ istore \in [Slots -> InodeType] /\ distore \in [Slots -> InodeType]
  BY ImageAssumption DEF TypeOK, SuperBlockType
<1> USE <1>0 DEF NumberInv, Goto, Return, Takes, Interrupted, locks, cache, disk
\* Most steps leave the super block and the inode store alone.
<1>1. ASSUME UNCHANGED <<sb, istore, dsb>>, distore' \in {distore, istore}, NEW t \in Tasks,
             pc' = [pc EXCEPT ![t] = pc'[t]], job' = [job EXCEPT ![t] = job'[t]],
             pc'[t] \in {"c_new", "c_free", "c_alloc", "a_mgmt", "a_sb", "a_store"} =>
               \/ job'[t].count = sb.count
               \/ job'[t] = job[t] /\ pc[t] \in {"c_new", "c_free", "c_alloc", "a_mgmt", "a_sb"}
      PROVE  NumberInv'
  BY <1>1 DEF Numbered
<1>2. ASSUME NEW t \in Tasks, Call(t) PROVE NumberInv'
  BY <1>2, CallEffect DEF Quiet, Numbered
<1>3. ASSUME NEW t \in Tasks, Step(t) PROVE NumberInv'
  <2>1. CASE create_lock(t)
    BY <2>1, <1>1, Zenon DEF create_lock
  <2>2. CASE get_objects_count_lock(t)
    BY <2>2, <1>1 DEF get_objects_count_lock
  <2>3. CASE get_objects_count(t)
    <3>1. job'[t].count = sb.count
      BY <2>3 DEF get_objects_count, JobType
    <3> QED  BY <2>3, <3>1, <1>1 DEF get_objects_count
  <2>4. CASE new_inode(t)
    BY <2>4, <1>1 DEF new_inode
  <2>5. CASE get_a_freeblock_lock(t)
    BY <2>5, <1>1 DEF get_a_freeblock_lock
  <2>6. CASE get_a_freeblock(t)
    <3>1. ASSUME NEW i \in Blocks, job' = [job EXCEPT ![t].block = i],
                 sb' = [sb EXCEPT !.free = @ \ ShiftMask(i)], dsb' = sb',
                 pc' = [pc EXCEPT ![t] = "a_mgmt"]
          PROVE  NumberInv'
      <4>1. sb'.count = sb.count
        BY <3>1 DEF SuperBlockType
      <4>2. \A u \in Tasks : job'[u].count = job[u].count
        BY <3>1 DEF JobType
      <4> QED  BY <2>6, <3>1, <4>1, <4>2 DEF get_a_freeblock, Numbered
    <3>2. CASE Return(t) /\ UNCHANGED <<sb, dsb>>
      BY <2>6, <3>2, <1>1 DEF get_a_freeblock
    <3> QED  BY <2>6, <3>1, <3>2 DEF get_a_freeblock
  <2>7. CASE inode_add_lock(t)
    BY <2>7, <1>1 DEF inode_add_lock
  <2>8. CASE inode_add_lock_sb(t)
    BY <2>8, <1>1 DEF inode_add_lock_sb
  <2>9. CASE inode_add(t)
    <3>1. NewInode(job[t]).ino = SlotNumber(sb.count)
      BY <2>9 DEF inode_add, NewInode, Inode, SlotNumber
    <3>2. Numbered(istore')
      BY <2>9, <3>1 DEF inode_add, Numbered
    <3>3. sb'.count = sb.count + 1 /\ sb'.free = sb.free
      BY <2>9 DEF inode_add, SuperBlockType
    <3>4. \A u \in Tasks : u # t => pc[u] \notin DirPlaces
      BY <2>9 DEF inode_add, LockInv, DirPlaces, CreatePlaces
    <3> QED  BY <2>9, <3>2, <3>3, <3>4 DEF inode_add, DirPlaces, CreatePlaces
  <2>10. CASE inode_add_sync(t)
    BY <2>10 DEF inode_add_sync, Numbered
  <2>11. CASE add_record(t)
    BY <2>11, <1>1 DEF add_record
  <2>12. CASE count_child(t)
    BY <2>12, <1>1 DEF count_child
  <2>13. CASE inode_save_lock(t)
    BY <2>13, <1>1 DEF inode_save_lock
  <2>14. CASE inode_save(t)
    <3>1. \/ UNCHANGED <<istore, distore>>
          \/ /\ distore' = istore'
             /\ \E s \in Slots : /\ istore' = [istore EXCEPT ![s] = icache[job[t].path]]
                                 /\ istore[s].ino = icache[job[t].path].ino
      BY <2>14 DEF inode_save, inode_search
    <3>2. Numbered(istore') /\ Numbered(distore')
      BY <3>1 DEF Numbered
    <3> QED  BY <2>14, <3>2 DEF inode_save
  <2>15. CASE write_lock(t)
    BY <2>15, <1>1 DEF write_lock
  <2>16. CASE iget(t)
    BY <2>16, <1>1 DEF iget
  <2> QED  BY <1>3, <2>1, <2>2, <2>3, <2>4, <2>5, <2>6, <2>7, <2>8, <2>9, <2>10, <2>11,
              <2>12, <2>13, <2>14, <2>15, <2>16 DEF Step
<1>4. CASE Kernel
  BY <1>4 DEF Kernel, writeback, reclaim, destroy_inode, Numbered
<1>5. CASE kill_superblock
  BY <1>5 DEF kill_superblock, mount, Numbered
<1>6. CASE crash
  BY <1>6 DEF crash, mount, Numbered
<1>7. CASE UNCHANGED vars
  BY <1>7 DEF vars, Numbered
<1> QED  BY <1>2, <1>3, <1>4, <1>5, <1>6, <1>7 DEF Next, Running

-------------------------------------------------------------------------------
(***************************************************************************)
(* Every copy of an inode: in the store, on the disk, in memory, and in    *)
(* the hands of a create.  The block of a copy whose number is n or more   *)
(* is not free, and determines the inode's number and mode.  Copies must   *)
(* be tracked because simplefs_inode_save writes an in-memory copy over    *)
(* whatever the store holds under its number.  For the inodes created      *)
(* since the volume was formatted n is the first number to be given out,   *)
(* whatever mkfs.c did with the free map; 1 speaks of all inodes.          *)
(***************************************************************************)
Since(n, i) == i.ino >= n
FirstNumber == InodeNumber(Image.sb.count)

SameInode(i, j) == i.ino = j.ino /\ i.mode = j.mode /\ i.block = j.block

Copies ==
  {istore[s] : s \in Slots} \cup {distore[s] : s \in Slots} \cup {icache[p] : p \in Paths}
    \cup {NewInode(job[t]) : t \in {t \in Tasks : pc[t] \in AllocatedPlaces}}

BlockInv(n) ==
  \A i \in Copies : Since(n, i) =>
    /\ ~IsFree(sb.free, i.block)
    /\ \A j \in Copies : Since(n, j) /\ j.block = i.block => SameInode(i, j)

LEMMA ZeroNotCreated == ASSUME NEW n \in Nat \ {0}, NEW i, i.ino = 0 PROVE ~Since(n, i)
BY DEF Since

LEMMA FirstNumberPositive == FirstNumber \in Nat \ {0}
BY ImageAssumption DEF FirstNumber, InodeNumber, SuperBlockType

LEMMA BlockInit == Init => BlockInv(FirstNumber)
<1> DEFINE n == FirstNumber
<1> SUFFICES ASSUME Init, NEW i \in Copies PROVE ~Since(n, i)
  BY DEF BlockInv
<1>0. n \in Nat \ {0}
  BY FirstNumberPositive
<1>1. \A s \in Slots : ~Since(n, Image.istore[s])
  <2> TAKE s \in Slots
  <2>1. CASE s < Image.sb.count
    <3>1. Image.istore[s].ino < InodeNumber(Image.sb.count)
      BY <2>1, ImageAssumption
    <3>2. Image.istore[s].ino \in Nat /\ InodeNumber(Image.sb.count) \in Nat
      BY ImageAssumption, InodeUpdate DEF SuperBlockType, InodeNumber
    <3> QED  BY <3>1, <3>2 DEF Since, FirstNumber
  <2>2. CASE ~(s < Image.sb.count)
    BY <1>0, <2>2, ImageAssumption, NoInodeType, ZeroNotCreated
  <2> QED  BY <2>1, <2>2
<1>2. istore = Image.istore /\ distore = Image.istore /\ istore \in [Slots -> InodeType]
  BY ImageAssumption DEF Init, fill_super
<1>3. \A p \in Paths : ~Since(n, icache[p])
  BY <1>0, <1>1, <1>2, GetInodeType, NoInodeType, ZeroNotCreated DEF Init, fill_super, OnlyRoot
<1>4. \A t \in Tasks : pc[t] \notin AllocatedPlaces
  BY DEF Init, fill_super, AllocatedPlaces, NumberedPlaces, DirPlaces, CreatePlaces
<1> QED  BY <1>1, <1>2, <1>3, <1>4 DEF Copies

\* i is the same inode as some copy, or has an older number.
Old(n, i) == Since(n, i) => \E j \in Copies : SameInode(i, j)

LEMMA OldCopies == \A n : \A i \in Copies : Old(n, i)
BY DEF Old, SameInode

LEMMA OldInodes ==
  ASSUME NEW n, BlockInv(n), NEW i, Since(n, i), Old(n, i)
  PROVE  /\ ~IsFree(sb.free, i.block)
         /\ \A j : Since(n, j) /\ Old(n, j) /\ j.block = i.block => SameInode(i, j)
<1>1. PICK k \in Copies : SameInode(i, k)
  BY DEF Old
<1>2. Since(n, k)
  BY <1>1 DEF Since, SameInode
<1>3. ASSUME NEW j, Since(n, j), Old(n, j), j.block = i.block PROVE SameInode(i, j)
  <2>1. PICK l \in Copies : SameInode(j, l)
    BY <1>3 DEF Old
  <2>2. Since(n, l)
    BY <1>3, <2>1 DEF Since, SameInode
  <2> QED  BY <1>1, <1>2, <1>3, <2>1, <2>2, Zenon DEF BlockInv, SameInode
<1> QED  BY <1>1, <1>2, <1>3 DEF BlockInv, SameInode

\* A step that hands out no block makes no copy out of nothing.
LEMMA StoresOnly ==
  ASSUME NEW n \in Nat \ {0}, BlockInv(n), sb'.free = sb.free,
         \A s \in Slots : Old(n, istore'[s]) /\ Old(n, distore'[s]),
         \A p \in Paths : Old(n, icache'[p]),
         \A t \in Tasks : pc'[t] \in AllocatedPlaces => Old(n, NewInode(job'[t]))
  PROVE  BlockInv(n)'
<1>1. ASSUME NEW i \in Copies' PROVE Old(n, i)
  BY <1>1 DEF Copies, NewInode
<1> QED  BY <1>1, OldInodes DEF BlockInv, Since, SameInode

LEMMA BlockStep ==
  ASSUME NEW n \in Nat \ {0}, TypeOK, JobInv, NumberInv, BlockInv(n), [Next]_vars
  PROVE  BlockInv(n)'
<1>0. /\ pc \in [Tasks -> Places] /\ job \in [Tasks -> JobType] /\ sb \in SuperBlockType
      /\ istore \in [Slots -> InodeType] /\ distore \in [Slots -> InodeType]
      /\ icache \in [Paths -> InodeType]
  BY DEF TypeOK
<1>1. /\ \A s \in Slots : Old(n, istore[s]) /\ Old(n, distore[s])
      /\ \A p \in Paths : Old(n, icache[p])
      /\ \A t \in Tasks : pc[t] \in AllocatedPlaces => Old(n, NewInode(job[t]))
      /\ Old(n, NoInode)
  BY OldCopies, ZeroNotCreated, NoInodeType DEF Copies, Old
<1>2. \A t \in Tasks : job[t].path \in Paths
  BY <1>0, JobUpdate
<1> USE <1>0, <1>1, <1>2
    DEF Goto, Return, Takes, Interrupted, locks, cache, disk, AllocatedPlaces, NumberedPlaces,
        DirPlaces, CreatePlaces
<1>3. ASSUME NEW t \in Tasks, Call(t) PROVE BlockInv(n)'
  BY <1>3, CallEffect, StoresOnly DEF Quiet
<1>4. ASSUME NEW t \in Tasks, Step(t) PROVE BlockInv(n)'
  <2>1. CASE create_lock(t)
    BY <2>1, StoresOnly DEF create_lock
  <2>2. CASE get_objects_count_lock(t)
    BY <2>2, StoresOnly DEF get_objects_count_lock
  <2>3. CASE get_objects_count(t)
    BY <2>3, StoresOnly DEF get_objects_count
  <2>4. CASE new_inode(t)
    BY <2>4, StoresOnly DEF new_inode
  <2>5. CASE get_a_freeblock_lock(t)
    BY <2>5, StoresOnly DEF get_a_freeblock_lock
  <2>6. CASE get_a_freeblock(t)
    <3>1. ASSUME NEW b \in Blocks, FirstFree(sb.free, b), job' = [job EXCEPT ![t].block = b],
                 sb' = [sb EXCEPT !.free = @ \ ShiftMask(b)],
                 pc' = [pc EXCEPT ![t] = "a_mgmt"]
          PROVE  BlockInv(n)'
      <4> DEFINE new == NewInode(job'[t])
      <4>1. new.block = b /\ sb'.free = sb.free \ ShiftMask(b)
        BY <3>1 DEF NewInode, Inode, JobType, SuperBlockType
      <4>2. IsFree(sb.free, b) /\ ~IsFree(sb'.free, b)
        BY <3>1, <4>1 DEF FirstFree, IsFree
      <4>3. \A i \in Copies' : i = new \/ Old(n, i)
        BY <2>6, <3>1 DEF get_a_freeblock, Copies, NewInode
      <4>4. ASSUME NEW i, Since(n, i), Old(n, i)
            PROVE  /\ ~IsFree(sb'.free, i.block) /\ i.block # b
                   /\ \A j : Since(n, j) /\ Old(n, j) /\ j.block = i.block => SameInode(i, j)
        BY <4>1, <4>2, <4>4, OldInodes DEF IsFree
      <4> HIDE DEF new
      <4>5. \A i \in Copies' : Since(n, i) =>
              /\ ~IsFree(sb'.free, i.block)
              /\ \A j \in Copies' : Since(n, j) /\ j.block = i.block => SameInode(i, j)
        BY <4>1, <4>2, <4>3, <4>4 DEF SameInode
      <4> QED  BY <4>5 DEF BlockInv, Since, SameInode
    <3>2. CASE Return(t) /\ UNCHANGED <<sb, dsb>>
      BY <2>6, <3>2, StoresOnly DEF get_a_freeblock
    <3> QED  BY <2>6, <3>1, <3>2 DEF get_a_freeblock
  <2>7. CASE inode_add_lock(t)
    BY <2>7, StoresOnly DEF inode_add_lock
  <2>8. CASE inode_add_lock_sb(t)
    BY <2>8, StoresOnly DEF inode_add_lock_sb
  <2>9. CASE inode_add(t)
    <3>1. sb'.free = sb.free
      BY <2>9 DEF inode_add, SuperBlockType
    <3> QED  BY <2>9, <3>1, StoresOnly DEF inode_add
  <2>10. CASE inode_add_sync(t)
    BY <2>10, StoresOnly DEF inode_add_sync
  <2>11. CASE add_record(t)
    BY <2>11, StoresOnly DEF add_record
  <2>12. CASE count_child(t)
    <3>1. ASSUME icache' = [icache EXCEPT ![job[t].path].n = @ + 1], NEW p \in Paths
          PROVE  SameInode(icache'[p], icache[p])
      BY <3>1 DEF InodeType, SameInode
    <3>2. \A p \in Paths : Old(n, icache'[p])
      BY <2>12, <3>1 DEF count_child, Old, Since, SameInode
    <3> QED  BY <2>12, <3>2, StoresOnly DEF count_child
  <2>13. CASE inode_save_lock(t)
    BY <2>13, StoresOnly DEF inode_save_lock
  <2>14. CASE inode_save(t)
    <3>1. \/ UNCHANGED <<istore, distore>>
          \/ distore' = istore' /\ \E s \in Slots : istore' = [istore EXCEPT ![s] = icache[job[t].path]]
      BY <2>14 DEF inode_save, inode_search
    <3>2. \A s \in Slots : Old(n, istore'[s]) /\ Old(n, distore'[s])
      BY <3>1
    <3>3. \A p \in Paths : Old(n, icache'[p])
      BY <2>14, Zenon DEF inode_save
    <3> QED  BY <2>14, <3>2, <3>3, StoresOnly DEF inode_save
  <2>15. CASE write_lock(t)
    <3>1. ASSUME icache' = [icache EXCEPT ![job[t].path].n = job[t].end], NEW p \in Paths
          PROVE  SameInode(icache'[p], icache[p])
      BY <3>1 DEF InodeType, SameInode
    <3>2. \A p \in Paths : Old(n, icache'[p])
      BY <2>15, <3>1 DEF write_lock, Old, Since, SameInode
    <3> QED  BY <2>15, <3>2, StoresOnly DEF write_lock
  <2>16. CASE iget(t)
    <3>1. \A i \in get_inode(sb.count, istore, job[t].count) : Old(n, i)
      BY GetInodeType
    <3>2. \A p \in Paths : Old(n, icache'[p])
      BY <2>16, <3>1, Zenon DEF iget
    <3> QED  BY <2>16, <3>2, StoresOnly DEF iget
  <2> QED  BY <1>4, <2>1, <2>2, <2>3, <2>4, <2>5, <2>6, <2>7, <2>8, <2>9, <2>10, <2>11,
              <2>12, <2>13, <2>14, <2>15, <2>16 DEF Step
<1>5. CASE Kernel
  <2>1. CASE writeback
    BY <2>1, StoresOnly DEF writeback
  <2>2. ASSUME NEW b \in Blocks, reclaim(b) PROVE BlockInv(n)'
    BY <2>2, StoresOnly DEF reclaim
  <2>3. ASSUME NEW p \in Paths, destroy_inode(p) PROVE BlockInv(n)'
    BY <2>3, StoresOnly DEF destroy_inode
  <2> QED  BY <1>5, <2>1, <2>2, <2>3 DEF Kernel
\* A mount finds on the disk only inodes of which there was a copy.
<1>6. ASSUME mount, dsb' \in {sb, dsb}, distore' \in {istore, distore} PROVE BlockInv(n)'
  <2>1. \A s \in Slots : Old(n, istore'[s]) /\ Old(n, distore'[s])
    BY <1>6 DEF mount
  <2>2. istore' \in [Slots -> InodeType]
    BY <1>6 DEF mount
  <2>3. \A p \in Paths : Old(n, icache'[p])
    BY <1>6, <2>1, <2>2, GetInodeType, SMTT(20) DEF mount, OnlyRoot
  <2> QED  BY <1>6, <2>1, <2>3, StoresOnly DEF mount, NumberInv
<1>7. CASE kill_superblock
  BY <1>6, <1>7 DEF kill_superblock
<1>8. CASE crash
  BY <1>6, <1>8 DEF crash
<1>9. CASE UNCHANGED vars
  BY <1>9, StoresOnly DEF vars
<1> QED  BY <1>3, <1>4, <1>5, <1>7, <1>8, <1>9 DEF Next, Running

-------------------------------------------------------------------------------
\* A number and a block are given out once, whichever copies of an inode a crash or
\* simplefs_inode_save brings back.
THEOREM NumbersAndBlocks == Spec => [](NumberInv /\ BlockInv(FirstNumber))
<1>1. TypeOK /\ JobInv /\ NumberInv /\ BlockInv(FirstNumber) /\ [Next]_vars => BlockInv(FirstNumber)'
  BY FirstNumberPositive, BlockStep
<1> QED  BY <1>1, NumberInit, NumberStep, BlockInit, TypeCorrect, LocksHeld, PTL DEF Spec

\* The number of an inode determines its slot.
LEMMA SlotOfNumber ==
  ASSUME NEW store, Numbered(store), NEW r \in Slots, NEW s \in Slots,
         store[r].ino = store[s].ino, store[r].ino # 0
  PROVE  r = s
<1> SUFFICES ASSUME r # s PROVE FALSE
  OBVIOUS
<1>1. SlotNumber(r) = SlotNumber(s)
  BY DEF Numbered
<1>2. r \in Nat /\ s \in Nat /\ Image.sb.count \in Nat
  BY ImageAssumption DEF Slots, SuperBlockType
<1>3. ASSUME NEW a \in Slots, NEW b \in Slots, a < b, a \in Nat, b \in Nat
      PROVE  SlotNumber(a) # SlotNumber(b)
  <2>1. CASE b < Image.sb.count
    BY <1>2, <1>3, <2>1, ImageAssumption DEF SlotNumber
  <2>2. CASE ~(b < Image.sb.count) /\ a < Image.sb.count
    <3>1. Image.istore[a].ino < InodeNumber(Image.sb.count) /\ Image.istore[a].ino \in Nat
      BY <2>2, ImageAssumption, InodeUpdate
    <3> QED  BY <1>2, <1>3, <2>2, <3>1 DEF SlotNumber, InodeNumber
  <2>3. CASE ~(b < Image.sb.count) /\ ~(a < Image.sb.count)
    BY <1>2, <1>3, <2>3 DEF SlotNumber, InodeNumber
  <2> QED  BY <2>1, <2>2, <2>3
<1> QED  BY <1>1, <1>2, <1>3

\* No two inodes of the store share a number: the count that
\* simplefs_create_fs_object reads and the slot that simplefs_inode_add fills
\* agree, because dir_lock is held from one to the other.
THEOREM InodeNumbersUnique == Spec => []DistinctInodes
<1>1. NumberInv => DistinctInodes
  <2> SUFFICES ASSUME NumberInv, NEW r \in Slots, NEW s \in Slots, r # s,
                      istore[r].ino = istore[s].ino
               PROVE  istore[r].ino = 0
    BY DEF DistinctInodes, Live
  <2>1. Numbered(istore)
    BY Zenon DEF NumberInv
  <2> QED  BY <2>1, SlotOfNumber
<1> QED  BY <1>1, NumbersAndBlocks, PTL

\* The data block of a created inode is never marked free and never given to a
\* second created inode, for every free map that mkfs could have written.
THEOREM BlocksNeverShared == Spec => []BlocksOwned
<1>1. TypeOK /\ NumberInv /\ BlockInv(FirstNumber) => BlocksOwned
  <2> SUFFICES ASSUME TypeOK, NumberInv, BlockInv(FirstNumber),
                      NEW r \in Slots, r >= Image.sb.count, istore[r].ino # 0
               PROVE  /\ ~IsFree(sb.free, istore[r].block)
                      /\ \A s \in Live(sb.count) :
                           s # r /\ s >= Image.sb.count /\ istore[s].ino # 0 =>
                             istore[s].block # istore[r].block
    BY DEF BlocksOwned, Live
  <2>1. ASSUME NEW s \in Slots, s >= Image.sb.count, istore[s].ino # 0
        PROVE  Since(FirstNumber, istore[s]) /\ istore[s] \in Copies
    <3>1. istore[s].ino = InodeNumber(s) /\ s \in Nat /\ Image.sb.count \in Nat
      BY <2>1, ImageAssumption DEF NumberInv, Numbered, SlotNumber, SuperBlockType, Slots
    <3> QED  BY <2>1, <3>1 DEF Since, FirstNumber, InodeNumber, Copies
  <2>2. ASSUME NEW s \in Live(sb.count), s # r, s >= Image.sb.count, istore[s].ino # 0,
               istore[s].block = istore[r].block
        PROVE  FALSE
    <3>1. s \in Slots
      BY DEF Live
    <3>2. istore[s].ino = istore[r].ino
      BY <2>1, <2>2, <3>1 DEF BlockInv, SameInode
    <3>3. istore[s].ino = InodeNumber(s) /\ istore[r].ino = InodeNumber(r)
          /\ s \in Nat /\ r \in Nat
      BY <2>2, <3>1, ImageAssumption DEF NumberInv, Numbered, SlotNumber, SuperBlockType, Slots
    <3>4. InodeNumber(s) = InodeNumber(r)
      BY <3>2, <3>3, Zenon
    <3>5. s = r
      BY <3>3, <3>4 DEF InodeNumber
    <3> QED  BY <2>2, <3>5
  <2> QED  BY <2>1, <2>2 DEF BlockInv
<1> QED  BY <1>1, NumbersAndBlocks, TypeCorrect, PTL

\* simplefs_sb_sync after every change makes the super block on the disk
\* monotone: no crash brings back an inode number or a block.
THEOREM SuperBlockNeverForgets == Spec => SuperBlockMonotone
<1>1. TypeOK /\ NumberInv /\ [Next]_vars =>
        [dsb'.count >= dsb.count /\ dsb'.free \subseteq dsb.free]_vars
  <2> SUFFICES ASSUME TypeOK, NumberInv, Next
               PROVE  dsb'.count >= dsb.count /\ dsb'.free \subseteq dsb.free
    OBVIOUS
  <2>0. /\ sb \in SuperBlockType /\ dsb \in SuperBlockType
        /\ dsb.count \in Nat /\ sb.count \in Nat /\ dsb.count <= sb.count /\ sb.free = dsb.free
    BY DEF TypeOK, SuperBlockType, NumberInv
  <2> USE <2>0 DEF disk, cache
  <2>1. ASSUME NEW t \in Tasks, Call(t) PROVE UNCHANGED dsb
    BY <2>1, CallEffect DEF Quiet
  <2>2. ASSUME NEW t \in Tasks, get_a_freeblock(t)
        PROVE  dsb'.count >= dsb.count /\ dsb'.free \subseteq dsb.free
    BY <2>2 DEF get_a_freeblock, SuperBlockType
  <2>3. ASSUME NEW t \in Tasks, inode_add_sync(t)
        PROVE  dsb'.count >= dsb.count /\ dsb'.free \subseteq dsb.free
    BY <2>3 DEF inode_add_sync
  <2>4. ASSUME NEW t \in Tasks, Step(t), ~get_a_freeblock(t), ~inode_add_sync(t)
        PROVE  UNCHANGED dsb
    BY <2>4 DEF Step, create_lock, get_objects_count_lock, get_objects_count, new_inode,
       get_a_freeblock_lock, inode_add_lock, inode_add_lock_sb, inode_add, add_record,
       count_child, inode_save_lock, inode_save, write_lock, iget
  <2>5. CASE Kernel
    BY <2>5 DEF Kernel, writeback, reclaim, destroy_inode
  <2>6. CASE kill_superblock
    BY <2>6 DEF kill_superblock
  <2>7. CASE crash
    BY <2>7 DEF crash
  <2> QED  BY <2>1, <2>2, <2>3, <2>4, <2>5, <2>6, <2>7 DEF Next, Running
<1> QED  BY <1>1, NumbersAndBlocks, TypeCorrect, PTL DEF Spec, SuperBlockMonotone
===============================================================================
