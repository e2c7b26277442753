--------------------------- MODULE SimplefsCrashProofs ------------------------
(***************************************************************************)
(* What a crash leaves of a simplefs volume, for every set of tasks, names *)
(* and sizes and every well-formed volume, when no wait is interrupted.    *)
(***************************************************************************)
EXTENDS SimplefsCrashSteps

(***************************************************************************)
(* The kernel around the module.                                           *)
(***************************************************************************)
LEMMA ReclaimStep ==
  ASSUME Inv, Base', NEW b \in Blocks, reclaim(b)
  PROVE  CrashInv' /\ Kept
<1> USE DEF Inv, CrashInv
<1>1. /\ blk[b] # dblk[b] /\ blk'[b] = dblk[b] /\ \A a \in Blocks : a # b => blk'[a] = blk[a]
      /\ UNCHANGED <<sb, istore, dsb, distore, dblk, icache, pc, job>>
  BY Types, Zenon DEF reclaim, disk, BlocksType, Base
<1>2. \A i \in Copies : i.mode = "dir" => i.block # b
  BY <1>1, Zenon DEF ContentInv, Contents
<1>3. \A s \in Slots : istore[s].mode = "dir" => blk'[istore[s].block] = blk[istore[s].block]
  <2> TAKE s \in Slots
  <2> HAVE istore[s].mode = "dir"
  <2>1. istore[s].block # b
    BY <1>2, Zenon DEF Copies
  <2>2. istore[s].block \in Blocks
    BY Types, InodeUpdate, Zenon DEF Base
  <2> QED  BY <1>1, <2>1, <2>2, Zenon
<1>4. \A u \in Tasks : Moves(u) /\ Steady(u) /\ StillSaves(u) /\ NoNewInode(u)
  BY <1>1, Rests, Zenon
<1>5. CountInv' /\ StoreInv' /\ ApartInv'
  BY <1>1, <1>4, KeptCount, KeptStore, KeptApart, Zenon
<1>6. Kept
  <2>1. \A s \in Slots : InFlight(s)' <=> InFlight(s)
    BY <1>4, KeptFlight, Zenon
  <2> QED  BY <1>1, <1>3, <2>1, Zenon DEF Kept, Settled, Visible, Record, SameInode
<1>7. CacheKept
  BY <1>1, Zenon DEF CacheKept, SameInode
<1>8. ContentInv'
  <2>1. Copies' = Copies
    BY <1>1, Zenon DEF Copies, NewInode
  <2>2. ASSUME NEW i \in Copies PROVE Contents(i)'
    <3>1. Contents(i)
      BY Zenon DEF ContentInv
    <3>2. i.mode # "none" => i.block \in Blocks
      <4>1. \A u \in Tasks : pc[u] \in AllocatedPlaces => NewInode(job[u]).block \in Blocks
        BY Zenon DEF Base, JobInv, NewInode, Inode
      <4> QED  BY <4>1, Types, InodeUpdate, Zenon DEF Copies, Base
    <3>3. CASE i.mode = "dir"
      BY <1>1, <1>2, <3>1, <3>2, <3>3, Zenon DEF Contents
    <3>4. CASE i.mode = "reg"
      BY <1>1, <3>1, <3>2, <3>4, Zenon DEF Contents
    <3>5. CASE i.mode \notin {"dir", "reg"}
      BY <3>1, <3>5, Zenon DEF Contents
    <3> QED  BY <3>3, <3>4, <3>5, Zenon
  <2>3. \A a \in Blocks : IsFree(sb'.free, a) => \A c \in Cells : blk'[a][c] = Zero /\ dblk'[a][c] = Zero
    BY <1>1 DEF ContentInv
  <2> QED  BY <2>1, <2>2, <2>3, Zenon DEF ContentInv
<1>9. ASSUME NEW u \in Tasks, pc'[u] \in Recorded
      PROVE  blk'[icache[job[u].path].block] = blk[icache[job[u].path].block]
  <2>1. job[u].path \in Paths /\ pc[u] \in CreatePlaces
    BY <1>1, <1>9, Types, Kinds, Zenon DEF Base
  <2>2. icache[job[u].path].mode = "dir"
    BY <2>1, Zenon DEF CallInv, CallOK
  <2>3. icache[job[u].path].block # b
    BY <1>2, <2>1, <2>2, Zenon DEF Copies
  <2>4. icache[job[u].path].block \in Blocks
    BY <2>1, <2>2, Types, InodeUpdate, Zenon DEF Base
  <2> QED  BY <1>1, <2>3, <2>4, Zenon
<1>10. ASSUME NEW q \in Paths, NEW r \in Slots, icache[q] # NoInode, InStore(q, r),
             \A u \in Tasks : pc'[u] \in Saving => job'[u].path # q
       PROVE  icache'[q].n = istore'[r].n
  <2>1. PICK s \in Slots : /\ \A x \in Slots : istore[x].ino = icache[q].ino <=> x = s
                           /\ (\A u \in Tasks : pc[u] \in Saving => job[u].path # q)
                                => icache[q].n = istore[s].n
    BY <1>10, SlotOf, Zenon
  <2> QED  BY <1>1, <1>10, <2>1, Zenon DEF InStore, SameInode
<1>11. CrashInv'
  BY <1>1, <1>4, <1>5, <1>6, <1>7, <1>8, <1>9, <1>10, KeptStep
<1> QED  BY <1>6, <1>11, Zenon

LEMMA DestroyStep ==
  ASSUME Inv, Base', NEW p \in Paths, destroy_inode(p)
  PROVE  CrashInv' /\ Kept
<1> USE DEF Inv, CrashInv
<1>1. /\ p # Root /\ icache'[p] = NoInode /\ \A q \in Paths : q # p => icache'[q] = icache[q]
      /\ UNCHANGED <<sb, istore, blk, dsb, distore, dblk, pc, job>>
      /\ \A name \in Names : Append(p, name) \in Paths => icache[Append(p, name)] = NoInode
      /\ \A u \in Tasks : pc[u] # "idle" => job[u].path # p
  BY Types, Zenon DEF destroy_inode, InUse, cache, disk, Base
<1>2. \A u \in Tasks : Moves(u) /\ Steady(u) /\ StillSaves(u) /\ NoNewInode(u)
  BY <1>1, Rests, Zenon
<1>3. Kept /\ CountInv' /\ StoreInv' /\ ApartInv'
  BY <1>1, <1>2, KeptVolume, KeptCount, KeptStore, KeptApart, Zenon
<1>4. RecordInv'
  BY <1>3, KeptRecords, Zenon
<1>5. ContentInv'
  <2>1. \A q \in Paths : Known(icache'[q])
    BY <1>1, KnownCopies, Zenon DEF Known
  <2> QED  BY <1>1, <1>2, <2>1, KnownCopies, JobsKnown, KeptContent, Zenon
<1>6. CacheInv'
  <2>1. icache'[Root].ino \in {0, RootIno}
    BY <1>1, RootPath, Zenon DEF CacheInv
  <2>2. ASSUME NEW q \in Paths, icache'[q] # NoInode
        PROVE  /\ icache'[q].ino # 0
               /\ \E r \in Slots :
                    /\ InStore(q, r)'
                    /\ (\A u \in Tasks : pc'[u] \in Saving => job'[u].path # q) => icache'[q].n = istore'[r].n
    <3>1. icache'[q] = icache[q]
      BY <1>1, <2>2, Zenon
    <3>2. \A r \in Slots : InStore(q, r) => InStore(q, r)'
      BY <1>1, <1>3, <3>1, Zenon DEF InStore, Kept
    <3> QED  BY <1>1, <2>2, <3>1, <3>2, Zenon DEF CacheInv
  <2>3. \A q, r \in Paths : icache'[q].ino = icache'[r].ino /\ icache'[q].ino # 0 => q = r
    <3> SUFFICES ASSUME NEW q \in Paths, NEW r \in Paths, icache'[q].ino = icache'[r].ino, icache'[q].ino # 0
                 PROVE  q = r
      BY Zenon
    <3>1. q # p /\ r # p
      BY <1>1, NoInodeType, Zenon
    <3> QED  BY <1>1, <3>1, OnePath, Zenon
  <2>4. ASSUME NEW d \in Paths, NEW name \in Names, Append(d, name) \in Paths,
               icache'[Append(d, name)] # NoInode
        PROVE  Reached(d, name)'
    <3>1. icache'[Append(d, name)] = icache[Append(d, name)] /\ icache[Append(d, name)] # NoInode
      BY <1>1, <2>4, Zenon
    <3>2. icache'[d] = icache[d]
      BY <1>1, <2>4, <3>1, Zenon
    <3>3. Reached(d, name)
      BY <2>4, <3>1, Zenon DEF CacheInv
    <3> QED  BY <1>1, <3>1, <3>2, <3>3, Zenon DEF Reached, Visible, Record
  <2> QED  BY <2>1, <2>2, <2>3, <2>4, Zenon DEF CacheInv
<1>7. ASSUME NEW u \in Tasks PROVE CallOK(u)' /\ AheadOK(u)'
  <2>1. CallOK(u) /\ AheadOK(u)
    BY Zenon DEF CallInv
  <2>2. CASE pc[u] = "idle"
    BY <1>1, <2>2, Zenon DEF CallOK, AheadOK, WritePlaces, CreatePlaces, Recorded, Counted
  <2>3. CASE pc[u] # "idle"
    <3>1. icache'[job[u].path] = icache[job[u].path]
      BY <1>1, <2>3, Types, Zenon DEF Base
    <3>2. AheadOK(u)'
      BY <1>1, <2>1, <3>1, Zenon DEF AheadOK, Record
    <3>3. Child(u) \in Paths /\ icache[Child(u)] = NoInode => icache'[Child(u)] = NoInode
      BY <1>1, Zenon
    <3>4. Child(u)' = Child(u)
      BY <1>1, Zenon DEF Child
    <3>5. CallOK(u)'
      BY <1>1, <2>1, <3>1, <3>3, <3>4, ZenonT(30) DEF CallOK, NameNew, Visible, Record
    <3> QED  BY <3>2, <3>5, Zenon
  <2> QED  BY <2>2, <2>3, Zenon
<1>8. CallInv'
  BY <1>7, Zenon DEF CallInv
<1> QED  BY <1>3, <1>4, <1>5, <1>6, <1>8, Zenon

\* What is on the disk when the volume is mounted again: all but the empty inode of
\* a create that a crash cut off.
Survives ==
  /\ \A s \in Slots : /\ distore'[s] \in {istore[s], distore[s]}
                      /\ distore'[s] = istore[s] \/ (distore'[s].n = 0 /\ InFlight(s))
                      /\ Settled(s) \/ distore'[s].n > 0 => s < dsb'.count
  /\ dsb'.free = sb.free /\ UNCHANGED dblk

\* An inode that is settled, or has contents on the disk, is on the disk.
LEMMA SettledOnDisk ==
  ASSUME Inv, NEW s \in Slots, Settled(s) \/ distore[s].n > 0
  PROVE  Settled(s) /\ s < dsb.count /\ distore[s] = istore[s]
<1> USE DEF Inv, CrashInv
<1>1. Settled(s)
  <2> SUFFICES ASSUME distore[s].n > 0 PROVE Settled(s)
    OBVIOUS
  <2>1. distore[s].n # 0
    OBVIOUS
  <2>2. distore[s] = istore[s] /\ s < sb.count
    BY <2>1, Zenon DEF StoreInv
  <2>3. ASSUME NEW t \in Tasks, pc[t] \in Adding, job[t].count = s PROVE FALSE
    <3>1. istore[s] = NewInode(job[t])
      BY <2>3, Zenon DEF CountInv
    <3> QED  BY <2>1, <2>2, <3>1 DEF NewInode, Inode
  <2> QED  BY <2>2, <2>3, Zenon DEF Settled, InFlight
<1>2. s < dsb.count
  <2>1. CASE dsb.count = sb.count
    BY <1>1, <2>1, Zenon DEF Settled
  <2>2. CASE dsb.count # sb.count
    <3>1. PICK t \in Tasks : pc[t] = "a_sync"
      BY <2>2, Zenon DEF CountInv
    <3>2. pc[t] \in Adding
      BY <3>1, Zenon DEF Adding
    <3>3. dsb.count + 1 = sb.count /\ sb.count = job[t].count + 1
      BY <3>1, <3>2, Zenon DEF CountInv
    <3>4. job[t].count # s /\ s < sb.count
      BY <1>1, <3>2, Zenon DEF Settled, InFlight
    <3>5. job[t].count \in Nat /\ dsb.count \in Nat /\ sb.count \in Nat /\ s \in Nat
      BY Types DEF Base, Slots
    <3> QED  BY <3>3, <3>4, <3>5
  <2> QED  BY <2>1, <2>2, Zenon
<1> QED  BY <1>1, <1>2, Zenon DEF StoreInv, Settled

LEMMA CrashSurvives == ASSUME Inv, UNCHANGED <<dsb, distore, dblk>> PROVE Survives
<1>1. dsb'.free = sb.free
  BY Zenon DEF Inv, Base, NumberInv
<1> QED  BY <1>1, SettledOnDisk, Zenon DEF Survives, Inv, CrashInv, StoreInv

LEMMA UnmountSurvives ==
  ASSUME Inv, dsb' = sb, distore' = istore, UNCHANGED dblk PROVE Survives
BY Zenon DEF Survives, Settled, Inv, CrashInv, StoreInv

LEMMA MountStep ==
  ASSUME Inv, Base', Survives, mount
  PROVE  CrashInv' /\ Kept
<1> USE DEF Inv, CrashInv
<1>1. /\ sb' = dsb' /\ istore' = distore' /\ blk' = dblk /\ dblk' = dblk /\ sb'.free = sb.free
      /\ \A u \in Tasks : pc'[u] = "idle"
  BY Zenon DEF mount, Survives
<1>2. PICK i \in get_inode(sb'.count, istore', RootIno) :
        icache' = [p \in Paths |-> IF p = Root THEN i ELSE NoInode]
  BY Zenon DEF mount, OnlyRoot
<1>3. PICK s \in Slots : s < sb'.count /\ istore'[s] = i /\ i.ino = RootIno
  BY Zenon DEF get_inode
<1>4. icache'[Root] = i /\ \A p \in Paths : p # Root => icache'[p] = NoInode
  BY <1>2, RootPath, Zenon
<1>5. \A u \in Tasks : /\ pc'[u] \notin Adding /\ pc'[u] \notin NumberedPlaces /\ pc'[u] \notin AllocatedPlaces
                       /\ pc'[u] \notin CreatePlaces /\ pc'[u] \notin WritePlaces /\ pc'[u] \notin Recorded
                       /\ pc'[u] \notin Counted /\ pc'[u] \notin {"iget", "oops", "a_sync"}
  BY <1>1, Kinds, Zenon
<1>6. \A r \in Slots : Settled(r)' <=> r < sb'.count
  BY <1>5, Zenon DEF Settled, InFlight
<1>7. \A r \in Slots : Settled(r) => istore'[r] = istore[r]
  BY <1>1, Zenon DEF Survives, Settled
<1>8. \A r \in Slots, c \in Cells : Visible(r, c) =>
        /\ istore'[r] = istore[r] /\ Record(r, c)' = Record(r, c)
  <2> TAKE r \in Slots, c \in Cells
  <2> HAVE Visible(r, c)
  <2>1. istore'[r] = istore[r]
    BY <1>7, VisibleSettled, Zenon
  <2>2. blk[istore[r].block] = dblk[istore[r].block]
    BY Zenon DEF Visible, ContentInv, Contents, Copies
  <2> QED  BY <1>1, <2>1, <2>2, Zenon DEF Record
<1>9. \A r \in Slots, c \in Cells : Visible(r, c)' => Visible(r, c)
  <2> TAKE r \in Slots, c \in Cells
  <2> HAVE Visible(r, c)'
  <2>1. distore'[r].n # 0
    BY <1>1 DEF Visible, Cells
  <2>2. istore'[r] = istore[r]
    BY <1>1, <2>1, Zenon DEF Survives
  <2> QED  BY <2>2, Zenon DEF Visible
<1>10. Kept
  <2>1. \A r \in Slots : Settled(r) => Settled(r)'
    BY <1>1, <1>6, Zenon DEF Survives
  <2> QED  BY <1>7, <1>8, <1>9, <2>1, Zenon DEF Kept, SameInode, Visible
<1>11. CountInv'
  BY <1>1, <1>5, Zenon DEF CountInv
<1>12. StoreInv'
  <2>1. \A r \in Slots : istore'[r] = istore[r] \/ istore'[r].n = 0
    BY <1>1, Zenon DEF Survives
  <2>2. BlockCells \in Nat
    BY LayoutAssumption, Zenon
  <2>3. \A r \in Slots : istore'[r].n > 0 => r < sb'.count
    BY <1>1, Zenon DEF Survives
  <2>4. \A r \in Slots : istore'[r].mode = "dir" => istore'[r].n <= BlockCells
    BY <2>1, <2>2 DEF StoreInv
  <2> QED  BY <1>1, <2>3, <2>4, Zenon DEF StoreInv
<1>13. ContentInv'
  <2>1. \A r \in Slots : istore'[r] \in Copies /\ distore'[r] = istore'[r]
    BY <1>1, Zenon DEF Survives, Copies
  <2>2. ASSUME NEW j \in Copies' PROVE j \in Copies \/ j = NoInode
    BY <1>3, <1>4, <1>5, <2>1, <2>2 DEF Copies
  <2>3. ASSUME NEW j \in Copies' PROVE Contents(j)'
    <3>1. Contents(j)
      BY <2>2, KnownContents, Zenon DEF Known, SameInode
    <3> QED  BY <1>1, <3>1, Zenon DEF Contents
  <2>4. \A b \in Blocks : IsFree(sb'.free, b) => \A c \in Cells : blk'[b][c] = Zero /\ dblk'[b][c] = Zero
    BY <1>1, Zenon DEF ContentInv
  <2> QED  BY <2>3, <2>4, Zenon DEF ContentInv
<1>14. RecordInv'
  BY <1>10, KeptRecords, Zenon
<1>15. CacheInv'
  <2>1. i.ino = 1 /\ RootIno = 1
    BY <1>3, Zenon DEF RootIno
  <2>2. InStore(Root, s)' /\ icache'[Root].n = istore'[s].n
    BY <1>3, <1>4, <1>6, Zenon DEF InStore, SameInode
  <2>3. \A p \in Paths : icache'[p] # NoInode => p = Root
    BY <1>4, Zenon
  <2>4. \A p, q \in Paths : icache'[p].ino = icache'[q].ino /\ icache'[p].ino # 0 => p = q
    BY <1>4, NoInodeType, Zenon
  <2>5. \A d \in Paths, name \in Names :
          Append(d, name) \in Paths /\ icache'[Append(d, name)] # NoInode => Reached(d, name)'
    BY <2>3, ChildNotRoot, Zenon
  <2>6. icache'[Root].ino \in {0, RootIno} /\ icache'[Root].ino # 0
    BY <1>4, <2>1
  <2> QED  BY <2>2, <2>3, <2>4, <2>5, <2>6, RootPath, Zenon DEF CacheInv
<1>16. CallInv' /\ ApartInv'
  BY <1>1, <1>5, Zenon DEF CallInv, CallOK, AheadOK, ApartInv
<1> QED  BY <1>10, <1>11, <1>12, <1>13, <1>14, <1>15, <1>16, Zenon

-------------------------------------------------------------------------------
(***************************************************************************)
(* Every step keeps the invariant, and all but the save that ends a create *)
(* keep the records and what they name.                                    *)
(***************************************************************************)
\* A create, or the save of a write, takes its next mutex.
LEMMA Advances ==
  ASSUME Inv, NEW t \in Tasks, job'[t] = job[t],
         <<pc[t], pc'[t]>> \in {<<"c_dir", "c_count">>, <<"c_count", "c_counting">>, <<"c_free", "c_alloc">>,
                                <<"a_mgmt", "a_sb">>, <<"a_sb", "a_store">>,
                                <<"c_save", "c_saving">>, <<"w_save", "w_saving">>}
  PROVE  Moves(t) /\ Steady(t) /\ StillSaves(t) /\ NoNewInode(t)
<1>1. Moves(t)
  BY Zenon DEF Moves, WritePlaces, CreatePlaces
<1>2. StillSaves(t) /\ NoNewInode(t)
  BY Zenon DEF StillSaves, NoNewInode, Saving, AllocatedPlaces, NumberedPlaces, DirPlaces, CreatePlaces
<1>3. pc'[t] \in NumberedPlaces \ {"c_new"} => job[t].count < MaxObjects
  <2>1. pc'[t] \in NumberedPlaces \ {"c_new"} => pc[t] \in NumberedPlaces \ {"c_new"}
    BY Zenon DEF NumberedPlaces, DirPlaces, CreatePlaces
  <2> QED  BY <2>1, Zenon DEF Inv, CrashInv, CountInv
<1>4. Steady(t)
  BY <1>3, Zenon DEF Steady, Adding, Recorded, Counted
<1> QED  BY <1>1, <1>2, <1>4, Zenon

\* ... or goes on without storing anything.
LEMMA TaskControl ==
  ASSUME Inv, Base', NEW t \in Tasks, UNCHANGED <<istore, blk, dblk, icache, sb, dsb, distore>>,
         \A u \in Tasks : u # t => pc'[u] = pc[u] /\ job'[u] = job[u],
         Moves(t) /\ Steady(t) /\ StillSaves(t) /\ NoNewInode(t)
  PROVE  CrashInv' /\ Kept
BY Rests, ControlStep, Zenon

LEMMA ControlSteps ==
  ASSUME Inv, Base', Signalled = {}, NEW t \in Tasks,
         \/ create_lock(t) \/ get_objects_count_lock(t) \/ get_objects_count(t) \/ new_inode(t)
         \/ get_a_freeblock_lock(t) \/ inode_add_lock(t) \/ inode_add_lock_sb(t) \/ inode_save_lock(t)
  PROVE  CrashInv' /\ Kept /\ UNCHANGED acked
<1> pc \in [Tasks -> Places] /\ job \in [Tasks -> JobType]
  BY Types, Zenon DEF Inv, Base
<1> USE DEF Goto, Takes, Interrupted, cache, disk
<1>1. CASE create_lock(t)
  BY <1>1, Advances, TaskControl, Zenon DEF create_lock
<1>2. CASE get_objects_count_lock(t)
  BY <1>2, Advances, TaskControl, Zenon DEF get_objects_count_lock
<1>3. CASE get_objects_count(t)
  <2>1. pc[t] = "c_counting" /\ pc'[t] = "c_new" /\ job'[t].path = job[t].path /\ job'[t].name = job[t].name
    BY <1>3, JobUpdate DEF get_objects_count
  <2>2. Moves(t)
    BY <2>1, Zenon DEF Moves, WritePlaces, CreatePlaces
  <2>3. Steady(t) /\ StillSaves(t) /\ NoNewInode(t)
    BY <2>1, Zenon DEF Steady, Adding, Recorded, Counted, StillSaves, NoNewInode, Saving, AllocatedPlaces,
       NumberedPlaces, DirPlaces, CreatePlaces
  <2> QED  BY <1>3, <2>2, <2>3, TaskControl, Zenon DEF get_objects_count
<1>4. CASE new_inode(t)
  <2>1. CASE job[t].count < MaxObjects /\ pc' = [pc EXCEPT ![t] = "c_free"] /\ UNCHANGED job
    <3>1. pc[t] = "c_new" /\ pc'[t] = "c_free" /\ job'[t] = job[t]
      BY <1>4, <2>1, Zenon DEF new_inode
    <3>2. Moves(t)
      BY <3>1, Zenon DEF Moves, WritePlaces, CreatePlaces
    <3>3. Steady(t) /\ StillSaves(t) /\ NoNewInode(t)
      BY <2>1, <3>1, Zenon DEF Steady, Adding, Recorded, Counted, StillSaves, NoNewInode, Saving, AllocatedPlaces,
         NumberedPlaces, DirPlaces, CreatePlaces
    <3> QED  BY <1>4, <2>1, <3>2, <3>3, TaskControl, Zenon DEF new_inode
  <2>2. CASE Return(t)
    <3>1. Moves(t) /\ Steady(t) /\ StillSaves(t) /\ NoNewInode(t)
      BY <1>4, <2>2, Returns, Zenon DEF new_inode, Return, Adding, Saving
    <3> QED  BY <1>4, <2>2, <3>1, TaskControl, Zenon DEF new_inode, Return
  <2> QED  BY <1>4, <2>1, <2>2, Zenon DEF new_inode
<1>5. CASE get_a_freeblock_lock(t)
  BY <1>5, Advances, TaskControl, Zenon DEF get_a_freeblock_lock
<1>6. CASE inode_add_lock(t)
  BY <1>6, Advances, TaskControl, Zenon DEF inode_add_lock
<1>7. CASE inode_add_lock_sb(t)
  BY <1>7, Advances, TaskControl, Zenon DEF inode_add_lock_sb
<1>8. CASE inode_save_lock(t)
  BY <1>8, Advances, TaskControl, Zenon DEF inode_save_lock
<1> QED  BY <1>1, <1>2, <1>3, <1>4, <1>5, <1>6, <1>7, <1>8, SMTT(20)

LEMMA AllocateStep ==
  ASSUME Inv, Base', NEW t \in Tasks, get_a_freeblock(t)
  PROVE  CrashInv' /\ Kept
<1>1. ASSUME NEW b \in Blocks, FirstFree(sb.free, b),
             job' = [job EXCEPT ![t].block = b], sb' = [sb EXCEPT !.free = @ \ ShiftMask(b)],
             dsb' = sb', Goto(t, "a_mgmt")
      PROVE  CrashInv' /\ Kept
  BY <1>1, FreeBlockStep, Zenon DEF get_a_freeblock, Goto
<1>2. CASE Return(t) /\ UNCHANGED <<sb, dsb>>
  <2>1. pc[t] = "c_alloc" /\ pc'[t] = "idle" /\ \A u \in Tasks : u # t => pc'[u] = pc[u] /\ job'[u] = job[u]
    BY <1>2, Types, Zenon DEF get_a_freeblock, Return, Goto, Inv, Base
  <2>2. Moves(t) /\ Steady(t) /\ StillSaves(t) /\ NoNewInode(t)
    BY <2>1, Returns, Zenon DEF Adding, Saving
  <2> QED  BY <1>2, <2>1, <2>2, TaskControl, Zenon DEF get_a_freeblock
<1> QED  BY <1>1, <1>2, Zenon DEF get_a_freeblock

LEMMA WritebackStep == ASSUME Inv, Base', writeback PROVE CrashInv' /\ Kept
<1>1. \A u \in Tasks : Moves(u) /\ Steady(u) /\ StillSaves(u) /\ NoNewInode(u)
  BY Rests, Zenon DEF writeback
<1> QED  BY <1>1, ControlStep, Zenon DEF writeback, cache

\* A save that ends a create is the one step that adds a record.
Ends(t) == inode_save(t) /\ pc[t] = "c_saving"

LEMMA CrashStep ==
  ASSUME Signalled = {}, Inv, [Next]_vars
  PROVE  Inv' /\ ((Kept /\ UNCHANGED acked) \/ \E t \in Tasks : Ends(t))
<1>0. Base'
  BY BaseStep, Zenon DEF Inv
<1> SUFFICES CrashInv' /\ ((Kept /\ UNCHANGED acked) \/ \E t \in Tasks : Ends(t))
  BY <1>0, Zenon DEF Inv
<1> USE <1>0
<1>1. ASSUME NEW t \in Tasks, Step(t)
      PROVE  CrashInv' /\ ((Kept /\ UNCHANGED acked) \/ \E u \in Tasks : Ends(u))
  <2>1. CASE \/ create_lock(t) \/ get_objects_count_lock(t) \/ get_objects_count(t) \/ new_inode(t)
             \/ get_a_freeblock_lock(t) \/ inode_add_lock(t) \/ inode_add_lock_sb(t) \/ inode_save_lock(t)
    BY <2>1, ControlSteps, Zenon
  <2>2. CASE get_a_freeblock(t)
    BY <2>2, AllocateStep, Zenon DEF get_a_freeblock
  <2>3. CASE inode_add(t)
    BY <2>3, InodeAddStep, Zenon DEF inode_add
  <2>4. CASE inode_add_sync(t)
    BY <2>4, AddSyncStep, Zenon DEF inode_add_sync
  <2>5. CASE add_record(t)
    BY <2>5, AddRecordStep, Zenon DEF add_record
  <2>6. CASE count_child(t)
    BY <2>6, CountChildStep, Zenon DEF count_child, Goto, Takes, Interrupted, cache, disk
  <2>7. CASE inode_save(t)
    <3>1. CASE pc[t] = "c_saving"
      BY <2>7, <3>1, SaveCreateStep, Zenon DEF Ends
    <3>2. CASE pc[t] = "w_saving"
      BY <2>7, <3>2, SaveWriteStep, Zenon
    <3> QED  BY <2>7, <3>1, <3>2, Zenon DEF inode_save
  <2>8. CASE write_lock(t)
    BY <2>8, WriteLockStep, Zenon DEF write_lock, Goto, Takes, Interrupted, cache, disk
  <2>9. CASE iget(t)
    BY <2>9, IgetStep, Zenon DEF iget
  <2> QED  BY <1>1, <2>1, <2>2, <2>3, <2>4, <2>5, <2>6, <2>7, <2>8, <2>9, SMTT(20) DEF Step
<1>2. ASSUME NEW t \in Tasks, Call(t) PROVE CrashInv' /\ Kept /\ UNCHANGED acked
  <2>1. ASSUME NEW d \in Paths, NEW name \in Names, lookup(t, d, name)
        PROVE  CrashInv' /\ Kept /\ UNCHANGED acked
    BY <2>1, LookupStep, Zenon DEF lookup
  <2>2. ASSUME NEW d \in Paths, NEW name \in Names, NEW mode \in {"dir", "reg"}, create(t, d, name, mode)
        PROVE  CrashInv' /\ Kept /\ UNCHANGED acked
    BY <2>2, CreateStep, Zenon DEF create
  <2>3. ASSUME NEW p \in Paths, NEW r \in Ranges, write(t, p, r[1], r[2])
        PROVE  CrashInv' /\ Kept /\ UNCHANGED acked
    <3>1. CrashInv' /\ Kept
      BY <2>3, WriteStep, Zenon
    <3>2. UNCHANGED acked
      BY <2>3, Zenon DEF write
    <3> QED  BY <3>1, <3>2, Zenon
  <2> QED  BY <1>2, <2>1, <2>2, <2>3, Zenon DEF Call
<1>3. CASE Kernel
  <2>1. CASE writeback
    BY <2>1, WritebackStep, Zenon DEF writeback
  <2>2. ASSUME NEW b \in Blocks, reclaim(b) PROVE CrashInv' /\ Kept /\ UNCHANGED acked
    BY <2>2, ReclaimStep, Zenon DEF reclaim
  <2>3. ASSUME NEW p \in Paths, destroy_inode(p) PROVE CrashInv' /\ Kept /\ UNCHANGED acked
    BY <2>3, DestroyStep, Zenon DEF destroy_inode
  <2> QED  BY <1>3, <2>1, <2>2, <2>3, Zenon DEF Kernel
<1>4. CASE kill_superblock
  BY <1>4, UnmountSurvives, MountStep, Zenon DEF kill_superblock, mount
<1>5. CASE crash
  BY <1>5, CrashSurvives, MountStep, Zenon DEF crash, mount, disk
<1>6. CASE UNCHANGED vars
  <2>1. UNCHANGED <<istore, blk, dblk, icache, sb, dsb, distore, pc, job, acked>>
    BY <1>6, Zenon DEF vars, cache, disk
  <2>2. \A u \in Tasks : Moves(u) /\ Steady(u) /\ StillSaves(u) /\ NoNewInode(u)
    BY <2>1, Rests, Zenon
  <2> QED  BY <2>1, <2>2, ControlStep, Zenon
<1> QED  BY <1>1, <1>2, <1>3, <1>4, <1>5, <1>6, Zenon DEF Next, Running

-------------------------------------------------------------------------------
(***************************************************************************)
(* A well-formed volume, mounted.                                          *)
(***************************************************************************)
LEMMA InitState ==
  ASSUME Init, WellFormed(Image)
  PROVE  /\ sb = Image.sb /\ istore = Image.istore /\ blk = Image.blk
         /\ dsb = sb /\ distore = istore /\ dblk = blk
         /\ \A t \in Tasks : pc[t] = "idle"
         /\ \A s \in Slots : IF s < sb.count THEN istore[s].ino > 0 ELSE istore[s] = NoInode
         /\ \E s \in Slots : /\ s < sb.count /\ icache[Root] = istore[s] /\ istore[s].ino = RootIno
                             /\ \A p \in Paths : p # Root => icache[p] = NoInode
<1>1. /\ sb = Image.sb /\ istore = Image.istore /\ blk = Image.blk
      /\ dsb = sb /\ distore = istore /\ dblk = blk
      /\ \A t \in Tasks : pc[t] = "idle"
  BY Zenon DEF Init, fill_super
<1>2. \A s \in Slots : IF s < sb.count THEN istore[s].ino > 0 ELSE istore[s] = NoInode
  <2> TAKE s \in Slots
  <2>1. istore[s].ino \in Nat
    BY <1>1, ImageAssumption, InodeUpdate, Zenon
  <2> QED  BY <1>1, <2>1, ImageAssumption, Zenon
<1>3. PICK i \in get_inode(sb.count, istore, RootIno) :
        icache = [p \in Paths |-> IF p = Root THEN i ELSE NoInode]
  BY Zenon DEF Init, fill_super, OnlyRoot
<1>4. PICK s \in Slots : s < sb.count /\ istore[s] = i /\ i.ino = RootIno
  BY Zenon DEF get_inode
<1>5. icache[Root] = istore[s] /\ \A p \in Paths : p # Root => icache[p] = NoInode
  BY <1>3, <1>4, RootPath, Zenon
<1> QED  BY <1>1, <1>2, <1>4, <1>5, Zenon

LEMMA InitCopies ==
  ASSUME Init, WellFormed(Image), NEW i \in Copies
  PROVE  i = NoInode \/ \E s \in Slots : s < sb.count /\ i = istore[s]
<1>1. \A t \in Tasks : pc[t] \notin AllocatedPlaces
  BY InitState, Kinds, Zenon
<1> QED  BY <1>1, InitState, Zenon DEF Copies

LEMMA CrashInit == ASSUME Init, WellFormed(Image) PROVE Inv
<1>1. /\ sb = Image.sb /\ istore = Image.istore /\ blk = Image.blk
      /\ dsb = sb /\ distore = istore /\ dblk = blk
      /\ \A t \in Tasks : pc[t] = "idle"
      /\ \A s \in Slots : IF s < sb.count THEN istore[s].ino > 0 ELSE istore[s] = NoInode
  BY InitState, Zenon
<1>2. PICK root \in Slots : /\ root < sb.count /\ icache[Root] = istore[root] /\ istore[root].ino = RootIno
                            /\ \A p \in Paths : p # Root => icache[p] = NoInode
  BY InitState, Zenon
<1>3. \A u \in Tasks : /\ pc[u] \notin Adding /\ pc[u] \notin NumberedPlaces /\ pc[u] \notin AllocatedPlaces
                       /\ pc[u] \notin CreatePlaces /\ pc[u] \notin WritePlaces /\ pc[u] \notin Recorded
                       /\ pc[u] \notin Counted /\ pc[u] \notin {"iget", "oops", "a_sync"}
  BY <1>1, Kinds, Zenon
<1>4. /\ \A s \in Slots : Settled(s) <=> s < sb.count
      /\ \A s \in Slots, c \in Cells : /\ Visible(s, c) => s < sb.count
                                       /\ Visible(s, c) <=> Listed(Image, s, c)
                                       /\ Record(s, c) = RecordAt(Image, s, c)
  BY <1>1, <1>3, NoInodeType, Zenon DEF Settled, InFlight, Visible, Listed, Record, RecordAt
<1>5. ASSUME NEW s \in Slots, s < sb.count
      PROVE  /\ istore[s].mode # "none" /\ ~IsFree(sb.free, istore[s].block)
             /\ \A r \in Slots : r < sb.count /\ istore[r].block = istore[s].block => r = s
             /\ istore[s].mode = "reg" => \A c \in Cells : blk[istore[s].block][c] \in {Zero, Data(istore[s].ino)}
             /\ istore[s].mode = "dir" => istore[s].n <= BlockCells
  BY <1>1, <1>5, Zenon DEF WellFormed, Live
<1>6. TypeOK /\ JobInv /\ LockInv /\ NumberInv
  BY TypeInit, LockInit, NumberInit, Zenon
<1>7. BlockInv(1)
  <2> SUFFICES ASSUME NEW i \in Copies, Since(1, i)
               PROVE  /\ ~IsFree(sb.free, i.block)
                      /\ \A j \in Copies : Since(1, j) /\ j.block = i.block => SameInode(i, j)
    BY Zenon DEF BlockInv
  <2>1. \A j \in Copies : Since(1, j) => \E s \in Slots : s < sb.count /\ j = istore[s]
    BY InitCopies, NoInodeType DEF Since
  <2> QED  BY <1>5, <2>1 DEF SameInode
<1>8. CountInv /\ CallInv /\ ApartInv
  BY <1>1, <1>3, Zenon DEF CountInv, CallInv, CallOK, AheadOK, ApartInv
<1>9. StoreInv
  BY <1>1, <1>5, NoInodeType DEF StoreInv, NoInode, Inode
<1>10. ContentInv
  <2>1. ASSUME NEW i \in Copies PROVE Contents(i)
    <3>1. CASE i = NoInode
      BY <3>1, NoInodeType, Zenon DEF Contents
    <3>2. ASSUME NEW s \in Slots, s < sb.count, i = istore[s] PROVE Contents(i)
      <4>1. i.ino # 0
        BY <1>1, <3>2
      <4> QED  BY <1>1, <1>5, <3>2, <4>1, Zenon DEF Contents
    <3> QED  BY <3>1, <3>2, InitCopies, Zenon
  <2>2. \A b \in Blocks : IsFree(sb.free, b) => \A c \in Cells : blk[b][c] = Zero /\ dblk[b][c] = Zero
    BY <1>1, Zenon DEF WellFormed
  <2> QED  BY <2>1, <2>2, Zenon DEF ContentInv
<1>11. RecordInv
  <2> SUFFICES ASSUME NEW s \in Slots, NEW c \in Cells, Visible(s, c)
               PROVE  /\ Record(s, c)[1] \notin {"nil", "data"}
                      /\ Record(s, c)[2] \notin {0, RootIno}
                      /\ \E u \in Slots : Settled(u) /\ istore[u].ino = Record(s, c)[2]
                      /\ \A r \in Slots, e \in Cells :
                           /\ Visible(r, e)
                           /\ Record(r, e)[2] = Record(s, c)[2] \/ (r = s /\ Record(r, e)[1] = Record(s, c)[1])
                           => r = s /\ e = c
    BY Zenon DEF RecordInv
  <2>1. s \in Live(Image.sb.count) /\ Listed(Image, s, c)
    BY <1>1, <1>4, Zenon DEF Live
  <2>2. /\ Record(s, c)[1] \notin {"nil", "data"} /\ Record(s, c)[2] # RootIno
        /\ \E u \in Slots : u < sb.count /\ istore[u].ino = Record(s, c)[2]
    <3>1. /\ RecordAt(Image, s, c)[1] \notin {"nil", "data"} /\ RecordAt(Image, s, c)[2] # RootIno
          /\ \E u \in Live(Image.sb.count) : Image.istore[u].ino = RecordAt(Image, s, c)[2]
      BY <2>1, Zenon DEF WellFormed
    <3> QED  BY <1>1, <1>4, <3>1, Zenon DEF Live
  <2>3. ASSUME NEW r \in Slots, NEW e \in Cells, Visible(r, e),
               Record(r, e)[2] = Record(s, c)[2] \/ (r = s /\ Record(r, e)[1] = Record(s, c)[1])
        PROVE  r = s /\ e = c
    <3>1. r \in Live(Image.sb.count) /\ Listed(Image, r, e)
      BY <1>1, <1>4, <2>3, Zenon DEF Live
    <3>2. RecordAt(Image, r, e) = Record(r, e) /\ RecordAt(Image, s, c) = Record(s, c)
      BY <1>4, Zenon
    <3>3. \/ RecordAt(Image, r, e)[2] = RecordAt(Image, s, c)[2]
          \/ r = s /\ RecordAt(Image, r, e)[1] = RecordAt(Image, s, c)[1]
      BY <2>3, <3>2, Zenon
    <3> QED  BY <2>1, <3>1, <3>3, SMTT(20) DEF WellFormed
  <2>4. Record(s, c)[2] # 0
    BY <1>1, <2>2
  <2> QED  BY <1>4, <2>2, <2>3, <2>4, Zenon
<1>12. CacheInv
  <2>1. istore[root].ino = 1 /\ RootIno = 1
    BY <1>2, Zenon DEF RootIno
  <2>2. InStore(Root, root) /\ icache[Root].n = istore[root].n
    BY <1>2, <1>4, Zenon DEF InStore, SameInode
  <2>3. \A p \in Paths : icache[p] # NoInode => p = Root
    BY <1>2, Zenon
  <2>4. \A p, q \in Paths : icache[p].ino = icache[q].ino /\ icache[p].ino # 0 => p = q
    BY <1>2, NoInodeType, Zenon
  <2>5. \A d \in Paths, name \in Names :
          Append(d, name) \in Paths /\ icache[Append(d, name)] # NoInode => Reached(d, name)
    BY <2>3, ChildNotRoot, Zenon
  <2>6. icache[Root].ino \in {0, RootIno} /\ icache[Root].ino # 0
    BY <1>2, <2>1
  <2> QED  BY <2>2, <2>3, <2>4, <2>5, <2>6, RootPath, Zenon DEF CacheInv
<1> QED  BY <1>6, <1>7, <1>8, <1>9, <1>10, <1>11, <1>12, Zenon DEF Inv, Base, CrashInv

\* The hypotheses of the theorems below: no wait is interrupted, and the volume that
\* is mounted first is well formed.
Sound == Signalled = {} /\ WellFormed(Image)

\* The invariant holds in all that a sound volume without signals can go through.
LEMMA CrashSafe == Sound /\ Spec => []Inv
<1>1. Sound /\ Init => Inv
  BY CrashInit, Zenon DEF Sound
<1>2. Sound /\ Inv /\ [Next]_vars => Inv'
  BY CrashStep, Zenon DEF Sound
<1>3. SUFFICES ASSUME Sound PROVE Spec => []Inv
  OBVIOUS
<1> QED  BY <1>1, <1>2, <1>3, PTL DEF Spec

-------------------------------------------------------------------------------
(***************************************************************************)
(* The names on the disk.                                                  *)
(***************************************************************************)
\* The records on the disk are those of the buffers, and each finds its inode.
LEMMA DiskRecords ==
  ASSUME Inv, NEW s \in Slots, NEW c \in Cells,
         Visible(s, c) \/ (distore[s].mode = "dir" /\ c < distore[s].n)
  PROVE  /\ Visible(s, c) /\ s < dsb.count /\ distore[s] = istore[s]
         /\ dblk[distore[s].block][c] = Record(s, c)
<1>1. Settled(s) \/ distore[s].n > 0
  <2>1. CASE Visible(s, c)
    BY <2>1, VisibleSettled, Zenon DEF Inv, CrashInv
  <2>2. CASE distore[s].mode = "dir" /\ c < distore[s].n
    BY <2>2, Types, InodeUpdate DEF Cells, Inv, Base
  <2> QED  BY <2>1, <2>2, Zenon
<1>2. s < dsb.count /\ distore[s] = istore[s]
  BY <1>1, SettledOnDisk, Zenon
<1>3. Visible(s, c)
  BY <1>2, Zenon DEF Visible
<1>4. blk[istore[s].block] = dblk[istore[s].block]
  BY <1>3, Zenon DEF Visible, Inv, CrashInv, ContentInv, Contents, Copies
<1> QED  BY <1>2, <1>3, <1>4, Zenon DEF Record

\* The inode that a record names.
Points(s, c, u) == Visible(s, c) /\ Settled(u) /\ istore[u].ino = Record(s, c)[2]

LEMMA RecordTarget ==
  ASSUME Inv, NEW s \in Slots, NEW c \in Cells, Visible(s, c)
  PROVE  \E u \in Slots : /\ Points(s, c, u) /\ istore[u].ino # 0
                          /\ get_inode(dsb.count, distore, Record(s, c)[2]) = {istore[u]}
                          /\ \A w \in Slots : istore[w].ino = Record(s, c)[2] => w = u
<1>1. PICK u \in Slots : Settled(u) /\ istore[u].ino = Record(s, c)[2] /\ istore[u].ino # 0
  BY Zenon DEF Inv, CrashInv, RecordInv
<1>2. u < dsb.count /\ distore[u] = istore[u]
  BY <1>1, SettledOnDisk, Zenon
<1>3. Numbered(istore) /\ Numbered(distore)
  BY Zenon DEF Inv, Base, NumberInv
<1>4. get_inode(dsb.count, distore, Record(s, c)[2]) = {istore[u]}
  <2>1. dsb.count \in Nat /\ distore[u].ino # 0
    BY <1>1, <1>2, Types, Zenon DEF Inv, Base
  <2>2. get_inode(dsb.count, distore, distore[u].ino) = {distore[u]}
    BY <1>2, <1>3, <2>1, GetInode, Zenon
  <2> QED  BY <1>1, <1>2, <2>2, Zenon
<1>5. \A w \in Slots : istore[w].ino = Record(s, c)[2] => w = u
  BY <1>1, <1>3, SlotOfNumber, Zenon
<1> QED  BY <1>1, <1>4, <1>5, Zenon DEF Points

EntryAt(s, c, u) ==
  [dir |-> istore[s].ino, name |-> Record(s, c)[1], ino |-> istore[u].ino, mode |-> istore[u].mode]

TreeIs ==
  \A e : e \in DiskTree <=> \E s, u \in Slots, c \in Cells : Points(s, c, u) /\ e = EntryAt(s, c, u)

LEMMA TreeEntries ==
  ASSUME Inv, NEW e
  PROVE  e \in DiskTree <=> \E s, u \in Slots, c \in Cells : Points(s, c, u) /\ e = EntryAt(s, c, u)
<1>1. e \in DiskTree <=>
        \E s \in Slots, c \in Cells :
          /\ s < dsb.count /\ distore[s].mode = "dir" /\ c < distore[s].n
          /\ \E i \in get_inode(dsb.count, distore, dblk[distore[s].block][c][2]) :
               e = [dir |-> distore[s].ino, name |-> dblk[distore[s].block][c][1],
                    ino |-> i.ino, mode |-> i.mode]
  <2> DEFINE Found(s, r) ==
               \E i \in get_inode(dsb.count, distore, r[2]) :
                 e = [dir |-> distore[s].ino, name |-> r[1], ino |-> i.ino, mode |-> i.mode]
             Read(s) == simplefs_iterate(OnDisk, distore[s])
  <2>1. e \in DiskTree <=>
          \E s \in Slots : s < dsb.count /\ e \in EntriesOf(OnDisk, distore[s])
    BY Zenon DEF DiskTree, TreeOf, OnDisk, Live
  <2>2. \A s \in Slots : e \in EntriesOf(OnDisk, distore[s]) <=> \E r \in Read(s) : Found(s, r)
    BY DEF EntriesOf, OnDisk
  <2>3. \A s \in Slots : \A r : r \in Read(s) <=>
          \E c \in Cells : /\ distore[s].mode = "dir" /\ c < distore[s].n
                           /\ r = dblk[distore[s].block][c]
    BY Zenon DEF simplefs_iterate, OnDisk
  <2> HIDE DEF Found, Read
  <2>4. \A s \in Slots : e \in EntriesOf(OnDisk, distore[s]) <=>
          \E c \in Cells : /\ distore[s].mode = "dir" /\ c < distore[s].n
                           /\ Found(s, dblk[distore[s].block][c])
    BY <2>2, <2>3
  <2>5. e \in DiskTree <=>
          \E s \in Slots, c \in Cells :
            /\ s < dsb.count /\ distore[s].mode = "dir" /\ c < distore[s].n
            /\ Found(s, dblk[distore[s].block][c])
    BY <2>1, <2>4, Zenon
  <2> QED  BY <2>5, Zenon DEF Found
<1>2. ASSUME NEW s \in Slots, NEW c \in Cells, distore[s].mode = "dir", c < distore[s].n,
             NEW i \in get_inode(dsb.count, distore, dblk[distore[s].block][c][2]),
             e = [dir |-> distore[s].ino, name |-> dblk[distore[s].block][c][1],
                  ino |-> i.ino, mode |-> i.mode]
      PROVE  \E u \in Slots : Points(s, c, u) /\ e = EntryAt(s, c, u)
  <2>1. Visible(s, c) /\ distore[s] = istore[s] /\ dblk[distore[s].block][c] = Record(s, c)
    BY <1>2, DiskRecords, Zenon
  <2>2. PICK u \in Slots : /\ Points(s, c, u)
                           /\ get_inode(dsb.count, distore, Record(s, c)[2]) = {istore[u]}
    BY <2>1, RecordTarget, Zenon
  <2> QED  BY <1>2, <2>1, <2>2, Zenon DEF EntryAt
<1>3. ASSUME NEW s \in Slots, NEW u \in Slots, NEW c \in Cells, Points(s, c, u), e = EntryAt(s, c, u)
      PROVE  /\ s < dsb.count /\ distore[s].mode = "dir" /\ c < distore[s].n
             /\ \E i \in get_inode(dsb.count, distore, dblk[distore[s].block][c][2]) :
                  e = [dir |-> distore[s].ino, name |-> dblk[distore[s].block][c][1],
                       ino |-> i.ino, mode |-> i.mode]
  <2>1. /\ Visible(s, c) /\ s < dsb.count /\ distore[s] = istore[s]
        /\ dblk[distore[s].block][c] = Record(s, c)
    BY <1>3, DiskRecords, Zenon DEF Points
  <2>2. get_inode(dsb.count, distore, Record(s, c)[2]) = {istore[u]}
    BY <1>3, <2>1, RecordTarget, Zenon DEF Points
  <2>3. e = [dir |-> distore[s].ino, name |-> Record(s, c)[1], ino |-> istore[u].ino, mode |-> istore[u].mode]
    BY <1>3, <2>1, Zenon DEF EntryAt
  <2> QED  BY <2>1, <2>2, <2>3, Zenon DEF Visible
<1> QED  BY <1>1, <1>2, <1>3

LEMMA TreeNow == Inv => TreeIs
BY TreeEntries, Zenon DEF TreeIs

LEMMA TreeNext == Inv' => TreeIs'
BY TreeNow, PTL

LEMMA TreeKept == ASSUME Inv, Inv', Kept PROVE DiskTree' = DiskTree
<1>1. ASSUME NEW s \in Slots, NEW c \in Cells, NEW u \in Slots, Points(s, c, u)
      PROVE  Points(s, c, u)' /\ EntryAt(s, c, u)' = EntryAt(s, c, u)
  <2>1. Visible(s, c)' /\ Record(s, c)' = Record(s, c)
    BY <1>1, Zenon DEF Kept, Points
  <2>2. SameInode(istore'[s], istore[s])
    BY <1>1, VisibleSettled, Zenon DEF Kept, Points, Inv, CrashInv
  <2>3. Settled(u)' /\ SameInode(istore'[u], istore[u])
    BY <1>1, Zenon DEF Kept, Points
  <2> QED  BY <1>1, <2>1, <2>2, <2>3, Zenon DEF Points, EntryAt, SameInode
<1>2. ASSUME NEW s \in Slots, NEW c \in Cells, NEW u \in Slots, Points(s, c, u)'
      PROVE  Points(s, c, u)
  <2>1. Visible(s, c)
    BY <1>2, Zenon DEF Kept, Points
  <2>2. PICK w \in Slots : Points(s, c, w)
    BY <2>1, RecordTarget, Zenon
  <2>3. Points(s, c, w)' /\ Record(s, c)'[2] # 0
    BY <1>1, <1>2, <2>2, SMTT(20) DEF Points, Inv, CrashInv, RecordInv
  <2>4. Numbered(istore')
    BY Zenon DEF Inv, Base, NumberInv
  <2>5. w = u
    BY <1>2, <2>3, <2>4, SlotOfNumber, Zenon DEF Points
  <2> QED  BY <2>2, <2>5, Zenon
<1>3. ASSUME NEW e PROVE e \in DiskTree' <=> e \in DiskTree
  <2>1. e \in DiskTree <=> \E s, u \in Slots, c \in Cells : Points(s, c, u) /\ e = EntryAt(s, c, u)
    BY TreeNow, Zenon DEF TreeIs
  <2>2. e \in DiskTree' <=> \E s, u \in Slots, c \in Cells : Points(s, c, u)' /\ e = EntryAt(s, c, u)'
    BY TreeNext, Zenon DEF TreeIs
  <2> QED  BY <1>1, <1>2, <2>1, <2>2
<1> QED  BY <1>3, Zenon

LEMMA EndsCreated ==
  ASSUME Inv, NEW t \in Tasks, Ends(t)
  PROVE  /\ \E p, child \in Paths, s, k \in Slots : Created(t, p, s, child, k)
         /\ acked' = acked \cup {Acknowledged(job[t])}
<1>1. pc[t] \in Adding /\ job[t].path \in Paths
  BY Types, Zenon DEF Ends, Adding, Inv, Base
<1>2. job[t].count \in Slots
  BY <1>1, FlightSlot, Zenon DEF Inv, Base, CrashInv
<1> QED  BY <1>1, <1>2, SaveCreateEffect DEF Ends, Created

\* The save that ends a create adds its entry to the tree.
LEMMA EndsTree ==
  ASSUME Inv, Inv', NEW t \in Tasks, Ends(t)
  PROVE  DiskTree' = DiskTree \cup {Acknowledged(job[t])}
<1>1. PICK p \in Paths, child \in Paths, s \in Slots, k \in Slots : Created(t, p, s, child, k)
  BY EndsCreated, Zenon
<1>2. /\ Completes(t, s) /\ istore'[s] = icache[p]
      /\ p = job[t].path /\ k = job[t].count
  BY <1>1, Zenon DEF Created
<1>3. PICK n \in Cells : n = istore[s].n
  BY <1>2, Zenon DEF Completes
<1>4. \A r \in Slots, c \in Cells : /\ Visible(r, c)' <=> Visible(r, c) \/ (r = s /\ c = n)
                                    /\ Record(r, c)' = Record(r, c)
  BY <1>2, <1>3, CompletesVisible, Zenon DEF Inv, Base
<1>5. /\ Settled(k)' /\ istore'[k] = istore[k] /\ istore[k] = NewInode(job[t])
      /\ NewInode(job[t]).ino = InodeNumber(k) /\ InodeNumber(k) # 0
      /\ \A r \in Slots : Settled(r) => Settled(r)'
  BY <1>1, CreatedFacts
<1>6. \A r \in Slots : istore'[r].ino = istore[r].ino /\ istore'[r].mode = istore[r].mode
  BY <1>2, Zenon DEF Completes, SameInode
<1>7. Record(s, n) = <<job[t].name, InodeNumber(k)>>
  BY <1>2, <1>3, Zenon DEF Completes
<1>8. ASSUME NEW r \in Slots, NEW c \in Cells, NEW u \in Slots, Points(r, c, u)
      PROVE  Points(r, c, u)' /\ EntryAt(r, c, u)' = EntryAt(r, c, u)
  BY <1>4, <1>5, <1>6, <1>8, Zenon DEF Points, EntryAt
<1>9. Points(s, n, k)' /\ EntryAt(s, n, k)' = Acknowledged(job[t])
  <2>1. Points(s, n, k)'
    BY <1>4, <1>5, <1>7 DEF Points
  <2>2. NewInode(job[t]).mode = job[t].mode
    BY Zenon DEF NewInode, Inode
  <2>3. /\ istore'[s].ino = icache[job[t].path].ino /\ Record(s, n)'[1] = job[t].name
        /\ istore'[k].ino = InodeNumber(job[t].count) /\ istore'[k].mode = job[t].mode
    BY <1>2, <1>4, <1>5, <1>7, <2>2, SMTT(20)
  <2> QED  BY <2>1, <2>3, Zenon DEF EntryAt, Acknowledged
<1>10. ASSUME NEW r \in Slots, NEW c \in Cells, NEW u \in Slots, Points(r, c, u)'
       PROVE  Points(r, c, u) \/ (r = s /\ c = n /\ u = k)
  <2>1. CASE Visible(r, c)
    <3>1. PICK w \in Slots : /\ Points(r, c, w)
                             /\ \A v \in Slots : istore[v].ino = Record(r, c)[2] => v = w
      BY <2>1, RecordTarget, Zenon
    <3>2. istore[u].ino = Record(r, c)[2]
      BY <1>4, <1>6, <1>10, Zenon DEF Points
    <3> QED  BY <3>1, <3>2, Zenon
  <2>2. CASE r = s /\ c = n
    <3>1. istore[u].ino = istore[k].ino /\ istore[k].ino # 0
      <4>1. istore[u].ino = Record(s, n)[2]
        BY <1>4, <1>6, <1>10, <2>2, Zenon DEF Points
      <4> QED  BY <1>5, <1>7, <4>1
    <3>2. Numbered(istore)
      BY Zenon DEF Inv, Base, NumberInv
    <3> QED  BY <2>2, <3>1, <3>2, SlotOfNumber, Zenon
  <2> QED  BY <1>4, <1>10, <2>1, <2>2, Zenon DEF Points
<1>11. ASSUME NEW e PROVE e \in DiskTree' <=> e \in DiskTree \/ e = Acknowledged(job[t])
  <2>1. e \in DiskTree <=> \E r, u \in Slots, c \in Cells : Points(r, c, u) /\ e = EntryAt(r, c, u)
    BY TreeNow, Zenon DEF TreeIs
  <2>2. e \in DiskTree' <=> \E r, u \in Slots, c \in Cells : Points(r, c, u)' /\ e = EntryAt(r, c, u)'
    BY TreeNext, Zenon DEF TreeIs
  <2> QED  BY <1>8, <1>9, <1>10, <2>1, <2>2, SMTT(20)
<1> QED  BY <1>11, Zenon

\* Its name is new in its directory, its number is new, and the directory is the root
\* or has an entry.
LEMMA EndsNew ==
  ASSUME Inv, NEW t \in Tasks, Ends(t)
  PROVE  /\ job[t].name \in Names /\ job[t].mode \in {"dir", "reg"}
         /\ InodeNumber(job[t].count) # RootIno
         /\ \A e \in DiskTree : /\ e.ino # InodeNumber(job[t].count)
                                /\ ~(e.dir = icache[job[t].path].ino /\ e.name = job[t].name)
         /\ \/ icache[job[t].path].ino = RootIno
            \/ \E e \in DiskTree : e.mode = "dir" /\ e.ino = icache[job[t].path].ino
<1>1. PICK p \in Paths, child \in Paths, s \in Slots, k \in Slots : Created(t, p, s, child, k)
  BY EndsCreated, Zenon
<1>2. /\ p = job[t].path /\ k = job[t].count /\ job[t].name \in Names
      /\ \A r \in Slots : istore[r].ino = icache[p].ino <=> r = s
      /\ icache[p] # NoInode /\ icache[p].ino # 0
  <2>1. job[t].name \in Names /\ icache[p] # NoInode /\ icache[p].ino # 0
    BY <1>1, CreatedFacts
  <2> QED  BY <1>1, <2>1, Zenon DEF Created
<1>3. pc[t] \in Adding /\ pc[t] \in CreatePlaces
  BY Zenon DEF Ends, Adding, CreatePlaces
<1>4. job[t].mode \in {"dir", "reg"}
  BY <1>3, Zenon DEF Inv, Base, JobInv
<1>5. InodeNumber(job[t].count) # RootIno
  BY <1>3, FlightSlot, Zenon DEF Inv, Base, CrashInv
<1>6. icache[p].mode = "dir" /\ NameNew(s, job[t].name)
  BY <1>2, <1>3, Zenon DEF Inv, CrashInv, CallInv, CallOK
<1>7. ASSUME NEW e \in DiskTree
      PROVE  /\ e.ino # InodeNumber(job[t].count)
             /\ ~(e.dir = icache[job[t].path].ino /\ e.name = job[t].name)
  <2>1. PICK r \in Slots, u \in Slots, c \in Cells : Points(r, c, u) /\ e = EntryAt(r, c, u)
    BY TreeNow, Zenon DEF TreeIs
  <2>2. e.ino = Record(r, c)[2] /\ e.dir = istore[r].ino /\ e.name = Record(r, c)[1] /\ Visible(r, c)
    BY <2>1, Zenon DEF Points, EntryAt
  <2>3. e.ino # InodeNumber(job[t].count)
    BY <1>3, <2>2, NewTarget, Zenon
  <2> QED  BY <1>2, <1>6, <2>2, <2>3, Zenon DEF NameNew, Visible
<1>8. CASE p # Root
  <2>1. PICK d \in Paths, name \in Names : p = Append(d, name)
    BY <1>8, HasParent, Zenon
  <2>2. PICK r \in Slots, c \in Cells :
               Visible(r, c) /\ Record(r, c) = <<name, icache[Append(d, name)].ino>>
    BY <1>2, <2>1 DEF Inv, CrashInv, CacheInv, Reached
  <2>3. PICK u \in Slots : Points(r, c, u) /\ \A w \in Slots : istore[w].ino = Record(r, c)[2] => w = u
    BY <2>2, RecordTarget, Zenon
  <2>4. u = s
    BY <1>2, <2>1, <2>2, <2>3
  <2>5. istore[s].mode = "dir"
    BY <1>1, <1>6, Zenon DEF Created, InStore, SameInode
  <2>6. EntryAt(r, c, u) \in DiskTree
    BY <2>3, TreeNow, Zenon DEF TreeIs
  <2>7. EntryAt(r, c, u).mode = "dir" /\ EntryAt(r, c, u).ino = icache[job[t].path].ino
    BY <1>2, <2>4, <2>5, Zenon DEF EntryAt
  <2> QED  BY <1>2, <1>4, <1>5, <1>7, <2>6, <2>7, Zenon
<1>9. CASE p = Root
  <2>1. icache[job[t].path].ino = RootIno
    BY <1>2, <1>9, Zenon DEF Inv, CrashInv, CacheInv
  <2> QED  BY <1>2, <1>4, <1>5, <1>7, <2>1, Zenon
<1> QED  BY <1>8, <1>9, Zenon

-------------------------------------------------------------------------------
(***************************************************************************)
(* The theorems: for every number of tasks, every interleaving of their    *)
(* creates, lookups and writes, of writeback, reclaim and remount, and a   *)
(* crash anywhere.                                                         *)
(***************************************************************************)
\* simplefs_iget never dereferences a missing inode: every record that a lookup
\* meets names an inode that simplefs_get_inode finds.
THEOREM IgetFindsInode == Sound /\ Spec => []NoOops
<1>1. Inv => NoOops
  BY Zenon DEF Inv, CrashInv, CallInv, CallOK, NoOops
<1> QED  BY <1>1, CrashSafe, PTL

\* Between operations the in-memory inode of a path is the one in the store, count
\* included, so that simplefs_destory_inode may drop it.
THEOREM CacheAlwaysCoherent == Sound /\ Spec => []CacheCoherent
<1>1. Inv => CacheCoherent
  <2> SUFFICES ASSUME Inv, NEW p \in Paths, icache[p] # NoInode,
                      \A t \in Tasks : pc[t] # "idle" => job[t].path # p
               PROVE  icache[p] \in get_inode(sb.count, istore, icache[p].ino)
    BY Zenon DEF CacheCoherent
  <2>1. \A t \in Tasks : pc[t] \in Saving => job[t].path # p
    BY Zenon DEF Saving
  <2>2. PICK s \in Slots : InStore(p, s) /\ icache[p].n = istore[s].n
    BY <2>1, SlotOf, Zenon DEF Inv, CrashInv
  <2>3. icache[p] \in InodeType /\ istore[s] \in InodeType
    BY Types, Zenon DEF Inv, Base
  <2>4. icache[p] = istore[s]
    BY <2>2, <2>3 DEF InStore, SameInode, InodeType
  <2>5. s < sb.count /\ sb.count \in Nat /\ istore[s].ino # 0
    BY <2>2, <2>4, Types, Zenon DEF InStore, Settled, Inv, Base, CrashInv, CacheInv
  <2>6. Numbered(istore)
    BY Zenon DEF Inv, Base, NumberInv
  <2> QED  BY <2>4, <2>5, <2>6, GetInode
<1> QED  BY <1>1, CrashSafe, PTL

\* No read returns what was written through another file and no listing emits what is
\* not a record, before a crash or after it.
THEOREM ReadsIsolated == Sound /\ Spec => []BlocksIsolated
<1>1. ASSUME Inv, NEW v \in {Cached, OnDisk}, NEW s \in Live(v.sb.count)
      PROVE  /\ v.istore[s].mode = "reg" => \A pos \in Cells, len \in 0..BlockCells :
                  simplefs_read(v, v.istore[s], pos, len) \subseteq {Zero, Data(v.istore[s].ino)}
             /\ \A r \in simplefs_iterate(v, v.istore[s]) : r[1] \notin {"nil", "data"}
  <2>1. s \in Slots
    BY Zenon DEF Live
  <2>2. v.istore[s] \in Copies /\ v.istore[s] \in {istore[s], distore[s]}
    BY <1>1, <2>1 DEF Cached, OnDisk, Copies
  <2>3. Contents(v.istore[s])
    BY <1>1, <2>2, Zenon DEF Inv, CrashInv, ContentInv
  <2>4. ASSUME v.istore[s].mode = "reg", NEW c \in Cells
        PROVE  v.blk[v.istore[s].block][c] \in {Zero, Data(v.istore[s].ino)}
    BY <1>1, <2>3, <2>4 DEF Contents, Cached, OnDisk
  <2>5. ASSUME NEW c \in Cells, v.istore[s].mode = "dir", c < v.istore[s].n
        PROVE  v.blk[v.istore[s].block][c][1] \notin {"nil", "data"}
    <3>1. CASE v = Cached
      BY <1>1, <2>1, <2>5, <3>1, Zenon DEF Cached, Visible, Record, Inv, CrashInv, RecordInv
    <3>2. CASE v = OnDisk
      <4>0. distore[s].mode = "dir" /\ c < distore[s].n
        BY <2>5, <3>2, Zenon DEF OnDisk
      <4>1. Visible(s, c) /\ dblk[distore[s].block][c] = Record(s, c)
        BY <1>1, <2>1, <4>0, DiskRecords, Zenon
      <4>2. Record(s, c)[1] \notin {"nil", "data"}
        BY <1>1, <2>1, <4>1, Zenon DEF Inv, CrashInv, RecordInv
      <4> QED  BY <3>2, <4>1, <4>2, Zenon DEF OnDisk
    <3> QED  BY <1>1, <3>1, <3>2, Zenon
  <2> QED  BY <2>4, <2>5, Zenon DEF simplefs_read, simplefs_iterate
<1>2. Inv => BlocksIsolated
  BY <1>1, Zenon DEF BlocksIsolated
<1> QED  BY <1>2, CrashSafe, PTL

\* Wherever the machine stops between the writes of simplefs_create_fs_object, every
\* name on the disk leads to an inode there whose block is not offered again.
THEOREM DiskAlwaysConsistent == Sound /\ Spec => []DiskConsistent
<1>1. ASSUME Inv, NEW s \in Slots, NEW c \in Cells, distore[s].mode = "dir", c < distore[s].n
      PROVE  \E i \in get_inode(dsb.count, distore, dblk[distore[s].block][c][2]) :
               i.mode # "none" /\ ~IsFree(dsb.free, i.block)
  <2>1. Visible(s, c) /\ dblk[distore[s].block][c] = Record(s, c)
    BY <1>1, DiskRecords, Zenon
  <2>2. PICK u \in Slots : /\ istore[u].ino # 0
                           /\ get_inode(dsb.count, distore, Record(s, c)[2]) = {istore[u]}
    BY <1>1, <2>1, RecordTarget, Zenon
  <2>3. istore[u] \in Copies
    BY Zenon DEF Copies
  <2>4. istore[u].mode # "none"
    BY <1>1, <2>2, <2>3, SMTT(20) DEF Inv, CrashInv, ContentInv, Contents
  <2>5. ~IsFree(sb.free, istore[u].block)
    BY <1>1, <2>2, <2>3, OwnBlock, Zenon DEF Inv, Base
  <2>6. sb.free = dsb.free
    BY <1>1, Zenon DEF Inv, Base, NumberInv
  <2> QED  BY <2>1, <2>2, <2>4, <2>5, <2>6, Zenon
<1>2. Inv => DiskConsistent
  <2> SUFFICES ASSUME Inv, NEW s \in Live(dsb.count), NEW r \in simplefs_iterate(OnDisk, distore[s])
               PROVE  \E i \in get_inode(dsb.count, distore, r[2]) :
                        i.mode # "none" /\ ~IsFree(dsb.free, i.block)
    BY Zenon DEF DiskConsistent
  <2>1. s \in Slots
    BY Zenon DEF Live
  <2>2. PICK c \in Cells : /\ distore[s].mode = "dir" /\ c < distore[s].n
                           /\ r = dblk[distore[s].block][c]
    BY Zenon DEF simplefs_iterate, OnDisk
  <2> QED  BY <1>1, <2>1, <2>2, Zenon
<1> QED  BY <1>2, CrashSafe, PTL

\* A create or mkdir that returned 0 is on the disk, under its name, from then on:
\* a crash loses none of them.
THEOREM AckedAlwaysDurable == Sound /\ Spec => []AckedDurable
<1>1. Init => AckedDurable
  BY Zenon DEF Init, AckedDurable
<1>2. Sound /\ Inv /\ AckedDurable /\ [Next]_vars => AckedDurable'
  <2> SUFFICES ASSUME Sound, Inv, AckedDurable, [Next]_vars PROVE AckedDurable'
    OBVIOUS
  <2>1. Inv' /\ ((Kept /\ UNCHANGED acked) \/ \E t \in Tasks : Ends(t))
    BY CrashStep, Zenon DEF Sound
  <2>2. CASE Kept /\ UNCHANGED acked
    BY <2>1, <2>2, TreeKept, Zenon DEF AckedDurable
  <2>3. ASSUME NEW t \in Tasks, Ends(t) PROVE AckedDurable'
    BY <2>1, <2>3, EndsCreated, EndsTree, Zenon DEF AckedDurable
  <2> QED  BY <2>1, <2>2, <2>3, Zenon
<1>3. SUFFICES ASSUME Sound PROVE Spec => []AckedDurable
  OBVIOUS
<1>4. Spec => []Inv
  BY <1>3, CrashSafe, Zenon
<1> QED  BY <1>1, <1>2, <1>3, <1>4, PTL DEF Spec

\* The tree of names on the disk implements SimplefsNamespace: it grows by whole
\* objects, under new names and numbers and below directories that are in it, and
\* nothing else ever happens to it, crashes included.
THEOREM NamespaceImplemented == Sound /\ Spec => NamespaceRefined
<1>1. Init => Namespace!Init
  <2> SUFFICES ASSUME Init PROVE DiskTree = TreeOf(Image)
    BY Zenon DEF Namespace!Init
  <2>1. dsb = Image.sb /\ distore = Image.istore /\ dblk = Image.blk
    BY Zenon DEF Init, fill_super
  <2>2. Image = [sb |-> Image.sb, istore |-> Image.istore, blk |-> Image.blk]
    BY ImageAssumption, Zenon
  <2>3. OnDisk = Image
    BY <2>1, <2>2, Zenon DEF OnDisk
  <2> QED  BY <2>3, Zenon DEF DiskTree
<1>2. Sound /\ Inv /\ [Next]_vars => [Namespace!Next]_DiskTree
  <2> SUFFICES ASSUME Sound, Inv, [Next]_vars PROVE [Namespace!Next]_DiskTree
    OBVIOUS
  <2>1. Inv' /\ (Kept \/ \E t \in Tasks : Ends(t))
    BY CrashStep, Zenon DEF Sound
  <2>2. CASE Kept
    BY <2>1, <2>2, TreeKept, Zenon
  <2>3. ASSUME NEW t \in Tasks, Ends(t) PROVE Namespace!Next
    <3> DEFINE e == Acknowledged(job[t])
    <3>1. /\ e.dir = icache[job[t].path].ino /\ e.name = job[t].name
          /\ e.ino = InodeNumber(job[t].count) /\ e.mode = job[t].mode
          /\ e = [dir |-> e.dir, name |-> e.name, ino |-> e.ino, mode |-> e.mode]
      BY Zenon DEF Acknowledged
    <3>2. DiskTree' = DiskTree \cup {e}
      BY <2>1, <2>3, EndsTree, Zenon
    <3>3. /\ e.name \in Names /\ e.mode \in {"dir", "reg"} /\ e.ino # RootIno
          /\ \A f \in DiskTree : f.ino # e.ino /\ ~(f.dir = e.dir /\ f.name = e.name)
          /\ e.dir = RootIno \/ \E f \in DiskTree : f.mode = "dir" /\ f.ino = e.dir
      BY <2>3, <3>1, EndsNew
    <3> HIDE DEF e
    <3>4. e \in DiskTree' \ DiskTree
      BY <3>2, <3>3, Zenon
    <3>5. e.dir \in Namespace!Directories
      BY <3>3, Zenon DEF Namespace!Directories
    <3>6. Namespace!Create(e.dir, e.name, e.ino, e.mode)
      BY <3>1, <3>2, <3>3, <3>5, Zenon DEF Namespace!Create, Namespace!Entry
    <3> QED  BY <3>3, <3>4, <3>6, Zenon DEF Namespace!Next
  <2> QED  BY <2>1, <2>2, <2>3, Zenon
<1>3. SUFFICES ASSUME Sound PROVE Spec => NamespaceRefined
  OBVIOUS
<1>4. Spec => []Inv
  BY <1>3, CrashSafe, Zenon
<1> QED  BY <1>1, <1>2, <1>3, <1>4, PTL DEF Spec, NamespaceRefined, Namespace!Spec
===============================================================================
