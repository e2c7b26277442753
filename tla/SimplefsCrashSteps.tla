--------------------------- MODULE SimplefsCrashSteps -------------------------
(***************************************************************************)
(* What simplefs keeps so that a crash costs nothing it has acknowledged:  *)
(* the invariant, and that the steps of its creates, writes, saves and     *)
(* lookups keep it, for every set of tasks, names and sizes.               *)
(***************************************************************************)
EXTENDS SimplefsProofs

\* A create between simplefs_inode_add and its return, and the slot of its inode:
\* in the store, and no record that counts names it yet.
Adding == {"a_sync", "c_record", "c_mgmt", "c_save", "c_saving"}
InFlight(s) == \E t \in Tasks : pc[t] \in Adding /\ job[t].count = s
Settled(s) == s < sb.count /\ ~InFlight(s)

\* The records of the directory in slot s that its count covers.
Visible(s, c) == istore[s].mode = "dir" /\ c < istore[s].n
Record(s, c) == blk[istore[s].block][c]

\* The super block on the disk is behind by one inode at most.
CountInv ==
  /\ \A t \in Tasks :
       /\ pc[t] \in NumberedPlaces \ {"c_new"} => job[t].count < MaxObjects
       /\ pc[t] \in Adding => /\ sb.count = job[t].count + 1
                              /\ istore[job[t].count] = NewInode(job[t])
       /\ pc[t] = "a_sync" => dsb.count + 1 = sb.count
  /\ dsb.count = sb.count \/ \E t \in Tasks : pc[t] = "a_sync"

\* So is the store: what the disk has in the slot of a create in flight is empty.
StoreInv ==
  \A s \in Slots : /\ distore[s] = istore[s] \/ (distore[s].n = 0 /\ InFlight(s))
                   /\ istore[s].n > 0 => s < sb.count
                   /\ istore[s].mode = "dir" => istore[s].n <= BlockCells

\* Files hold nothing but their own data, directories are written through, and
\* free blocks are empty.
Contents(i) ==
  /\ i.ino = 0 <=> i.mode = "none"
  /\ i.mode = "reg" => \A c \in Cells : /\ blk[i.block][c] \in {Zero, Data(i.ino)}
                                        /\ dblk[i.block][c] \in {Zero, Data(i.ino)}
  /\ i.mode = "dir" => blk[i.block] = dblk[i.block]

ContentInv ==
  /\ \A i \in Copies : Contents(i)
  /\ \A b \in Blocks : IsFree(sb.free, b) =>
       \A c \in Cells : blk[b][c] = Zero /\ dblk[b][c] = Zero

\* A record names an inode that is there, on the disk too, and no other record does.
RecordInv ==
  \A s \in Slots, c \in Cells : Visible(s, c) =>
    /\ Record(s, c)[1] \notin {"nil", "data"}
    /\ Record(s, c)[2] \notin {0, RootIno}
    /\ \E u \in Slots : Settled(u) /\ istore[u].ino = Record(s, c)[2]
    /\ \A r \in Slots, e \in Cells :
         /\ Visible(r, e)
         /\ Record(r, e)[2] = Record(s, c)[2] \/ (r = s /\ Record(r, e)[1] = Record(s, c)[1])
         => r = s /\ e = c

\* Places where the in-memory inode is ahead of the store.
Saving == {"c_save", "c_saving", "w_save", "w_saving"}

\* The in-memory inodes are those of the store, one for a path; a path other than
\* the root was reached through a record.
InStore(p, s) == Settled(s) /\ SameInode(icache[p], istore[s])
Reached(d, name) ==
  \E s \in Slots, c \in Cells : /\ istore[s].ino = icache[d].ino /\ Visible(s, c)
                                /\ Record(s, c) = <<name, icache[Append(d, name)].ino>>
CacheInv ==
  /\ icache[Root].ino \in {0, RootIno}
  /\ \A p \in Paths : icache[p] # NoInode =>
       /\ icache[p].ino # 0
       /\ \E s \in Slots :
            /\ InStore(p, s)
            /\ (\A t \in Tasks : pc[t] \in Saving => job[t].path # p) => icache[p].n = istore[s].n
  /\ \A p, q \in Paths : icache[p].ino = icache[q].ino /\ icache[p].ino # 0 => p = q
  /\ \A d \in Paths, name \in Names :
       Append(d, name) \in Paths /\ icache[Append(d, name)] # NoInode => Reached(d, name)

WritePlaces == {"w_mgmt", "w_save", "w_saving"}
Recorded == {"c_mgmt", "c_save", "c_saving"}
Counted == {"c_save", "c_saving"}
Child(t) == Append(job[t].path, job[t].name)

\* What a create of a name relies on in the slot s of its directory.
NameNew(s, name) ==
  istore[s].n < BlockCells /\ \A c \in Cells : c < istore[s].n => Record(s, c)[1] # name

\* What a call in progress relies on.
CallOK(t) ==
  /\ pc[t] # "oops"
  /\ pc[t] # "idle" => icache[job[t].path] # NoInode
  /\ pc[t] \in WritePlaces => icache[job[t].path].mode = "reg"
  /\ pc[t] \in CreatePlaces \cup {"iget"} =>
       /\ icache[job[t].path].mode = "dir" /\ job[t].name \in Names
       /\ Child(t) \in Paths /\ icache[Child(t)] = NoInode
  /\ \A s \in Slots : istore[s].ino = icache[job[t].path].ino =>
       /\ pc[t] \in CreatePlaces => NameNew(s, job[t].name)
       /\ pc[t] = "iget" =>
            \E c \in Cells : Visible(s, c) /\ Record(s, c) = <<job[t].name, job[t].count>>

\* ... and a create whose record is written, in memory or on the disk.
AheadOK(t) ==
  \A s \in Slots : istore[s].ino = icache[job[t].path].ino =>
    /\ pc[t] \in Recorded =>
         Record(s, istore[s].n) = <<job[t].name, InodeNumber(job[t].count)>>
    /\ pc[t] \in Counted => icache[job[t].path].n = istore[s].n + 1

CallInv == \A t \in Tasks : CallOK(t) /\ AheadOK(t)

\* The VFS keeps creates in a directory apart, and lookups of a name.
ApartInv ==
  \A t, u \in Tasks : t # u /\ job[t].path = job[u].path =>
    /\ pc[t] \in CreatePlaces => pc[u] \notin CreatePlaces \cup {"iget"}
    /\ pc[t] = "iget" /\ pc[u] = "iget" => job[t].name # job[u].name

CrashInv ==
  /\ CountInv /\ StoreInv /\ ContentInv /\ RecordInv /\ CacheInv /\ CallInv /\ ApartInv
-------------------------------------------------------------------------------
Base == TypeOK /\ JobInv /\ LockInv /\ NumberInv /\ BlockInv(1)
Inv == Base /\ CrashInv

LEMMA BaseStep == Base /\ [Next]_vars => Base'
<1>1. TypeOK /\ JobInv /\ NumberInv /\ BlockInv(1) /\ [Next]_vars => BlockInv(1)'
  <2>1. 1 \in Nat \ {0}
    OBVIOUS
  <2> QED  BY <2>1, BlockStep, Zenon
<1> QED  BY <1>1, TypeStep, LockStep, NumberStep, Zenon DEF Base

LEMMA Types ==
  ASSUME TypeOK
  PROVE  /\ pc \in [Tasks -> Places] /\ job \in [Tasks -> JobType]
         /\ sb \in SuperBlockType /\ dsb \in SuperBlockType
         /\ sb.count \in Nat /\ dsb.count \in Nat
         /\ istore \in [Slots -> InodeType] /\ distore \in [Slots -> InodeType]
         /\ icache \in [Paths -> InodeType] /\ blk \in BlocksType /\ dblk \in BlocksType
         /\ \A t \in Tasks : job[t].path \in Paths /\ job[t].count \in Nat /\ job[t].end \in Nat
BY JobUpdate, Zenon DEF TypeOK, SuperBlockType

\* Paths are sequences: a child determines its directory and its name.
LEMMA PathIsSeq == \A p \in Paths : p \in Seq(Names)
BY DEF Paths

LEMMA ChildInjective ==
  ASSUME NEW d \in Paths, NEW e \in Paths, NEW name \in Names, NEW other \in Names,
         Append(d, name) = Append(e, other)
  PROVE  d = e /\ name = other
<1>1. d \in Seq(Names) /\ e \in Seq(Names)
  BY PathIsSeq, Zenon
<1>2. Len(d) \in Nat /\ Len(e) \in Nat
  BY <1>1
<1>3. Len(d) + 1 = Len(e) + 1
  <2>1. Len(Append(d, name)) = Len(d) + 1 /\ Len(Append(e, other)) = Len(e) + 1
    BY <1>1
  <2> QED  BY <2>1, Zenon
<1>4. Len(d) = Len(e)
  BY <1>2, <1>3
<1>5. name = other
  BY <1>1, <1>2, <1>4
<1>6. \A i \in 1..Len(d) : d[i] = e[i]
  BY <1>1, <1>2, <1>4
<1> QED  BY <1>1, <1>4, <1>5, <1>6

LEMMA ChildNotRoot == \A d \in Paths, name \in Names : Append(d, name) # Root
BY PathIsSeq DEF Root

LEMMA HasParent ==
  ASSUME NEW p \in Paths, p # Root
  PROVE  \E d \in Paths, name \in Names : p = Append(d, name)
<1>1. PICK k \in 0..MaxDepth : p \in [1..k -> Names]
  BY Zenon DEF Paths
<1>2. k \in Nat /\ MaxDepth \in Nat /\ k <= MaxDepth
  BY NameAssumption
<1>3. k # 0
  <2>1. ASSUME k = 0 PROVE p = <<>>
    BY <1>1, <2>1
  <2> QED  BY <2>1, Zenon DEF Root
<1> DEFINE d == [i \in 1..(k - 1) |-> p[i]]
<1>4. d \in [1..(k - 1) -> Names] /\ k - 1 \in 0..MaxDepth
  BY <1>1, <1>2, <1>3
<1>5. \A i \in 1..(k - 1) : d[i] = p[i]
  OBVIOUS
<1> HIDE DEF d
<1>6. d \in Paths /\ p[k] \in Names
  BY <1>1, <1>2, <1>3, <1>4 DEF Paths
<1>7. p = Append(d, p[k])
  <2>1. k - 1 \in Nat
    BY <1>2, <1>3
  <2>2. d \in Seq(Names) /\ p \in Seq(Names) /\ Len(p) = k /\ Len(d) = k - 1
    BY <1>1, <1>2, <1>4, <2>1
  <2>3. Append(d, p[k]) \in Seq(Names) /\ Len(Append(d, p[k])) = k
    BY <1>2, <1>6, <2>2
  <2>4. \A i \in 1..k : Append(d, p[k])[i] = p[i]
    BY <1>2, <1>3, <1>6, <1>5, <2>2
  <2> QED  BY <2>2, <2>3, <2>4
<1> QED  BY <1>6, <1>7, Zenon

\* Two mutexes keep creates apart, and the tasks that change inodes.
LEMMA OneCreator ==
  ASSUME LockInv, NEW t \in Tasks, NEW u \in Tasks, pc[t] \in DirPlaces, pc[u] \in DirPlaces
  PROVE  t = u
BY Zenon DEF LockInv

LEMMA OneSaver ==
  ASSUME LockInv, NEW t \in Tasks, NEW u \in Tasks, pc[t] \in MgmtPlaces, pc[u] \in MgmtPlaces
  PROVE  t = u
BY Zenon DEF LockInv

\* The block of a copy determines its inode.
LEMMA OwnBlock ==
  ASSUME TypeOK, JobInv, BlockInv(1), NEW i \in Copies, i.ino # 0
  PROVE  /\ ~IsFree(sb.free, i.block)
         /\ \A j \in Copies : j.ino # 0 /\ j.block = i.block => SameInode(i, j)
<1>1. \A j \in Copies : j.ino \in Nat
  <2>1. \A t \in Tasks : NewInode(job[t]).ino \in Nat
    BY Types DEF NewInode, Inode, InodeNumber
  <2> QED  BY <2>1, Types, InodeUpdate, Zenon DEF Copies
<1>2. \A j \in Copies : j.ino # 0 => Since(1, j)
  BY <1>1 DEF Since
<1> QED  BY <1>2, Zenon DEF BlockInv

\* The slot of a path that is in memory.
LEMMA SlotOf ==
  ASSUME Base, CacheInv, NEW p \in Paths, icache[p] # NoInode
  PROVE  \E s \in Slots : /\ InStore(p, s)
                          /\ \A r \in Slots : istore[r].ino = icache[p].ino <=> r = s
                          /\ (\A t \in Tasks : pc[t] \in Saving => job[t].path # p)
                               => icache[p].n = istore[s].n
<1>1. Numbered(istore)
  BY Zenon DEF Base, NumberInv
<1> QED  BY <1>1, SlotOfNumber DEF CacheInv, InStore, SameInode

\* A number is that of one path in memory.
LEMMA OnePath ==
  ASSUME Inv, NEW p \in Paths, NEW q \in Paths, icache[p].ino = icache[q].ino, icache[p].ino # 0
  PROVE  p = q
<1>1. CacheInv
  BY Zenon DEF Inv, CrashInv
<1> QED  BY <1>1 DEF CacheInv

\* simplefs_get_inode finds the slot with a number, if there is one below the count.
LEMMA GetInode ==
  ASSUME NEW store, Numbered(store), NEW count \in Nat, NEW s \in Slots, s < count,
         store[s].ino # 0
  PROVE  get_inode(count, store, store[s].ino) = {store[s]}
<1>1. \A r \in Slots : store[r].ino = store[s].ino <=> r = s
  BY SlotOfNumber, Zenon
<1>2. \A r \in Slots : r < s => r # s
  BY DEF Slots
<1> QED  BY <1>1, <1>2, Zenon DEF get_inode

LEMMA InodeSearch ==
  ASSUME Base, NEW s \in Slots, s < sb.count, istore[s].ino # 0
  PROVE  inode_search(istore[s].ino) = {s}
<1>1. Numbered(istore)
  BY Zenon DEF Base, NumberInv
<1>2. \A r \in Slots : istore[r].ino = istore[s].ino <=> r = s
  BY <1>1, SlotOfNumber, Zenon
<1>3. s <= sb.count /\ \A r \in Slots : r < s => r # s
  BY Types DEF Slots, Base
<1> QED  BY <1>2, <1>3, Zenon DEF inode_search

-------------------------------------------------------------------------------
(***************************************************************************)
(* What most steps keep: the inodes that are settled and the records that  *)
(* count, the in-memory inodes but for their counts, and the calls.        *)
(***************************************************************************)
Kept ==
  /\ \A s \in Slots : Settled(s) => /\ Settled(s)' /\ SameInode(istore'[s], istore[s])
                                    /\ istore[s].mode = "dir" => istore'[s].n = istore[s].n
  /\ \A s \in Slots, c \in Cells : Visible(s, c)' => Visible(s, c)
  /\ \A s \in Slots, c \in Cells : Visible(s, c) => Visible(s, c)' /\ Record(s, c)' = Record(s, c)

CacheKept ==
  \A p \in Paths : /\ SameInode(icache'[p], icache[p])
                   /\ icache[p] = NoInode => icache'[p] = NoInode

\* A task goes on with its call, or returns.
Moves(u) ==
  /\ pc'[u] # "oops"
  /\ \A K \in {WritePlaces, CreatePlaces, {"iget"}} : pc'[u] \in K => pc[u] \in K
  /\ pc'[u] # "idle" => /\ pc[u] # "idle"
                        /\ job'[u].path = job[u].path /\ job'[u].name = job[u].name
                        /\ pc'[u] = "iget" => job'[u].count = job[u].count

\* ... and no inode of its own is stored or counted by that.
Steady(u) ==
  /\ \A K \in {Adding, {"a_sync"}, Recorded, Counted} : pc'[u] \in K <=> pc[u] \in K
  /\ pc'[u] \in Adding => job'[u] = job[u]
  /\ pc'[u] \in NumberedPlaces \ {"c_new"} => job'[u].count < MaxObjects

\* ... or saved, or allocated.
StillSaves(u) == /\ pc'[u] \in Saving <=> pc[u] \in Saving
                 /\ pc'[u] \in Saving => job'[u].path = job[u].path
NoNewInode(u) == pc'[u] \in AllocatedPlaces => pc[u] \in AllocatedPlaces /\ job'[u] = job[u]

\* The places of a create, and which of them are of which kind.
LEMMA Kinds ==
  /\ Adding \subseteq DirPlaces /\ Adding \subseteq AllocatedPlaces
  /\ Recorded \subseteq Adding /\ Counted \subseteq Recorded /\ Counted \subseteq Saving
  /\ AllocatedPlaces \subseteq NumberedPlaces \ {"c_new"} /\ NumberedPlaces \subseteq DirPlaces
  /\ DirPlaces \subseteq CreatePlaces /\ Saving \subseteq MgmtPlaces
  /\ CreatePlaces \cap WritePlaces = {} /\ "iget" \notin CreatePlaces \cup WritePlaces
  /\ "idle" \notin CreatePlaces \cup WritePlaces \cup {"iget"}
  /\ "oops" \notin CreatePlaces \cup WritePlaces \cup {"iget"}
  /\ Saving \ Counted \subseteq WritePlaces
BY Zenon DEF Adding, Saving, Recorded, Counted, WritePlaces, CreatePlaces, DirPlaces, MgmtPlaces,
       NumberedPlaces, AllocatedPlaces

\* The slot of a create in flight.
LEMMA FlightSlot ==
  ASSUME TypeOK, CountInv, NEW t \in Tasks, pc[t] \in Adding
  PROVE  /\ job[t].count \in Nat /\ job[t].count \in Slots /\ job[t].count < sb.count
         /\ istore[job[t].count] = NewInode(job[t])
         /\ istore[job[t].count].ino = InodeNumber(job[t].count)
         /\ InodeNumber(job[t].count) \notin {0, RootIno}
<1>1. pc[t] \in NumberedPlaces \ {"c_new"}
  BY Kinds, Zenon
<1>2. job[t].count < MaxObjects /\ sb.count = job[t].count + 1 /\ istore[job[t].count] = NewInode(job[t])
  BY <1>1, Zenon DEF CountInv
<1>3. job[t].count \in Nat
  BY Types, Zenon
<1>4. NewInode(job[t]).ino = InodeNumber(job[t].count)
  BY Zenon DEF NewInode, Inode
<1>5. InodeNumber(job[t].count) \notin {0, RootIno}
  BY <1>3 DEF InodeNumber, RootIno
<1>6. job[t].count \in Slots /\ job[t].count < sb.count
  BY <1>2, <1>3, LayoutAssumption DEF Slots
<1> QED  BY <1>2, <1>3, <1>4, <1>5, <1>6, Zenon

\* A directory with a record is not in flight.
LEMMA VisibleSettled ==
  ASSUME Base, CountInv, StoreInv, NEW s \in Slots, NEW c \in Cells, Visible(s, c)
  PROVE  Settled(s) /\ distore[s] = istore[s]
<1>1. istore[s].n > 0
  BY Types, InodeUpdate DEF Visible, Cells, Base
<1>2. ASSUME NEW t \in Tasks, pc[t] \in Adding, job[t].count = s PROVE FALSE
  <2>1. istore[s] = NewInode(job[t])
    BY <1>2, Zenon DEF CountInv
  <2> QED  BY <1>1, <2>1 DEF NewInode, Inode
<1> QED  BY <1>1, <1>2, Zenon DEF StoreInv, Settled, InFlight

LEMMA KeptRecords == RecordInv /\ Kept => RecordInv'
<1> SUFFICES ASSUME RecordInv, Kept, NEW s \in Slots, NEW c \in Cells, Visible(s, c)'
             PROVE  /\ Record(s, c)'[1] \notin {"nil", "data"}
                    /\ Record(s, c)'[2] \notin {0, RootIno}
                    /\ \E u \in Slots : Settled(u)' /\ istore'[u].ino = Record(s, c)'[2]
                    /\ \A r \in Slots, e \in Cells :
                         /\ Visible(r, e)'
                         /\ \/ Record(r, e)'[2] = Record(s, c)'[2]
                            \/ r = s /\ Record(r, e)'[1] = Record(s, c)'[1]
                         => r = s /\ e = c
  BY Zenon DEF RecordInv
<1>1. \A r \in Slots, e \in Cells :
        Visible(r, e)' => Visible(r, e) /\ Record(r, e)' = Record(r, e)
  BY Zenon DEF Kept
<1>2. \A u \in Slots : Settled(u) => Settled(u)' /\ istore'[u].ino = istore[u].ino
  BY Zenon DEF Kept, SameInode
<1> QED  BY <1>1, <1>2 DEF RecordInv

LEMMA KeptCache ==
  ASSUME Base, CountInv, StoreInv, CacheInv, Kept, CacheKept,
         \A p \in Paths, s \in Slots :
           /\ icache[p] # NoInode /\ InStore(p, s)
           /\ \A t \in Tasks : pc'[t] \in Saving => job'[t].path # p
           => icache'[p].n = istore'[s].n
  PROVE  CacheInv'
<1>1. icache'[Root].ino \in {0, RootIno}
  BY RootPath, Zenon DEF CacheInv, CacheKept, SameInode
<1>2. ASSUME NEW p \in Paths, icache'[p] # NoInode
      PROVE  /\ icache'[p].ino # 0
             /\ \E s \in Slots :
                  /\ InStore(p, s)'
                  /\ (\A t \in Tasks : pc'[t] \in Saving => job'[t].path # p) => icache'[p].n = istore'[s].n
  <2>1. icache[p] # NoInode
    BY <1>2, Zenon DEF CacheKept
  <2>2. PICK s \in Slots : InStore(p, s)
    BY <2>1, Zenon DEF CacheInv
  <2>3. InStore(p, s)'
    BY <2>2, Zenon DEF InStore, Kept, CacheKept, SameInode
  <2>4. icache'[p].ino # 0
    BY <2>1, Zenon DEF CacheInv, CacheKept, SameInode
  <2> QED  BY <2>1, <2>2, <2>3, <2>4, Zenon
<1>3. \A p, q \in Paths : icache'[p].ino = icache'[q].ino /\ icache'[p].ino # 0 => p = q
  BY DEF CacheInv, CacheKept, SameInode
<1>4. ASSUME NEW d \in Paths, NEW name \in Names, Append(d, name) \in Paths,
             icache'[Append(d, name)] # NoInode
      PROVE  Reached(d, name)'
  <2>1. icache[Append(d, name)] # NoInode
    BY <1>4, Zenon DEF CacheKept
  <2>2. PICK s \in Slots, c \in Cells :
               /\ istore[s].ino = icache[d].ino /\ Visible(s, c)
               /\ Record(s, c) = <<name, icache[Append(d, name)].ino>>
    BY <1>4, <2>1, Zenon DEF CacheInv, Reached
  <2>3. istore'[s].ino = istore[s].ino
    BY <2>2, VisibleSettled, Zenon DEF Kept, SameInode
  <2>4. Visible(s, c)' /\ Record(s, c)' = <<name, icache'[Append(d, name)].ino>>
    BY <1>4, <2>2, Zenon DEF Kept, CacheKept, SameInode
  <2> QED  BY <2>2, <2>3, <2>4, Zenon DEF Reached, CacheKept, SameInode
<1> QED  BY <1>1, <1>2, <1>3, <1>4, Zenon DEF CacheInv

LEMMA SlotKept ==
  ASSUME Base', CacheInv, Kept, CacheKept, NEW p \in Paths, icache[p] # NoInode,
         NEW s \in Slots, istore'[s].ino = icache'[p].ino
  PROVE  /\ Settled(s) /\ istore[s].ino = icache[p].ino /\ istore[s].mode = icache[p].mode
         /\ istore[s].block = icache[p].block /\ SameInode(istore'[s], istore[s])
<1>1. PICK r \in Slots : InStore(p, r)
  BY Zenon DEF CacheInv
<1>2. istore'[r].ino = icache'[p].ino /\ icache'[p].ino # 0
  BY <1>1 DEF CacheInv, CacheKept, InStore, Kept, SameInode
<1>3. Numbered(istore')
  BY Zenon DEF Base, NumberInv
<1>4. r = s
  BY <1>2, <1>3, SlotOfNumber, Zenon
<1> QED  BY <1>1, <1>4, Zenon DEF InStore, Kept, SameInode

LEMMA KeptCall ==
  ASSUME Base, Base', CacheInv, Kept, CacheKept, NEW u \in Tasks, CallOK(u), Moves(u)
  PROVE  CallOK(u)'
<1> DEFINE p == job[u].path
<1> SUFFICES ASSUME pc'[u] # "idle" PROVE CallOK(u)'
  BY Zenon DEF CallOK, WritePlaces, CreatePlaces
<1>1. pc[u] # "idle" /\ job'[u].path = p /\ job'[u].name = job[u].name /\ p \in Paths
  BY Types, Zenon DEF Moves, Base
<1>2. icache[p] # NoInode /\ icache[p].ino # 0 /\ SameInode(icache'[p], icache[p])
  BY <1>1, Zenon DEF CallOK, CacheInv, CacheKept
<1>3. icache'[p] # NoInode
  BY <1>2, NoInodeType, Zenon DEF SameInode
<1>4. pc'[u] \in CreatePlaces \cup {"iget"} =>
        /\ icache'[p].mode = "dir" /\ job'[u].name \in Names
        /\ Child(u)' \in Paths /\ icache'[Child(u)'] = NoInode
  BY <1>1, <1>2, Zenon DEF Moves, CallOK, Child, CacheKept, SameInode
<1>5. ASSUME NEW s \in Slots, istore'[s].ino = icache'[p].ino
      PROVE  /\ pc'[u] \in CreatePlaces => NameNew(s, job[u].name)'
             /\ pc'[u] = "iget" =>
                  \E c \in Cells : Visible(s, c)' /\ Record(s, c)' = <<job[u].name, job'[u].count>>
  <2>1. Settled(s) /\ istore[s].ino = icache[p].ino /\ istore[s].mode = icache[p].mode
    BY <1>1, <1>2, <1>5, SlotKept, Zenon
  <2>2. ASSUME pc'[u] \in CreatePlaces PROVE NameNew(s, job[u].name)'
    <3>1. NameNew(s, job[u].name)
      BY <2>1, <2>2, Zenon DEF CallOK, Moves
    <3>2. istore[s].mode = "dir"
      BY <2>1, <2>2, Zenon DEF CallOK, Moves
    <3>3. istore'[s].n = istore[s].n
      BY <2>1, <3>2, Zenon DEF Kept
    <3>4. ASSUME NEW c \in Cells, c < istore'[s].n PROVE Record(s, c)'[1] # job[u].name
      <4>1. c < istore[s].n
        BY <3>3, <3>4, Zenon
      <4>2. Visible(s, c) /\ Record(s, c)[1] # job[u].name
        BY <3>1, <3>2, <4>1, Zenon DEF NameNew, Visible
      <4> QED  BY <4>2, Zenon DEF Kept
    <3> QED  BY <1>1, <3>1, <3>3, <3>4, Zenon DEF NameNew
  <2>3. pc'[u] = "iget" =>
          \E c \in Cells : Visible(s, c)' /\ Record(s, c)' = <<job[u].name, job'[u].count>>
    BY <2>1, Zenon DEF CallOK, Moves, Kept
  <2> QED  BY <2>2, <2>3, Zenon
<1>6. pc'[u] \in WritePlaces => icache'[p].mode = "reg"
  BY <1>2, Zenon DEF Moves, CallOK, SameInode
<1> QED  BY <1>1, <1>3, <1>4, <1>5, <1>6, Zenon DEF CallOK, Moves

LEMMA KeptAhead ==
  ASSUME Base, Base', CacheInv, Kept, CacheKept, NEW u \in Tasks, CallOK(u), AheadOK(u),
         pc'[u] \in Recorded => /\ pc[u] \in Recorded /\ job'[u] = job[u]
                                /\ blk'[icache[job[u].path].block] = blk[icache[job[u].path].block],
         pc'[u] \in Counted => pc[u] \in Counted /\ icache'[job[u].path].n = icache[job[u].path].n
  PROVE  AheadOK(u)'
<1> SUFFICES ASSUME pc'[u] \in Recorded, NEW s \in Slots, istore'[s].ino = icache'[job[u].path].ino
             PROVE  /\ Record(s, istore[s].n)' = <<job[u].name, InodeNumber(job[u].count)>>
                    /\ pc'[u] \in Counted => icache'[job[u].path].n = istore'[s].n + 1
  BY Kinds, Zenon DEF AheadOK
<1>1. pc[u] \in CreatePlaces /\ pc[u] # "idle" /\ job[u].path \in Paths
  BY Kinds, Types, Zenon DEF Base
<1>2. icache[job[u].path] # NoInode /\ icache[job[u].path].mode = "dir"
  BY <1>1, Zenon DEF CallOK
<1>3. /\ Settled(s) /\ istore[s].ino = icache[job[u].path].ino /\ istore[s].mode = "dir"
      /\ istore[s].block = icache[job[u].path].block /\ istore'[s].block = istore[s].block
  BY <1>1, <1>2, SlotKept, Zenon DEF SameInode
<1>4. istore'[s].n = istore[s].n
  BY <1>3, Zenon DEF Kept
<1>5. Record(s, istore[s].n)' = Record(s, istore[s].n)
  BY <1>3, <1>4, Zenon DEF Record
<1> QED  BY <1>3, <1>4, <1>5, Zenon DEF AheadOK

LEMMA KeptApart == ASSUME ApartInv, \A u \in Tasks : Moves(u) PROVE ApartInv'
BY DEF ApartInv, Moves, CreatePlaces

LEMMA KeptFlight ==
  ASSUME \A u \in Tasks : Steady(u)
  PROVE  \A s \in Slots : InFlight(s)' <=> InFlight(s)
BY Zenon DEF Steady, InFlight

LEMMA KeptCount ==
  ASSUME CountInv, sb'.count = sb.count, dsb'.count = dsb.count, \A u \in Tasks : Steady(u),
         \A u \in Tasks : pc[u] \in Adding => istore'[job[u].count] = istore[job[u].count]
  PROVE  CountInv'
<1>1. ASSUME NEW u \in Tasks
      PROVE  /\ pc'[u] \in Adding => pc[u] \in Adding /\ job'[u] = job[u]
             /\ pc'[u] = "a_sync" <=> pc[u] = "a_sync"
             /\ pc'[u] \in NumberedPlaces \ {"c_new"} => job'[u].count < MaxObjects
  BY Zenon DEF Steady
<1>2. ASSUME NEW u \in Tasks, pc'[u] \in Adding
      PROVE  sb'.count = job'[u].count + 1 /\ istore'[job'[u].count] = NewInode(job[u])'
  BY <1>1, <1>2 DEF CountInv, NewInode
<1>3. \A u \in Tasks : pc'[u] = "a_sync" => dsb'.count + 1 = sb'.count
  BY <1>1, Zenon DEF CountInv
<1>4. dsb'.count = sb'.count \/ \E u \in Tasks : pc'[u] = "a_sync"
  BY <1>1, Zenon DEF CountInv
<1> QED  BY <1>1, <1>2, <1>3, <1>4, Zenon DEF CountInv

LEMMA KeptStore ==
  ASSUME StoreInv, UNCHANGED istore, distore' \in {istore, distore}, sb'.count = sb.count,
         \A u \in Tasks : Steady(u)
  PROVE  StoreInv'
BY KeptFlight, Zenon DEF StoreInv

Known(i) == i = NoInode \/ \E j \in Copies : SameInode(i, j)

LEMMA KnownCopies ==
  /\ \A s \in Slots : Known(istore[s]) /\ Known(distore[s])
  /\ \A p \in Paths : Known(icache[p])
  /\ \A t \in Tasks : pc[t] \in AllocatedPlaces => Known(NewInode(job[t]))
BY Zenon DEF Known, Copies, SameInode

LEMMA KnownContents ==
  ASSUME ContentInv, NEW i, Known(i)
  PROVE  Contents(i)
<1>1. CASE i = NoInode
  BY <1>1, Zenon DEF Contents, NoInode, Inode
<1>2. ASSUME NEW j \in Copies, SameInode(i, j) PROVE Contents(i)
  <2>1. Contents(j)
    BY Zenon DEF ContentInv
  <2> QED  BY <1>2, <2>1, Zenon DEF Contents, SameInode
<1> QED  BY <1>1, <1>2, Zenon DEF Known

\* A step that writes no block and makes no inode out of nothing.
LEMMA KeptContent ==
  ASSUME ContentInv, UNCHANGED <<blk, dblk>>, sb'.free = sb.free,
         \A s \in Slots : Known(istore'[s]) /\ Known(distore'[s]),
         \A p \in Paths : Known(icache'[p]),
         \A t \in Tasks : pc'[t] \in AllocatedPlaces => Known(NewInode(job'[t]))
  PROVE  ContentInv'
<1>1. ASSUME NEW i \in Copies' PROVE Contents(i)'
  <2>1. Known(i)
    BY <1>1, Zenon DEF Copies, NewInode
  <2> QED  BY <2>1, KnownContents, Zenon DEF Contents
<1> QED  BY <1>1, Zenon DEF ContentInv

LEMMA CacheKnown == ASSUME CacheKept PROVE \A p \in Paths : Known(icache'[p])
<1> SUFFICES ASSUME NEW p \in Paths PROVE Known(icache'[p])
  OBVIOUS
<1>1. SameInode(icache'[p], icache[p]) /\ icache[p] \in Copies
  BY Zenon DEF CacheKept, Copies
<1> QED  BY <1>1, Zenon DEF Known

LEMMA JobsKnown ==
  ASSUME \A u \in Tasks : NoNewInode(u)
  PROVE  \A t \in Tasks : pc'[t] \in AllocatedPlaces => Known(NewInode(job'[t]))
BY KnownCopies, Zenon DEF NoNewInode

LEMMA KeptVolume ==
  ASSUME UNCHANGED <<istore, blk>>, sb'.count = sb.count, \A u \in Tasks : Steady(u)
  PROVE  Kept
BY KeptFlight, Zenon DEF Kept, Settled, Visible, Record, SameInode

\* What is left to show of a step that keeps all that.
LEMMA KeptStep ==
  ASSUME Inv, Base', CountInv', StoreInv', ContentInv', ApartInv', Kept, CacheKept,
         \A p \in Paths, s \in Slots :
           /\ icache[p] # NoInode /\ InStore(p, s)
           /\ \A t \in Tasks : pc'[t] \in Saving => job'[t].path # p
           => icache'[p].n = istore'[s].n,
         \A u \in Tasks :
           /\ Moves(u) \/ CallOK(u)'
           /\ pc'[u] \in Recorded =>
                /\ pc[u] \in Recorded /\ job'[u] = job[u]
                /\ blk'[icache[job[u].path].block] = blk[icache[job[u].path].block]
           /\ pc'[u] \in Counted =>
                pc[u] \in Counted /\ icache'[job[u].path].n = icache[job[u].path].n
  PROVE  CrashInv'
<1> USE DEF Inv, CrashInv
<1>1. CacheInv'
  BY KeptCache, Zenon
<1>2. \A u \in Tasks : CallOK(u)' /\ AheadOK(u)'
  BY KeptCall, KeptAhead, Zenon DEF CallInv
<1> QED  BY <1>1, <1>2, KeptRecords, Zenon DEF CallInv

\* Steps that move tasks along and change no inode and no count.
LEMMA TasksStep ==
  ASSUME Inv, Base', ContentInv', ApartInv', UNCHANGED <<istore, blk, icache>>,
         sb'.count = sb.count, dsb'.count = dsb.count, distore' \in {istore, distore},
         \A u \in Tasks : (Moves(u) \/ CallOK(u)') /\ Steady(u) /\ StillSaves(u)
  PROVE  CrashInv' /\ Kept
<1> USE DEF Inv, CrashInv
<1>1. Kept
  BY KeptVolume, Zenon
<1>2. CacheKept
  BY Zenon DEF CacheKept, SameInode
<1>3. CountInv' /\ StoreInv'
  BY KeptCount, KeptStore, Zenon
<1>4. ASSUME NEW p \in Paths, NEW s \in Slots, icache[p] # NoInode, InStore(p, s),
             \A t \in Tasks : pc'[t] \in Saving => job'[t].path # p
      PROVE  icache'[p].n = istore'[s].n
  <2>1. \A t \in Tasks : pc[t] \in Saving => job[t].path # p
    BY <1>4, Zenon DEF StillSaves
  <2> QED  BY <1>4, <2>1, SlotOf, Zenon DEF InStore, SameInode
<1>5. \A u \in Tasks : /\ pc'[u] \in Recorded => pc[u] \in Recorded /\ job'[u] = job[u]
                       /\ pc'[u] \in Counted => pc[u] \in Counted
  BY Kinds, Zenon DEF Steady
<1> QED  BY <1>1, <1>2, <1>3, <1>4, <1>5, KeptStep, Zenon

LEMMA ControlStep ==
  ASSUME Inv, Base', UNCHANGED <<istore, blk, dblk, icache, sb>>, dsb'.count = dsb.count,
         distore' \in {istore, distore},
         \A u \in Tasks : Moves(u) /\ Steady(u) /\ StillSaves(u) /\ NoNewInode(u)
  PROVE  CrashInv' /\ Kept
<1>1. ContentInv' /\ ApartInv'
  BY KeptContent, KnownCopies, JobsKnown, KeptApart, Zenon DEF Inv, CrashInv
<1> QED  BY <1>1, TasksStep, Zenon

-------------------------------------------------------------------------------
(***************************************************************************)
(* The steps of a create that change inodes, blocks or counts.             *)
(***************************************************************************)
\* A task that does nothing.
LEMMA Rests ==
  ASSUME Inv, NEW u \in Tasks, pc'[u] = pc[u], job'[u] = job[u]
  PROVE  Moves(u) /\ Steady(u) /\ StillSaves(u) /\ NoNewInode(u)
BY Zenon DEF Inv, CrashInv, CountInv, CallInv, CallOK, Moves, Steady, StillSaves, NoNewInode

LEMMA LessFree ==
  ASSUME NEW free, NEW a, NEW b, IsFree(free \ ShiftMask(b), a) PROVE IsFree(free, a)
BY Zenon DEF IsFree

LEMMA FreeBlockStep ==
  ASSUME Inv, Base', NEW t \in Tasks, pc[t] = "c_alloc", NEW b \in Blocks, FirstFree(sb.free, b),
         job' = [job EXCEPT ![t].block = b], sb' = [sb EXCEPT !.free = @ \ ShiftMask(b)],
         dsb' = sb', pc' = [pc EXCEPT ![t] = "a_mgmt"],
         UNCHANGED <<istore, blk, distore, dblk, icache>>
  PROVE  CrashInv' /\ Kept
<1> USE DEF Inv, CrashInv
<1>0. TypeOK
  BY Zenon DEF Base
<1>1. sb'.count = sb.count /\ sb'.free = sb.free \ ShiftMask(b)
  BY <1>0, Types, Zenon DEF SuperBlockType
<1>2. dsb'.count = dsb.count
  <2>1. \A u \in Tasks : pc[u] # "a_sync"
    BY OneCreator, Zenon DEF Base, DirPlaces, CreatePlaces
  <2> QED  BY <1>1, <2>1, Zenon DEF CountInv
<1>3. \A u \in Tasks : u # t => pc'[u] = pc[u] /\ job'[u] = job[u]
  BY <1>0, Types, Zenon
<1>4. pc'[t] = "a_mgmt" /\ job'[t].path = job[t].path /\ job'[t].name = job[t].name
      /\ job'[t].count = job[t].count /\ job'[t].block = b
  BY <1>0, Types, Zenon DEF JobType
<1>5. \A u \in Tasks : Moves(u)
  BY <1>3, <1>4, Rests, Zenon DEF Moves, WritePlaces, CreatePlaces
<1>6. \A u \in Tasks : Steady(u) /\ StillSaves(u)
  <2>1. job[t].count < MaxObjects
    BY Zenon DEF CountInv, NumberedPlaces, DirPlaces, CreatePlaces
  <2> QED  BY <1>3, <1>4, <2>1, Rests, Zenon DEF Steady, StillSaves, Adding, Saving, Recorded, Counted
<1>7. ContentInv'
  <2> DEFINE new == NewInode(job'[t])
  <2>1. ASSUME NEW i \in Copies' PROVE i = new \/ i \in Copies
    BY <1>3, <1>4, Zenon DEF Copies, NewInode
  <2>2. IsFree(sb.free, b)
    BY Zenon DEF FirstFree
  <2>3. ASSUME NEW i, i = new PROVE Contents(i)'
    <3>1. i.block = b /\ i.mode \in {"dir", "reg"} /\ i.ino # 0
      BY <1>0, <1>4, <2>3, Types DEF Base, JobInv, NewInode, Inode, InodeNumber, CreatePlaces
    <3>2. \A c \in Cells : blk[b][c] = Zero /\ dblk[b][c] = Zero
      BY <2>2, Zenon DEF ContentInv
    <3>3. blk[b] = dblk[b]
      <4>0. blk \in BlocksType /\ dblk \in BlocksType
        BY <1>0, Types, Zenon
      <4>1. blk[b] \in [Cells -> NameType \X Nat] /\ dblk[b] \in [Cells -> NameType \X Nat]
        BY <4>0, Zenon DEF BlocksType
      <4> QED  BY <3>2, <4>1
    <3> HIDE DEF new
    <3> QED  BY <3>1, <3>2, <3>3, Zenon DEF Contents
  <2>4. \A i \in Copies : Contents(i)'
    BY Zenon DEF ContentInv, Contents
  <2>5. \A a \in Blocks : IsFree(sb'.free, a) => IsFree(sb.free, a)
    BY <1>1, LessFree
  <2> HIDE DEF new
  <2> QED  BY <2>1, <2>3, <2>4, <2>5, Zenon DEF ContentInv
<1> QED  BY <1>1, <1>2, <1>5, <1>6, <1>7, KeptApart, TasksStep, Zenon

\* The slot of a directory or file in use is not that of the next inode.
LEMMA InodeAddStep ==
  ASSUME Inv, Base', NEW t \in Tasks, inode_add(t)
  PROVE  CrashInv' /\ Kept
<1> USE DEF Inv, CrashInv
<1> DEFINE k == sb.count
<1>0. TypeOK /\ Numbered(istore') /\ LockInv
  BY Zenon DEF Base, NumberInv
<1>1. /\ pc[t] = "a_store" /\ pc' = [pc EXCEPT ![t] = "a_sync"]
      /\ istore' = [istore EXCEPT ![k] = NewInode(job[t])]
      /\ UNCHANGED <<blk, dsb, distore, dblk, icache, job>>
  BY Zenon DEF inode_add, Goto, disk
<1>2. sb'.count = k + 1 /\ sb'.free = sb.free
  BY <1>0, Types, Zenon DEF inode_add, SuperBlockType
<1>3. k \in Slots /\ k \in Nat /\ job[t].count = k /\ k < MaxObjects
  <2>1. job[t].count = k
    BY <1>1, Zenon DEF Base, NumberInv
  <2>2. job[t].count < MaxObjects
    BY <1>1, Zenon DEF CountInv, NumberedPlaces, DirPlaces, CreatePlaces
  <2> QED  BY <1>0, <2>1, <2>2, Types, LayoutAssumption DEF Slots
<1>4. istore'[k] = NewInode(job[t]) /\ NewInode(job[t]).n = 0
      /\ \A s \in Slots : s # k => istore'[s] = istore[s]
  BY <1>0, <1>1, <1>3, Types, Zenon DEF NewInode, Inode
<1>5. /\ pc'[t] = "a_sync" /\ \A u \in Tasks : u # t => pc'[u] = pc[u] /\ pc[u] \notin DirPlaces
  BY <1>0, <1>1, Types, OneCreator, Zenon DEF DirPlaces, CreatePlaces
<1>6. \A s \in Slots : ~InFlight(s) /\ (InFlight(s)' <=> s = k)
  BY <1>1, <1>3, <1>5, Zenon DEF InFlight, Adding, DirPlaces, CreatePlaces
<1> HIDE DEF k
<1>7. dsb.count = k
  BY <1>5, <1>1, Zenon DEF CountInv, DirPlaces, CreatePlaces, k
<1>8. CountInv'
  <2>1. ASSUME NEW u \in Tasks, u # t PROVE pc'[u] \notin NumberedPlaces \cup Adding \cup {"a_sync"}
    BY <1>5, <2>1, Zenon DEF NumberedPlaces, DirPlaces, CreatePlaces, Adding
  <2>2. /\ job'[t].count < MaxObjects /\ sb'.count = job'[t].count + 1
        /\ istore'[job'[t].count] = NewInode(job'[t]) /\ dsb'.count + 1 = sb'.count
    BY <1>1, <1>2, <1>3, <1>4, <1>7, Zenon
  <2> QED  BY <1>5, <2>1, <2>2, Zenon DEF CountInv, NewInode
<1>9. StoreInv'
  <2> SUFFICES ASSUME NEW s \in Slots
               PROVE  /\ distore[s] = istore'[s] \/ (distore[s].n = 0 /\ InFlight(s)')
                      /\ istore'[s].n > 0 => s < sb'.count
                      /\ istore'[s].mode = "dir" => istore'[s].n <= BlockCells
    BY <1>1, Zenon DEF StoreInv
  <2>0. distore[s] = istore[s] /\ (istore[s].n > 0 => s < k)
        /\ (istore[s].mode = "dir" => istore[s].n <= BlockCells) /\ istore[s].n \in Nat
    BY <1>0, <1>6, Types, InodeUpdate, Zenon DEF StoreInv, k
  <2>1. CASE s = k
    BY <1>2, <1>3, <1>4, <1>6, <2>0, <2>1, LayoutAssumption
  <2>2. CASE s # k
    BY <1>2, <1>3, <1>4, <2>0, <2>2 DEF Slots
  <2> QED  BY <2>1, <2>2, Zenon
<1>10. ContentInv'
  <2>1. \A u \in Tasks : NoNewInode(u)
    BY <1>1, <1>5, Kinds, Zenon DEF NoNewInode, AllocatedPlaces, NumberedPlaces, DirPlaces, CreatePlaces
  <2>2. Known(NewInode(job[t]))
    BY <1>1, KnownCopies, Zenon DEF AllocatedPlaces, NumberedPlaces, DirPlaces, CreatePlaces
  <2>3. \A s \in Slots : Known(istore'[s])
    BY <1>4, <2>2, KnownCopies, Zenon
  <2> QED  BY <1>1, <1>2, <2>1, <2>3, KeptContent, KnownCopies, JobsKnown, Zenon
<1>11. Kept
  <2>1. \A s \in Slots : Settled(s) => s # k /\ Settled(s)'
    BY <1>2, <1>3, <1>6 DEF Settled, k, Slots
  <2>2. \A s \in Slots, c \in Cells : Visible(s, c)' => s # k
    BY <1>4 DEF Visible, Cells
  <2>3. \A s \in Slots, c \in Cells : Visible(s, c) => s # k
    BY <2>1, VisibleSettled, Zenon
  <2> QED  BY <1>1, <1>4, <2>1, <2>2, <2>3, Zenon DEF Kept, SameInode, Visible, Record
<1>12. CacheKept
  BY <1>1, Zenon DEF CacheKept, SameInode
<1>13. CacheInv'
  <2> SUFFICES ASSUME NEW p \in Paths, NEW s \in Slots, icache[p] # NoInode, InStore(p, s),
                      \A u \in Tasks : pc'[u] \in Saving => job'[u].path # p
               PROVE  icache'[p].n = istore'[s].n
    BY <1>11, <1>12, KeptCache, Zenon
  <2>1. \A u \in Tasks : pc[u] \in Saving => job[u].path # p
    BY <1>1, <1>5, Zenon DEF Saving
  <2>2. icache[p].n = istore[s].n
    BY <2>1, SlotOf, Zenon DEF InStore, SameInode
  <2>3. s # k
    BY <1>3, <1>6 DEF InStore, Settled, k
  <2> QED  BY <1>1, <1>4, <2>2, <2>3, Zenon
<1>14. \A u \in Tasks : Moves(u)
  BY <1>1, <1>5, Zenon DEF Moves, WritePlaces, CreatePlaces, CallInv, CallOK
<1>15. CallInv'
  <2>1. \A u \in Tasks : pc'[u] \notin Recorded \cup Counted
    BY <1>5, Kinds, Zenon DEF Recorded, Counted
  <2> QED  BY <1>11, <1>12, <1>14, <2>1, KeptCall, Zenon DEF CallInv, AheadOK
<1> QED  BY <1>8, <1>9, <1>10, <1>11, <1>13, <1>14, <1>15, KeptRecords, KeptApart, Zenon

LEMMA AddSyncStep ==
  ASSUME Inv, Base', NEW t \in Tasks, inode_add_sync(t)
  PROVE  CrashInv' /\ Kept
<1> USE DEF Inv, CrashInv
<1>0. TypeOK /\ LockInv
  BY Zenon DEF Base
<1>1. /\ pc[t] = "a_sync" /\ pc' = [pc EXCEPT ![t] = "c_record"] /\ dsb' = sb
      /\ UNCHANGED <<sb, istore, blk, distore, dblk, icache, job>>
  BY Zenon DEF inode_add_sync, Goto, cache
<1>2. pc'[t] = "c_record" /\ \A u \in Tasks : u # t => pc'[u] = pc[u] /\ pc[u] \notin DirPlaces
  BY <1>0, <1>1, Types, OneCreator, Zenon DEF DirPlaces, CreatePlaces
<1>3. \A u \in Tasks : Moves(u) /\ NoNewInode(u)
  <2>1. Moves(t) /\ NoNewInode(t)
    BY <1>1, <1>2, Zenon DEF Moves, NoNewInode, WritePlaces, CreatePlaces, AllocatedPlaces,
       NumberedPlaces, DirPlaces
  <2> QED  BY <1>1, <1>2, <2>1, Rests, Zenon
<1>4. \A s \in Slots : InFlight(s)' <=> InFlight(s)
  <2>1. pc[t] \in Adding /\ pc'[t] \in Adding
    BY <1>1, <1>2, Zenon DEF Adding
  <2> QED  BY <1>1, <1>2, <2>1, Zenon DEF InFlight
<1>5. Kept
  BY <1>1, <1>4, Zenon DEF Kept, Settled, Visible, Record, SameInode
<1>6. CacheKept
  BY <1>1, Zenon DEF CacheKept, SameInode
<1>7. CountInv'
  <2>1. ASSUME NEW u \in Tasks, u # t PROVE pc'[u] \notin NumberedPlaces \cup Adding \cup {"a_sync"}
    BY <1>2, <2>1, Zenon DEF NumberedPlaces, DirPlaces, CreatePlaces, Adding
  <2>2. /\ job'[t].count < MaxObjects /\ sb'.count = job'[t].count + 1
        /\ istore'[job'[t].count] = NewInode(job'[t])
    BY <1>1, Zenon DEF CountInv, NumberedPlaces, DirPlaces, CreatePlaces, Adding
  <2> QED  BY <1>1, <1>2, <2>1, <2>2, Zenon DEF CountInv, NewInode
<1>8. StoreInv'
  BY <1>1, <1>4, Zenon DEF StoreInv
<1>9. ContentInv'
  BY <1>1, <1>3, KeptContent, KnownCopies, JobsKnown, Zenon
<1>10. CacheInv'
  <2> SUFFICES ASSUME NEW p \in Paths, NEW s \in Slots, icache[p] # NoInode, InStore(p, s),
                      \A u \in Tasks : pc'[u] \in Saving => job'[u].path # p
               PROVE  icache'[p].n = istore'[s].n
    BY <1>5, <1>6, KeptCache, Zenon
  <2>1. \A u \in Tasks : pc[u] \in Saving => job[u].path # p
    BY <1>1, <1>2, Zenon DEF Saving
  <2> QED  BY <1>1, <2>1, SlotOf, Zenon DEF InStore, SameInode
<1>11. CallInv'
  <2>1. \A u \in Tasks : pc'[u] \notin Recorded \cup Counted
    BY <1>2, Kinds, Zenon DEF Recorded, Counted
  <2> QED  BY <1>3, <1>5, <1>6, <2>1, KeptCall, Zenon DEF CallInv, AheadOK
<1> QED  BY <1>3, <1>5, <1>7, <1>8, <1>9, <1>10, <1>11, KeptRecords, KeptApart, Zenon

\* The records of a directory are not in the way of a write to another block, nor of
\* a write behind them.
LEMMA BlockOfOther ==
  ASSUME Inv, NEW p \in Paths, icache[p] # NoInode, NEW s \in Slots, NEW c \in Cells, Visible(s, c),
         istore[s].block = icache[p].block
  PROVE  InStore(p, s)
<1> USE DEF Inv, CrashInv, Base
<1>1. istore[s] \in Copies /\ icache[p] \in Copies /\ icache[p].ino # 0
  BY Zenon DEF Copies, CacheInv
<1>2. istore[s].ino # 0
  BY <1>1, Zenon DEF ContentInv, Contents, Visible
<1>3. SameInode(icache[p], istore[s])
  BY <1>1, <1>2, OwnBlock, Zenon
<1> QED  BY <1>3, VisibleSettled, Zenon DEF InStore

\* A directory whose children are not being counted is as long as the store says.
LEMMA DirectoryCount ==
  ASSUME Inv, NEW p \in Paths, icache[p].mode = "dir",
         \A u \in Tasks : pc[u] \in Counted => job[u].path # p
  PROVE  \E s \in Slots : /\ InStore(p, s) /\ icache[p].n = istore[s].n
                          /\ \A r \in Slots : istore[r].ino = icache[p].ino <=> r = s
<1> USE DEF Inv, CrashInv
<1>1. icache[p] # NoInode
  BY NoInodeType, Zenon
<1>2. ASSUME NEW u \in Tasks, pc[u] \in Saving PROVE job[u].path # p
  <2>1. CASE pc[u] \in WritePlaces
    BY <2>1, Zenon DEF CallInv, CallOK
  <2> QED  BY <1>2, <2>1, Kinds, Zenon
<1> QED  BY <1>1, <1>2, SlotOf, Zenon

\* A block that is written through and belongs to one inode.
LEMMA WrittenContents ==
  ASSUME Inv, NEW b \in Blocks, NEW j \in Copies, j.ino # 0, j.block = b,
         \A a \in Blocks : a # b => blk'[a] = blk[a] /\ dblk'[a] = dblk[a],
         sb'.free = sb.free, Contents(j)',
         \A i \in Copies' : i \in Copies
  PROVE  ContentInv'
<1> USE DEF Inv, CrashInv
<1>1. ASSUME NEW i \in Copies PROVE Contents(i)'
  <2>0. Contents(i)
    BY Zenon DEF ContentInv
  <2>1. CASE i.ino = 0
    BY <2>0, <2>1, Zenon DEF Contents
  <2>2. CASE i.ino # 0 /\ i.block = b
    <3>1. SameInode(j, i)
      BY <2>2, OwnBlock, Zenon DEF Base
    <3> QED  BY <3>1, Zenon DEF Contents, SameInode
  <2>3. CASE i.ino # 0 /\ i.block # b
    <3>1. i.block \in Blocks
      <4>1. i \in InodeType \/ \E t \in Tasks : pc[t] \in AllocatedPlaces /\ i = NewInode(job[t])
        BY Types DEF Copies, Base
      <4>2. i.mode # "none"
        BY <2>0, <2>3, Zenon DEF Contents
      <4> QED  BY <4>1, <4>2, InodeUpdate DEF Base, JobInv, NewInode, Inode
    <3> QED  BY <2>0, <2>3, <3>1, Zenon DEF Contents
  <2> QED  BY <2>1, <2>2, <2>3, Zenon
<1>2. ~IsFree(sb.free, b)
  BY OwnBlock, Zenon DEF Base
<1>3. \A a \in Blocks : IsFree(sb'.free, a) => \A c \in Cells : blk'[a][c] = Zero /\ dblk'[a][c] = Zero
  BY <1>2 DEF ContentInv
<1> QED  BY <1>1, <1>3, Zenon DEF ContentInv

LEMMA AddRecordStep ==
  ASSUME Inv, Base', NEW t \in Tasks, add_record(t)
  PROVE  CrashInv' /\ Kept
<1> USE DEF Inv, CrashInv
<1> DEFINE p == job[t].path
           b == icache[p].block
           n == icache[p].n
           record == <<job[t].name, InodeNumber(job[t].count)>>
<1>0. TypeOK /\ LockInv /\ p \in Paths
  BY Types, Zenon DEF Base
<1>1. /\ pc[t] = "c_record" /\ pc' = [pc EXCEPT ![t] = "c_mgmt"]
      /\ blk' = [blk EXCEPT ![b][n] = record]
      /\ dblk' = [dblk EXCEPT ![b] = blk'[b]]
      /\ UNCHANGED <<sb, istore, dsb, distore, icache, job>>
  BY Zenon DEF add_record, Goto
<1>2. pc'[t] = "c_mgmt" /\ \A u \in Tasks : u # t => pc'[u] = pc[u] /\ pc[u] \notin DirPlaces
  BY <1>0, <1>1, Types, OneCreator, Zenon DEF DirPlaces, CreatePlaces
<1>3. icache[p] # NoInode /\ icache[p].mode = "dir" /\ icache[p].ino # 0
  BY <1>0, <1>1, Zenon DEF CallInv, CallOK, CreatePlaces, CacheInv
<1>4. PICK s \in Slots : /\ InStore(p, s) /\ n = istore[s].n
                         /\ \A r \in Slots : istore[r].ino = icache[p].ino <=> r = s
  <2>1. \A u \in Tasks : pc[u] \notin Counted
    BY <1>1, <1>2, Kinds, Zenon DEF Counted
  <2> HIDE DEF p
  <2> QED  BY <1>0, <1>3, <2>1, DirectoryCount, Zenon
<1>5. NameNew(s, job[t].name)
  BY <1>1, <1>4, Zenon DEF CallInv, CallOK, CreatePlaces
<1>6. b \in Blocks /\ n \in Cells
  BY <1>0, <1>3, <1>4, <1>5, Types, InodeUpdate, LayoutAssumption DEF NameNew, Cells
<1> HIDE DEF p, b, n, record
<1>7. /\ blk'[b][n] = record /\ dblk'[b] = blk'[b]
      /\ \A c \in Cells : c # n => blk'[b][c] = blk[b][c]
      /\ \A a \in Blocks : a # b => blk'[a] = blk[a] /\ dblk'[a] = dblk[a]
  <2>1. blk \in BlocksType /\ dblk \in BlocksType
    BY <1>0, Types, Zenon
  <2> QED  BY <1>1, <1>6, <2>1, Zenon DEF BlocksType
<1>8. \A u \in Tasks : Moves(u) /\ NoNewInode(u)
  <2>1. Moves(t) /\ NoNewInode(t)
    BY <1>1, <1>2, Zenon DEF Moves, NoNewInode, WritePlaces, CreatePlaces, AllocatedPlaces,
       NumberedPlaces, DirPlaces
  <2> QED  BY <1>1, <1>2, <2>1, Rests, Zenon
<1>9. /\ \A r \in Slots : InFlight(r)' <=> InFlight(r)
      /\ \A u \in Tasks : pc'[u] \in Saving <=> pc[u] \in Saving
  <2>1. pc[t] \in Adding /\ pc'[t] \in Adding /\ pc[t] \notin Saving /\ pc'[t] \notin Saving
    BY <1>1, <1>2, Zenon DEF Adding, Saving
  <2> QED  BY <1>1, <1>2, <2>1, Zenon DEF InFlight
<1>10. Kept
  <2>1. ASSUME NEW r \in Slots, NEW c \in Cells, Visible(r, c) PROVE Record(r, c)' = Record(r, c)
    <3>1. CASE istore[r].block = b
      <4>1. InStore(p, r)
        BY <1>0, <1>3, <2>1, <3>1, BlockOfOther, Zenon DEF b
      <4>2. r = s
        BY <1>4, <4>1, Zenon DEF InStore, SameInode
      <4>3. c # n
        BY <1>4, <1>6, <2>1, <4>2 DEF Visible, Cells
      <4> QED  BY <1>1, <1>7, <2>1, <3>1, <4>3, Zenon DEF Record
    <3>2. CASE istore[r].block # b
      <4>1. istore[r].block \in Blocks
        BY <1>0, <2>1, Types, InodeUpdate, Zenon DEF Visible
      <4> QED  BY <1>1, <1>7, <3>2, <4>1, Zenon DEF Record
    <3> QED  BY <3>1, <3>2, Zenon
  <2> QED  BY <1>1, <1>9, <2>1, Zenon DEF Kept, Settled, Visible, SameInode
<1>11. CacheKept
  BY <1>1, Zenon DEF CacheKept, SameInode
<1>12. CountInv'
  <2>1. ASSUME NEW u \in Tasks, u # t PROVE pc'[u] \notin NumberedPlaces \cup Adding \cup {"a_sync"}
    BY <1>2, <2>1, Zenon DEF NumberedPlaces, DirPlaces, CreatePlaces, Adding
  <2>2. /\ job'[t].count < MaxObjects /\ sb'.count = job'[t].count + 1
        /\ istore'[job'[t].count] = NewInode(job'[t])
    BY <1>1, Zenon DEF CountInv, NumberedPlaces, DirPlaces, CreatePlaces, Adding
  <2>3. dsb'.count = sb'.count
    BY <1>1, <1>2, Zenon DEF CountInv, DirPlaces, CreatePlaces
  <2> QED  BY <1>2, <2>1, <2>2, <2>3, Zenon DEF CountInv, NewInode
<1>13. StoreInv'
  BY <1>1, <1>9, Zenon DEF StoreInv
<1>14. ContentInv'
  <2>1. PICK i \in Copies : i = icache[p]
    BY <1>0, Zenon DEF Copies
  <2>2. Contents(i)'
    BY <1>3, <1>7, <2>1, Zenon DEF Contents, b
  <2>3. \A j \in Copies' : j \in Copies
    BY <1>1, <1>8, Zenon DEF Copies, NewInode, NoNewInode
  <2> QED  BY <1>1, <1>3, <1>6, <1>7, <2>1, <2>2, <2>3, WrittenContents, Zenon DEF b
<1>15. CacheInv'
  <2> SUFFICES ASSUME NEW q \in Paths, NEW r \in Slots, icache[q] # NoInode, InStore(q, r),
                      \A u \in Tasks : pc'[u] \in Saving => job'[u].path # q
               PROVE  icache'[q].n = istore'[r].n
    BY <1>10, <1>11, KeptCache, Zenon
  <2>1. \A u \in Tasks : pc[u] \in Saving => job[u].path # q
    BY <1>1, <1>9, Zenon
  <2> QED  BY <1>1, <2>1, SlotOf, Zenon DEF InStore, SameInode
<1>16. CallInv'
  <2> SUFFICES ASSUME NEW u \in Tasks PROVE AheadOK(u)'
    BY <1>8, <1>10, <1>11, KeptCall, Zenon DEF CallInv
  <2>1. CASE u # t
    BY <1>2, <2>1, Kinds, Zenon DEF AheadOK
  <2>2. CASE u = t
    <3>1. pc'[t] \notin Counted
      BY <1>2, Zenon DEF Counted
    <3>2. ASSUME NEW r \in Slots, istore'[r].ino = icache'[p].ino PROVE Record(r, istore[r].n)' = record
      <4>1. r = s
        BY <1>1, <1>4, <3>2, Zenon
      <4>2. istore[s].block = b
        BY <1>4, Zenon DEF InStore, SameInode, b
      <4> QED  BY <1>1, <1>4, <1>7, <4>1, <4>2, Zenon DEF Record
    <3> QED  BY <1>1, <2>2, <3>1, <3>2, Zenon DEF AheadOK, p, record
  <2> QED  BY <2>1, <2>2, Zenon
<1> QED  BY <1>8, <1>10, <1>12, <1>13, <1>14, <1>15, <1>16, KeptRecords, KeptApart, Zenon

LEMMA CountChildStep ==
  ASSUME Inv, Base', NEW t \in Tasks, pc[t] = "c_mgmt", pc' = [pc EXCEPT ![t] = "c_save"],
         icache' = [icache EXCEPT ![job[t].path].n = @ + 1],
         UNCHANGED <<sb, istore, blk, dsb, distore, dblk, job>>
  PROVE  CrashInv' /\ Kept
<1> USE DEF Inv, CrashInv
<1> DEFINE p == job[t].path
<1>0. TypeOK /\ LockInv /\ p \in Paths
  BY Types, Zenon DEF Base
<1>2. pc'[t] = "c_save" /\ \A u \in Tasks : u # t => pc'[u] = pc[u] /\ pc[u] \notin DirPlaces
  BY <1>0, Types, OneCreator, Zenon DEF DirPlaces, CreatePlaces
<1>3. icache[p] # NoInode /\ icache[p].mode = "dir" /\ icache[p].ino # 0
  BY <1>0, Zenon DEF CallInv, CallOK, CreatePlaces, CacheInv
<1>4. PICK s \in Slots : /\ InStore(p, s) /\ icache[p].n = istore[s].n
                         /\ \A r \in Slots : istore[r].ino = icache[p].ino <=> r = s
  BY <1>0, <1>2, <1>3, Kinds, DirectoryCount DEF Counted
<1>5. SameInode(icache'[p], icache[p]) /\ icache'[p].n = icache[p].n + 1
      /\ \A q \in Paths : q # p => icache'[q] = icache[q]
  BY <1>0, Types, Zenon DEF SameInode, InodeType
<1> HIDE DEF p
<1>6. CacheKept
  BY <1>3, <1>5, Zenon DEF CacheKept, SameInode
<1>7. \A u \in Tasks : Moves(u) /\ NoNewInode(u)
  <2>1. Moves(t) /\ NoNewInode(t)
    BY <1>2, Zenon DEF Moves, NoNewInode, WritePlaces, CreatePlaces, AllocatedPlaces,
       NumberedPlaces, DirPlaces
  <2> QED  BY <1>2, <2>1, Rests, Zenon
<1>8. \A r \in Slots : InFlight(r)' <=> InFlight(r)
  <2>1. pc[t] \in Adding /\ pc'[t] \in Adding
    BY <1>2, Zenon DEF Adding
  <2> QED  BY <1>2, <2>1, Zenon DEF InFlight
<1>9. Kept
  BY <1>8, Zenon DEF Kept, Settled, Visible, Record, SameInode
<1>10. CountInv'
  <2>1. ASSUME NEW u \in Tasks, u # t PROVE pc'[u] \notin NumberedPlaces \cup Adding \cup {"a_sync"}
    BY <1>2, <2>1, Zenon DEF NumberedPlaces, DirPlaces, CreatePlaces, Adding
  <2>2. /\ job'[t].count < MaxObjects /\ sb'.count = job'[t].count + 1
        /\ istore'[job'[t].count] = NewInode(job'[t])
    BY Zenon DEF CountInv, NumberedPlaces, DirPlaces, CreatePlaces, Adding
  <2>3. dsb'.count = sb'.count
    BY <1>2, Zenon DEF CountInv, DirPlaces, CreatePlaces
  <2> QED  BY <1>2, <2>1, <2>2, <2>3, Zenon DEF CountInv, NewInode
<1>11. StoreInv'
  BY <1>8, Zenon DEF StoreInv
<1>12. ContentInv'
  BY <1>6, <1>7, CacheKnown, KeptContent, KnownCopies, JobsKnown, Zenon
<1>13. CacheInv'
  <2> SUFFICES ASSUME NEW q \in Paths, NEW r \in Slots, icache[q] # NoInode, InStore(q, r),
                      \A u \in Tasks : pc'[u] \in Saving => job'[u].path # q
               PROVE  icache'[q].n = istore'[r].n
    BY <1>6, <1>9, KeptCache, Zenon
  <2>1. q # p
    BY <1>2, Zenon DEF Saving, p
  <2>2. \A u \in Tasks : pc[u] \in Saving => job[u].path # q
    BY <1>2, Zenon DEF Saving
  <2> QED  BY <1>5, <2>1, <2>2, SlotOf, Zenon DEF InStore, SameInode
<1>14. CallInv'
  <2> SUFFICES ASSUME NEW u \in Tasks PROVE AheadOK(u)'
    BY <1>6, <1>7, <1>9, KeptCall, Zenon DEF CallInv
  <2>1. CASE u # t
    BY <1>2, <2>1, Kinds, Zenon DEF AheadOK
  <2>2. CASE u = t
    <3> SUFFICES ASSUME NEW r \in Slots, istore[r].ino = icache'[p].ino
                 PROVE  /\ Record(r, istore[r].n)' = <<job[t].name, InodeNumber(job[t].count)>>
                        /\ icache'[p].n = istore[r].n + 1
      BY <2>2, Zenon DEF AheadOK, p
    <3>1. r = s
      BY <1>4, <1>5, Zenon DEF SameInode
    <3>2. Record(s, istore[s].n) = <<job[t].name, InodeNumber(job[t].count)>>
      BY <1>4, Zenon DEF CallInv, AheadOK, Recorded, p
    <3> QED  BY <1>4, <1>5, <3>1, <3>2, Zenon DEF Record
  <2> QED  BY <2>1, <2>2, Zenon
<1> QED  BY <1>7, <1>9, <1>10, <1>11, <1>12, <1>13, <1>14, KeptRecords, KeptApart, Zenon

-------------------------------------------------------------------------------
(***************************************************************************)
(* Writes and lookups.                                                     *)
(***************************************************************************)
LEMMA WriteLockStep ==
  ASSUME Inv, Base', NEW t \in Tasks, pc[t] = "w_mgmt", pc' = [pc EXCEPT ![t] = "w_save"],
         icache' = [icache EXCEPT ![job[t].path].n = job[t].end],
         UNCHANGED <<sb, istore, blk, dsb, distore, dblk, job>>
  PROVE  CrashInv' /\ Kept
<1> USE DEF Inv, CrashInv
<1> DEFINE p == job[t].path
<1>0. TypeOK /\ p \in Paths
  BY Types, Zenon DEF Base
<1>1. pc'[t] = "w_save" /\ \A u \in Tasks : u # t => pc'[u] = pc[u]
  BY <1>0, Types, Zenon
<1>2. icache[p] # NoInode /\ icache[p].mode = "reg"
  BY Zenon DEF CallInv, CallOK, WritePlaces
<1>3. SameInode(icache'[p], icache[p]) /\ \A q \in Paths : q # p => icache'[q] = icache[q]
  BY <1>0, Types, Zenon DEF SameInode, InodeType
<1> HIDE DEF p
<1>4. CacheKept
  BY <1>2, <1>3, Zenon DEF CacheKept, SameInode
<1>5. \A u \in Tasks : Moves(u) /\ Steady(u) /\ NoNewInode(u)
  <2>1. Moves(t) /\ Steady(t) /\ NoNewInode(t)
    BY <1>1, Zenon DEF Moves, Steady, NoNewInode, WritePlaces, CreatePlaces, AllocatedPlaces,
       NumberedPlaces, DirPlaces, Adding, Recorded, Counted
  <2> QED  BY <1>1, <2>1, Rests, Zenon
<1>6. Kept /\ CountInv' /\ StoreInv' /\ ApartInv'
  BY <1>5, KeptVolume, KeptCount, KeptStore, KeptApart, Zenon
<1>7. ContentInv'
  BY <1>4, <1>5, CacheKnown, KeptContent, KnownCopies, JobsKnown, Zenon
<1>8. ASSUME NEW q \in Paths, NEW r \in Slots, icache[q] # NoInode, InStore(q, r),
             \A u \in Tasks : pc'[u] \in Saving => job'[u].path # q
      PROVE  icache'[q].n = istore'[r].n
  <2>1. q # p
    BY <1>1, <1>8, Zenon DEF Saving, p
  <2>2. \A u \in Tasks : pc[u] \in Saving => job[u].path # q
    <3> TAKE u \in Tasks
    <3>1. CASE u = t
      BY <3>1, Zenon DEF Saving
    <3> QED  BY <1>1, <1>8, <3>1, Zenon
  <2> QED  BY <1>3, <1>8, <2>1, <2>2, SlotOf, Zenon DEF InStore, SameInode
<1>9. ASSUME NEW u \in Tasks, pc'[u] \in Recorded
      PROVE  /\ pc[u] \in Recorded /\ (pc'[u] \in Counted => pc[u] \in Counted)
             /\ icache'[job[u].path].n = icache[job[u].path].n
  <2>1. pc[u] \in Recorded /\ (pc'[u] \in Counted => pc[u] \in Counted)
    BY <1>5, <1>9, Zenon DEF Steady
  <2>2. job[u].path # p /\ job[u].path \in Paths
    BY <1>0, <1>2, <2>1, Kinds, Types, Zenon DEF CallInv, CallOK
  <2> QED  BY <1>3, <2>1, <2>2, Zenon
<1> QED  BY <1>4, <1>5, <1>6, <1>7, <1>8, <1>9, Kinds, KeptStep, Zenon

\* What simplefs_write does to the buffers and to the disk.
LEMMA WriteEffect ==
  ASSUME TypeOK, NEW t \in Tasks, NEW p \in Paths, NEW pos, NEW end, write(t, p, pos, end)
  PROVE  /\ pc[t] = "idle" /\ icache[p].mode = "reg" /\ icache[p].block \in Blocks
         /\ \A a \in Blocks : a # icache[p].block => blk'[a] = blk[a] /\ dblk'[a] = dblk[a]
         /\ \A c \in Cells :
              /\ blk'[icache[p].block][c] \in {Data(icache[p].ino), blk[icache[p].block][c]}
              /\ dblk'[icache[p].block][c] \in {dblk[icache[p].block][c], blk'[icache[p].block][c]}
         /\ UNCHANGED <<sb, istore, dsb, distore, icache>>
<1> DEFINE b == icache[p].block
<1>0. b \in Blocks /\ pc[t] = "idle" /\ icache[p].mode = "reg"
  BY Types, InodeUpdate, Zenon DEF write
<1>1. PICK upto : blk' = [blk EXCEPT ![b] = [c \in Cells |->
                            IF pos <= c /\ c < upto THEN Data(icache[p].ino) ELSE blk[b][c]]]
  BY Zenon DEF write
<1>2. UNCHANGED dblk \/ dblk' = [dblk EXCEPT ![b] = blk'[b]]
  BY Zenon DEF write
<1>3. blk \in BlocksType /\ dblk \in BlocksType
  BY Types, Zenon
<1>4. \A a \in Blocks : a # b => blk'[a] = blk[a]
  BY <1>1, <1>3, Zenon DEF BlocksType
<1>5. \A a \in Blocks : a # b => dblk'[a] = dblk[a]
  BY <1>2, <1>3, Zenon DEF BlocksType
<1>6. blk'[b] = [c \in Cells |-> IF pos <= c /\ c < upto THEN Data(icache[p].ino) ELSE blk[b][c]]
  BY <1>0, <1>1, <1>3, Zenon DEF BlocksType
<1>7. \A c \in Cells : blk'[b][c] \in {Data(icache[p].ino), blk[b][c]}
  BY <1>6, Zenon
<1>8. dblk'[b] = dblk[b] \/ dblk'[b] = blk'[b]
  BY <1>0, <1>2, <1>3, Zenon DEF BlocksType
<1>9. UNCHANGED <<sb, istore, dsb, distore, icache>>
  BY Zenon DEF write
<1> QED  BY <1>0, <1>4, <1>5, <1>7, <1>8, <1>9, Zenon

LEMMA WriteStep ==
  ASSUME Inv, Base', NEW t \in Tasks, NEW p \in Paths, NEW pos, NEW end, write(t, p, pos, end)
  PROVE  CrashInv' /\ Kept
<1> USE DEF Inv, CrashInv
<1> DEFINE b == icache[p].block
<1>0. TypeOK
  BY Zenon DEF Base
<1>1. /\ pc[t] = "idle" /\ icache[p].mode = "reg" /\ b \in Blocks
      /\ \A a \in Blocks : a # b => blk'[a] = blk[a] /\ dblk'[a] = dblk[a]
      /\ \A c \in Cells : /\ blk'[b][c] \in {Data(icache[p].ino), blk[b][c]}
                          /\ dblk'[b][c] \in {dblk[b][c], blk'[b][c]}
      /\ UNCHANGED <<sb, istore, dsb, distore, icache>>
  BY <1>0, WriteEffect, Zenon
<1>2. /\ \A u \in Tasks : u # t => pc'[u] = pc[u] /\ job'[u] = job[u]
      /\ \/ pc'[t] = pc[t] /\ job'[t] = job[t]
         \/ pc'[t] = "w_mgmt" /\ job'[t].path = p
  <2>1. \/ UNCHANGED <<pc, job>>
        \/ /\ pc' = [pc EXCEPT ![t] = "w_mgmt"]
           /\ job' = [job EXCEPT ![t] = Job(p, "nil", "none", end)]
    BY Zenon DEF write, Goto
  <2> QED  BY <1>0, <2>1, Types DEF Job
<1> HIDE DEF b
<1>3. icache[p] # NoInode /\ icache[p].ino # 0 /\ icache[p] \in Copies
  BY <1>1, NoInodeType, Zenon DEF CacheInv, Copies
<1>4. \A u \in Tasks : Steady(u) /\ StillSaves(u) /\ NoNewInode(u)
  <2>1. pc'[t] \in {"idle", "w_mgmt"}
    BY <1>1, <1>2, Zenon
  <2>2. Steady(t) /\ StillSaves(t) /\ NoNewInode(t)
    BY <1>1, <2>1, Zenon DEF Steady, StillSaves, NoNewInode, Adding, Saving, Recorded, Counted,
       NumberedPlaces, AllocatedPlaces, DirPlaces, CreatePlaces
  <2> QED  BY <1>2, <2>2, Rests, Zenon
<1>5. CountInv' /\ StoreInv'
  BY <1>1, <1>4, KeptCount, KeptStore, Zenon
<1>6. ContentInv'
  <2>1. PICK i \in Copies : i = icache[p]
    BY <1>3, Zenon
  <2>2. Contents(i)
    BY Zenon DEF ContentInv
  <2>3. \A c \in Cells : blk'[b][c] \in {Zero, Data(i.ino)} /\ dblk'[b][c] \in {Zero, Data(i.ino)}
    BY <1>1, <2>1, <2>2, Zenon DEF Contents, b
  <2>4. Contents(i)'
    BY <1>1, <1>3, <2>1, <2>3, Zenon DEF Contents, b
  <2>5. \A j \in Copies' : j \in Copies
    BY <1>1, <1>4 DEF Copies, NewInode, NoNewInode
  <2> QED  BY <1>1, <1>3, <2>1, <2>4, <2>5, WrittenContents, Zenon DEF b
<1>7. Kept
  <2>1. \A r \in Slots : InFlight(r)' <=> InFlight(r)
    BY <1>4, KeptFlight, Zenon
  <2>2. ASSUME NEW r \in Slots, NEW c \in Cells, Visible(r, c) PROVE Record(r, c)' = Record(r, c)
    <3>1. istore[r].block # b
      BY <1>1, <1>3, <2>2, BlockOfOther, Zenon DEF b, InStore, SameInode, Visible
    <3>2. istore[r].block \in Blocks
      BY <1>0, <2>2, Types, InodeUpdate, Zenon DEF Visible
    <3> QED  BY <1>1, <3>1, <3>2, Zenon DEF Record
  <2> QED  BY <1>1, <2>1, <2>2, Zenon DEF Kept, Settled, Visible, SameInode
<1>8. CacheKept
  BY <1>1, Zenon DEF CacheKept, SameInode
<1>9. Moves(t) \/ CallOK(t)'
  <2>1. CASE pc'[t] = pc[t] /\ job'[t] = job[t]
    BY <2>1, Rests, Zenon
  <2>2. CASE pc'[t] = "w_mgmt" /\ job'[t].path = p
    BY <1>1, <1>3, <2>2, Zenon DEF CallOK, CreatePlaces
  <2> QED  BY <1>2, <2>1, <2>2, Zenon
<1>10. ApartInv'
  BY <1>1, <1>2 DEF ApartInv, CreatePlaces
<1>11. ASSUME NEW q \in Paths, NEW r \in Slots, icache[q] # NoInode, InStore(q, r),
              \A u \in Tasks : pc'[u] \in Saving => job'[u].path # q
       PROVE  icache'[q].n = istore'[r].n
  <2>1. \A u \in Tasks : pc[u] \in Saving => job[u].path # q
    BY <1>4, <1>11, Zenon DEF StillSaves
  <2> QED  BY <1>1, <1>11, <2>1, SlotOf, Zenon DEF InStore, SameInode
<1>12. ASSUME NEW u \in Tasks, pc'[u] \in Recorded
       PROVE  /\ pc[u] \in Recorded /\ job'[u] = job[u] /\ (pc'[u] \in Counted => pc[u] \in Counted)
              /\ blk'[icache[job[u].path].block] = blk[icache[job[u].path].block]
  <2>1. pc[u] \in Recorded /\ job'[u] = job[u] /\ (pc'[u] \in Counted => pc[u] \in Counted)
    BY <1>4, <1>12, Kinds, Zenon DEF Steady
  <2>2. job[u].path \in Paths /\ icache[job[u].path].mode = "dir" /\ icache[job[u].path].ino # 0
    BY <1>0, <2>1, Kinds, Types, NoInodeType, Zenon DEF CallInv, CallOK, CacheInv
  <2>3. icache[job[u].path].block # b
    BY <1>1, <1>3, <2>2, OwnBlock, Zenon DEF Base, Copies, SameInode, b
  <2>4. icache[job[u].path].block \in Blocks
    BY <1>0, <2>2, Types, InodeUpdate, Zenon
  <2> QED  BY <1>1, <2>1, <2>3, <2>4, Zenon
<1>13. \A u \in Tasks : Moves(u) \/ CallOK(u)'
  BY <1>2, <1>9, Rests, Zenon
<1> QED  BY <1>1, <1>5, <1>6, <1>7, <1>8, <1>10, <1>11, <1>12, <1>13, Kinds, KeptStep

-------------------------------------------------------------------------------
\* simplefs_inode_save finds the slot of the inode: it never fails.
LEMMA SaveEffect ==
  ASSUME Inv, NEW t \in Tasks, inode_save(t)
  PROVE  \E s \in Slots :
           /\ InStore(job[t].path, s)
           /\ \A r \in Slots : istore[r].ino = icache[job[t].path].ino <=> r = s
           /\ istore' = [istore EXCEPT ![s] = icache[job[t].path]]
           /\ distore' = istore'
           /\ IF pc[t] = "c_saving"
              THEN /\ icache' = [icache EXCEPT ![Child(t)] = NewInode(job[t])]
                   /\ acked' = acked \cup {Acknowledged(job[t])}
              ELSE UNCHANGED <<icache, acked>>
<1> USE DEF Inv, CrashInv
<1>1. job[t].path \in Paths /\ icache[job[t].path] # NoInode
  BY Types, Zenon DEF Base, inode_save, CallInv, CallOK
<1>2. PICK s \in Slots : /\ InStore(job[t].path, s)
                         /\ \A r \in Slots : istore[r].ino = icache[job[t].path].ino <=> r = s
  BY <1>1, SlotOf, Zenon
<1>3. s < sb.count /\ istore[s].ino # 0 /\ istore[s].ino = icache[job[t].path].ino
  BY <1>1, <1>2, Zenon DEF InStore, Settled, CacheInv
<1>4. inode_search(icache[job[t].path].ino) = {s}
  BY <1>3, InodeSearch, Zenon
<1>5. /\ istore' = [istore EXCEPT ![s] = icache[job[t].path]] /\ distore' = istore'
      /\ IF pc[t] = "c_saving"
         THEN /\ icache' = [icache EXCEPT ![Child(t)] = NewInode(job[t])]
              /\ acked' = acked \cup {Acknowledged(job[t])}
         ELSE UNCHANGED <<icache, acked>>
  BY <1>4, Zenon DEF inode_save, Child
<1> QED  BY <1>2, <1>5, Zenon

LEMMA SaveWriteStep ==
  ASSUME Inv, Base', NEW t \in Tasks, inode_save(t), pc[t] = "w_saving"
  PROVE  CrashInv' /\ Kept /\ UNCHANGED acked
<1> USE DEF Inv, CrashInv
<1> DEFINE p == job[t].path
<1>0. TypeOK /\ p \in Paths
  BY Types, Zenon DEF Base
<1>1. PICK s \in Slots :
        /\ InStore(p, s) /\ \A r \in Slots : istore[r].ino = icache[p].ino <=> r = s
        /\ istore' = [istore EXCEPT ![s] = icache[p]]
        /\ distore' = istore' /\ UNCHANGED <<icache, acked>>
  BY SaveEffect, Zenon
<1>2. /\ pc'[t] = "idle" /\ \A u \in Tasks : u # t => pc'[u] = pc[u] /\ job'[u] = job[u]
      /\ UNCHANGED <<sb, blk, dsb, dblk>>
  BY <1>0, Types, Zenon DEF inode_save, Return, Goto
<1>3. istore'[s] = icache[p] /\ \A r \in Slots : r # s => istore'[r] = istore[r]
  BY <1>0, <1>1, Types, Zenon
<1>4. icache[p] # NoInode /\ icache[p].mode = "reg" /\ icache[p].ino # 0
  BY <1>0, Zenon DEF CallInv, CallOK, WritePlaces, CacheInv
<1> HIDE DEF p
<1>5. SameInode(istore'[s], istore[s]) /\ istore[s].mode = "reg" /\ Settled(s)
  BY <1>1, <1>3, <1>4, Zenon DEF InStore, SameInode
<1>6. \A u \in Tasks : Moves(u) /\ Steady(u) /\ NoNewInode(u)
  <2>1. Moves(t) /\ Steady(t) /\ NoNewInode(t)
    BY <1>2, Zenon DEF Moves, Steady, NoNewInode, WritePlaces, CreatePlaces, AllocatedPlaces,
       NumberedPlaces, DirPlaces, Adding, Recorded, Counted
  <2> QED  BY <1>2, <2>1, Rests, Zenon
<1>7. CountInv'
  <2>1. ASSUME NEW u \in Tasks, pc[u] \in Adding PROVE istore'[job[u].count] = istore[job[u].count]
    <3>1. job[u].count # s
      BY <1>5, <2>1, Zenon DEF Settled, InFlight
    <3>2. job[u].count \in Slots
      BY <1>0, <2>1, FlightSlot, Zenon
    <3> QED  BY <1>3, <3>1, <3>2, Zenon
  <2> QED  BY <1>2, <1>6, <2>1, KeptCount, Zenon
<1>8. StoreInv'
  BY <1>1, <1>2, <1>3, <1>4, <1>5, Zenon DEF StoreInv, Settled
<1>9. ContentInv'
  <2>1. \A r \in Slots : Known(istore'[r]) /\ Known(distore'[r])
    BY <1>0, <1>1, <1>3, KnownCopies, Zenon
  <2> QED  BY <1>1, <1>2, <1>6, <2>1, KeptContent, KnownCopies, JobsKnown, Zenon
<1>10. Kept
  <2>1. \A r \in Slots : InFlight(r)' <=> InFlight(r)
    BY <1>6, KeptFlight, Zenon
  <2>2. \A r \in Slots : istore'[r] = istore[r] \/ (r = s /\ istore'[r].mode = "reg" /\ istore[r].mode = "reg")
    BY <1>3, <1>4, <1>5, Zenon
  <2> QED  BY <1>2, <1>5, <2>1, <2>2, Zenon DEF Kept, Settled, Visible, Record, SameInode
<1>11. CacheKept
  BY <1>1, Zenon DEF CacheKept, SameInode
<1>12. ASSUME NEW q \in Paths, NEW r \in Slots, icache[q] # NoInode, InStore(q, r),
              \A u \in Tasks : pc'[u] \in Saving => job'[u].path # q
       PROVE  icache'[q].n = istore'[r].n
  <2>1. CASE q = p
    BY <1>1, <1>3, <1>12, <2>1, Zenon DEF InStore, SameInode
  <2>2. CASE q # p
    <3>1. r # s
      BY <1>0, <1>1, <1>4, <1>12, <2>2 DEF CacheInv, InStore, SameInode, p
    <3>2. \A u \in Tasks : pc[u] \in Saving => job[u].path # q
      BY <1>2, <1>12, <2>2, Zenon DEF p
    <3> QED  BY <1>1, <1>3, <1>12, <3>1, <3>2, SlotOf, SMTT(20) DEF InStore, SameInode
  <2> QED  BY <2>1, <2>2, Zenon
<1>13. \A u \in Tasks : /\ pc'[u] \in Recorded => pc[u] \in Recorded /\ job'[u] = job[u]
                        /\ pc'[u] \in Counted => pc[u] \in Counted
  BY <1>6, Kinds, Zenon DEF Steady
<1> QED  BY <1>1, <1>2, <1>6, <1>7, <1>8, <1>9, <1>10, <1>11, <1>12, <1>13, KeptApart, KeptStep, Zenon

\* The save that ends a create makes the record after the last one count.
Completes(t, s) ==
  /\ pc[t] = "c_saving" /\ Settled(s) /\ istore[s].mode = "dir"
  /\ istore[s].ino = icache[job[t].path].ino /\ istore[s].ino # 0
  /\ SameInode(istore'[s], istore[s]) /\ istore'[s].n = istore[s].n + 1 /\ istore[s].n \in Cells
  /\ \A r \in Slots : r # s => istore'[r] = istore[r]
  /\ UNCHANGED blk
  /\ Record(s, istore[s].n) = <<job[t].name, InodeNumber(job[t].count)>>
  /\ NameNew(s, job[t].name) /\ job[t].name \in Names
  /\ job[t].count \in Slots /\ istore[job[t].count] = NewInode(job[t]) /\ job[t].count # s

\* Nothing is in flight any more.
LEMMA SaveCreateEffect ==
  ASSUME Inv, NEW t \in Tasks, inode_save(t), pc[t] = "c_saving"
  PROVE  \E s \in Slots :
           /\ Completes(t, s) /\ InStore(job[t].path, s) /\ istore'[s] = icache[job[t].path]
           /\ \A r \in Slots : istore[r].ino = icache[job[t].path].ino <=> r = s
           /\ distore' = istore' /\ UNCHANGED <<sb, dsb, dblk>>
           /\ Child(t) \in Paths /\ icache[Child(t)] = NoInode
           /\ icache'[Child(t)] = NewInode(job[t])
           /\ \A q \in Paths : q # Child(t) => icache'[q] = icache[q]
           /\ acked' = acked \cup {Acknowledged(job[t])}
           /\ pc'[t] = "idle"
           /\ \A u \in Tasks : u # t => pc'[u] = pc[u] /\ job'[u] = job[u] /\ pc[u] \notin DirPlaces
           /\ \A r \in Slots : (InFlight(r) <=> r = job[t].count) /\ ~InFlight(r)'
<1> USE DEF Inv, CrashInv
<1> DEFINE p == job[t].path
           k == job[t].count
<1>0. TypeOK /\ LockInv /\ p \in Paths /\ k \in Nat
  BY Types, Zenon DEF Base
<1>1. PICK s \in Slots :
        /\ InStore(p, s) /\ \A r \in Slots : istore[r].ino = icache[p].ino <=> r = s
        /\ istore' = [istore EXCEPT ![s] = icache[p]] /\ distore' = istore'
        /\ icache' = [icache EXCEPT ![Child(t)] = NewInode(job[t])]
        /\ acked' = acked \cup {Acknowledged(job[t])}
  BY SaveEffect, Zenon
<1>2. /\ pc'[t] = "idle" /\ \A u \in Tasks : u # t => pc'[u] = pc[u] /\ job'[u] = job[u]
      /\ UNCHANGED <<sb, blk, dsb, dblk>>
  BY <1>0, Types, Zenon DEF inode_save, Return, Goto
<1>3. \A u \in Tasks : u # t => pc[u] \notin DirPlaces
  BY <1>0, OneCreator, Zenon DEF DirPlaces, CreatePlaces
<1>4. istore'[s] = icache[p] /\ \A r \in Slots : r # s => istore'[r] = istore[r]
  BY <1>0, <1>1, Types, Zenon
<1>5. pc[t] \in CreatePlaces /\ pc[t] \in Counted /\ pc[t] \in Recorded /\ pc[t] \in Adding
      /\ pc[t] \in NumberedPlaces \ {"c_new"}
  BY Zenon DEF CreatePlaces, Counted, Recorded, Adding, NumberedPlaces, DirPlaces
<1>6. /\ icache[p].mode = "dir" /\ job[t].name \in Names
      /\ Child(t) \in Paths /\ icache[Child(t)] = NoInode /\ icache[p] # NoInode
  BY <1>5, Zenon DEF CallInv, CallOK
<1>7. icache[p].ino # 0
  BY <1>0, <1>6, Zenon DEF CacheInv
<1>8. /\ NameNew(s, job[t].name)
      /\ Record(s, istore[s].n) = <<job[t].name, InodeNumber(k)>>
      /\ icache[p].n = istore[s].n + 1
  BY <1>1, <1>5, Zenon DEF CallInv, CallOK, AheadOK
<1>9. k < MaxObjects /\ istore[k] = NewInode(job[t]) /\ k \in Slots
  BY <1>0, <1>5, LayoutAssumption DEF CountInv, Slots
<1>10. istore[s].n \in Cells
  BY <1>0, <1>8, Types, InodeUpdate, LayoutAssumption DEF NameNew, Cells
<1>11. \A r \in Slots : (InFlight(r) <=> r = k) /\ ~InFlight(r)'
  <2>1. pc'[t] \notin Adding /\ \A u \in Tasks : u # t => pc[u] \notin Adding
    BY <1>2, <1>3, Kinds, Zenon DEF Adding
  <2> QED  BY <1>2, <1>5, <2>1, Zenon DEF InFlight
<1>12. Settled(s) /\ SameInode(icache[p], istore[s]) /\ s # k
  BY <1>1, <1>11, Zenon DEF InStore, Settled
<1> HIDE DEF p, k
<1>13. \A q \in Paths : q # Child(t) => icache'[q] = icache[q]
  BY <1>0, <1>1, Types, Zenon
<1>14. icache'[Child(t)] = NewInode(job[t])
  BY <1>0, <1>1, <1>6, Types, Zenon
<1>15. Completes(t, s)
  BY <1>2, <1>4, <1>6, <1>7, <1>8, <1>9, <1>10, <1>12, Zenon DEF Completes, SameInode, p, k
<1> QED  BY <1>1, <1>2, <1>3, <1>4, <1>6, <1>11, <1>13, <1>14, <1>15, Zenon DEF p, k

LEMMA CompletesVisible ==
  ASSUME TypeOK, NEW t \in Tasks, NEW s \in Slots, Completes(t, s), NEW r \in Slots, NEW c \in Cells
  PROVE  /\ Visible(r, c)' <=> Visible(r, c) \/ (r = s /\ c = istore[s].n)
         /\ Record(r, c)' = Record(r, c)
<1>1. c \in Nat /\ istore[s].n \in Nat
  BY Types, InodeUpdate DEF Cells
<1>2. c < istore[s].n + 1 <=> c < istore[s].n \/ c = istore[s].n
  BY <1>1
<1>3. CASE r = s
  BY <1>2, <1>3, Zenon DEF Completes, Visible, Record, SameInode
<1>4. CASE r # s
  BY <1>4, Zenon DEF Completes, Visible, Record
<1> QED  BY <1>3, <1>4, Zenon

\* The number of an inode in flight is the target of no record.
LEMMA NewTarget ==
  ASSUME Inv, NEW t \in Tasks, pc[t] \in Adding,
         NEW r \in Slots, NEW c \in Cells, Visible(r, c)
  PROVE  Record(r, c)[2] # InodeNumber(job[t].count)
<1> USE DEF Inv, CrashInv
<1>1. PICK u \in Slots : Settled(u) /\ istore[u].ino = Record(r, c)[2]
  BY Zenon DEF RecordInv
<1>2. /\ istore[job[t].count].ino = InodeNumber(job[t].count) /\ InodeNumber(job[t].count) # 0
      /\ job[t].count \in Slots
  BY FlightSlot, Zenon DEF Base
<1>3. Numbered(istore)
  BY Zenon DEF Base, NumberInv
<1>4. u # job[t].count
  BY <1>1, Zenon DEF Settled, InFlight
<1> QED  BY <1>1, <1>2, <1>3, <1>4, SlotOfNumber, Zenon

LEMMA SaveCreateRecords ==
  ASSUME Inv, NEW t \in Tasks, NEW s \in Slots, Completes(t, s), sb' = sb,
         \A r \in Slots : ~InFlight(r)'
  PROVE  RecordInv'
<1> USE DEF Inv, CrashInv
<1> DEFINE n == istore[s].n
<1>0. TypeOK /\ pc[t] \in Adding /\ n \in Cells
  BY Zenon DEF Base, Completes, Adding
<1>1. PICK k \in Slots : k = job[t].count
  BY Zenon DEF Completes
<1>2. \A r \in Slots, c \in Cells : Visible(r, c)' <=> Visible(r, c) \/ (r = s /\ c = n)
  BY <1>0, CompletesVisible, Zenon
<1>3. \A r \in Slots, c \in Cells : Record(r, c)' = Record(r, c)
  BY <1>0, CompletesVisible, Zenon
<1>4. Record(s, n) = <<job[t].name, InodeNumber(k)>>
  BY <1>1, Zenon DEF Completes
<1>5. \A r \in Slots : Settled(r) => Settled(r)' /\ istore'[r].ino = istore[r].ino
  BY Zenon DEF Settled, Completes, SameInode
<1>6. Settled(k)' /\ istore'[k].ino = InodeNumber(k)
  <2>1. k < sb.count /\ istore[k].ino = InodeNumber(k)
    BY <1>0, <1>1, FlightSlot, Zenon
  <2>2. istore'[k] = istore[k]
    BY <1>1, Zenon DEF Completes
  <2> QED  BY <2>1, <2>2, Zenon DEF Settled
<1>7. InodeNumber(k) \notin {0, RootIno}
  BY <1>0, <1>1, FlightSlot, Zenon
<1>8. job[t].name \notin {"nil", "data"}
  BY NameAssumption, Zenon DEF Completes
<1>9. \A r \in Slots, c \in Cells : Visible(r, c) => Record(r, c)[2] # InodeNumber(k)
  BY <1>0, <1>1, NewTarget, Zenon
<1>10. \A c \in Cells : Visible(s, c) => Record(s, c)[1] # job[t].name
  BY Zenon DEF Completes, NameNew, Visible
<1>11. ~Visible(s, n)
  BY <1>0 DEF Visible, Cells
<1> HIDE DEF n
<1> SUFFICES ASSUME NEW r \in Slots, NEW c \in Cells, Visible(r, c)'
             PROVE  /\ Record(r, c)[1] \notin {"nil", "data"}
                    /\ Record(r, c)[2] \notin {0, RootIno}
                    /\ \E u \in Slots : Settled(u)' /\ istore'[u].ino = Record(r, c)[2]
                    /\ \A q \in Slots, e \in Cells :
                         /\ Visible(q, e)'
                         /\ \/ Record(q, e)[2] = Record(r, c)[2]
                            \/ q = r /\ Record(q, e)[1] = Record(r, c)[1]
                         => q = r /\ e = c
  BY <1>3 DEF RecordInv
<1>12. CASE Visible(r, c)
  <2>1. /\ Record(r, c)[1] \notin {"nil", "data"}
        /\ Record(r, c)[2] \notin {0, RootIno}
        /\ \E u \in Slots : Settled(u)' /\ istore'[u].ino = Record(r, c)[2]
    BY <1>5, <1>12 DEF RecordInv
  <2>2. ASSUME NEW q \in Slots, NEW e \in Cells, Visible(q, e)',
               \/ Record(q, e)[2] = Record(r, c)[2]
               \/ q = r /\ Record(q, e)[1] = Record(r, c)[1]
        PROVE  q = r /\ e = c
    <3>1. CASE Visible(q, e)
      BY <1>12, <2>2, <3>1 DEF RecordInv
    <3>2. CASE q = s /\ e = n
      BY <1>4, <1>9, <1>10, <1>12, <2>2, <3>2, SMTT(20)
    <3> QED  BY <1>2, <2>2, <3>1, <3>2, Zenon
  <2> QED  BY <2>1, <2>2, Zenon
<1>13. CASE r = s /\ c = n
  <2>1. /\ Record(r, c)[1] \notin {"nil", "data"}
        /\ Record(r, c)[2] \notin {0, RootIno}
        /\ \E u \in Slots : Settled(u)' /\ istore'[u].ino = Record(r, c)[2]
    <3>1. Record(r, c) = <<job[t].name, InodeNumber(k)>>
      BY <1>4, <1>13, Zenon
    <3> QED  BY <1>6, <1>7, <1>8, <3>1
  <2>2. ASSUME NEW q \in Slots, NEW e \in Cells, Visible(q, e)',
               \/ Record(q, e)[2] = Record(r, c)[2]
               \/ q = r /\ Record(q, e)[1] = Record(r, c)[1]
        PROVE  q = r /\ e = c
    <3>1. CASE Visible(q, e)
      BY <1>4, <1>9, <1>10, <1>13, <2>2, <3>1
    <3> QED  BY <1>2, <1>13, <2>2, <3>1, Zenon
  <2> QED  BY <2>1, <2>2, Zenon
<1> QED  BY <1>2, <1>12, <1>13, Zenon

\* The same, with rigid names for the path p of the directory, the path of the child
\* and the slots of both.
Created(t, p, s, child, k) ==
  /\ p = job[t].path /\ child = Child(t) /\ k = job[t].count
  /\ Completes(t, s) /\ InStore(p, s) /\ istore'[s] = icache[p]
  /\ \A r \in Slots : istore[r].ino = icache[p].ino <=> r = s
  /\ distore' = istore' /\ UNCHANGED <<sb, dsb, dblk>>
  /\ icache[child] = NoInode /\ icache'[child] = NewInode(job[t])
  /\ \A q \in Paths : q # child => icache'[q] = icache[q]
  /\ pc'[t] = "idle"
  /\ \A u \in Tasks : u # t => pc'[u] = pc[u] /\ job'[u] = job[u] /\ pc[u] \notin DirPlaces
  /\ \A r \in Slots : (InFlight(r) <=> r = k) /\ ~InFlight(r)'

LEMMA CreatedFacts ==
  ASSUME Inv, NEW t \in Tasks, NEW p \in Paths, NEW s \in Slots, NEW child \in Paths, NEW k \in Slots,
         Created(t, p, s, child, k)
  PROVE  /\ icache[p] # NoInode /\ icache[p].ino # 0 /\ p # child /\ pc[t] \in CreatePlaces
         /\ Settled(k)' /\ istore'[k] = istore[k] /\ istore[k] = NewInode(job[t])
         /\ NewInode(job[t]).ino = InodeNumber(k) /\ InodeNumber(k) # 0 /\ NewInode(job[t]).n = 0
         /\ \A r \in Slots : Settled(r) => Settled(r)' /\ r # k
         /\ \A r \in Slots : istore'[r].ino = istore[r].ino
         /\ child = Append(p, job[t].name) /\ job[t].name \in Names
<1> USE DEF Inv, CrashInv
<1>1. pc[t] = "c_saving" /\ pc[t] \in Adding /\ pc[t] \in CreatePlaces
  BY Zenon DEF Created, Completes, Adding, CreatePlaces
<1>2. icache[p] # NoInode /\ icache[p].ino # 0
  BY <1>1, Zenon DEF Created, CallInv, CallOK, CacheInv
<1>3. /\ k < sb.count /\ istore[k] = NewInode(job[t]) /\ istore[k].ino = InodeNumber(k)
      /\ InodeNumber(k) # 0
  BY <1>1, FlightSlot, Zenon DEF Created, Base
<1>4. istore'[k] = istore[k] /\ \A r \in Slots : istore'[r].ino = istore[r].ino
  BY Zenon DEF Created, Completes, SameInode
<1>5. Settled(k)' /\ \A r \in Slots : Settled(r) => Settled(r)' /\ r # k
  BY <1>3, Zenon DEF Created, Settled
<1>6. NewInode(job[t]).n = 0 /\ p # child
  BY <1>2, Zenon DEF NewInode, Inode, Created
<1>7. child = Append(p, job[t].name) /\ job[t].name \in Names
  BY Zenon DEF Created, Completes, Child
<1> QED  BY <1>1, <1>2, <1>3, <1>4, <1>5, <1>6, <1>7, Zenon

LEMMA CreatedCache ==
  ASSUME Inv, NEW t \in Tasks, NEW p \in Paths, NEW s \in Slots, NEW child \in Paths, NEW k \in Slots,
         Created(t, p, s, child, k)
  PROVE  CacheInv'
<1> USE DEF Inv, CrashInv
<1>0. /\ icache[p] # NoInode /\ icache[p].ino # 0 /\ p # child
      /\ Settled(k)' /\ istore'[k] = istore[k] /\ istore[k] = NewInode(job[t])
      /\ NewInode(job[t]).ino = InodeNumber(k) /\ InodeNumber(k) # 0 /\ NewInode(job[t]).n = 0
      /\ \A r \in Slots : Settled(r) => Settled(r)' /\ r # k
      /\ \A r \in Slots : istore'[r].ino = istore[r].ino
      /\ child = Append(p, job[t].name) /\ job[t].name \in Names
  BY CreatedFacts
<1>1. /\ icache[child] = NoInode /\ icache'[child] = NewInode(job[t])
      /\ \A q \in Paths : q # child => icache'[q] = icache[q]
      /\ istore'[s] = icache[p] /\ InStore(p, s) /\ Completes(t, s)
      /\ \A r \in Slots : r # s => istore'[r] = istore[r]
      /\ \A r \in Slots : istore[r].ino = icache[p].ino <=> r = s
  BY Zenon DEF Created, Completes
<1>2. icache'[Root].ino \in {0, RootIno}
  BY <1>0, <1>1, RootPath, ChildNotRoot, Zenon DEF CacheInv
<1>3. ASSUME NEW q \in Paths, icache'[q] # NoInode
      PROVE  /\ icache'[q].ino # 0
             /\ \E r \in Slots :
                  /\ InStore(q, r)'
                  /\ (\A u \in Tasks : pc'[u] \in Saving => job'[u].path # q) => icache'[q].n = istore'[r].n
  <2>1. CASE q = child
    BY <1>0, <1>1, <2>1, Zenon DEF InStore, SameInode
  <2>2. CASE q = p
    BY <1>0, <1>1, <2>2, Zenon DEF InStore, SameInode
  <2>3. CASE q # child /\ q # p
    <3>1. icache'[q] = icache[q] /\ icache[q] # NoInode /\ icache[q].ino # 0
      BY <1>1, <1>3, <2>3, Zenon DEF CacheInv
    <3>2. PICK r \in Slots :
            /\ InStore(q, r)
            /\ (\A u \in Tasks : pc[u] \in Saving => job[u].path # q) => icache[q].n = istore[r].n
      BY <3>1, Zenon DEF CacheInv
    <3>3. r # s
      BY <1>1, <2>3, <3>1, <3>2 DEF CacheInv, InStore, SameInode
    <3>4. istore'[r] = istore[r]
      BY <1>1, <3>3, Zenon
    <3>5. InStore(q, r)'
      BY <1>0, <3>1, <3>2, <3>4, Zenon DEF InStore, SameInode
    <3>6. ASSUME \A u \in Tasks : pc'[u] \in Saving => job'[u].path # q
          PROVE  \A u \in Tasks : pc[u] \in Saving => job[u].path # q
      BY <2>3, <3>6, Zenon DEF Created
    <3> QED  BY <3>1, <3>2, <3>4, <3>5, <3>6, Zenon
  <2> QED  BY <2>1, <2>2, <2>3, Zenon
<1>4. ASSUME NEW q \in Paths, q # child PROVE icache'[q].ino # InodeNumber(k)
  <2> SUFFICES ASSUME icache[q].ino = InodeNumber(k) PROVE FALSE
    BY <1>1, <1>4, Zenon
  <2>1. PICK r \in Slots : InStore(q, r)
    BY <1>0, NoInodeType, Zenon DEF CacheInv
  <2>2. istore[r].ino = istore[k].ino /\ istore[k].ino # 0 /\ Settled(r)
    BY <1>0, <2>1, Zenon DEF InStore, SameInode
  <2>3. Numbered(istore)
    BY Zenon DEF Base, NumberInv
  <2> QED  BY <1>0, <2>2, <2>3, SlotOfNumber, Zenon
<1>5. \A q, r \in Paths : icache'[q].ino = icache'[r].ino /\ icache'[q].ino # 0 => q = r
  <2> SUFFICES ASSUME NEW q \in Paths, NEW r \in Paths, icache'[q].ino = icache'[r].ino, icache'[q].ino # 0
               PROVE  q = r
    BY Zenon
  <2>1. icache'[child].ino = InodeNumber(k)
    BY <1>0, <1>1, Zenon
  <2>2. CASE q # child /\ r # child
    <3>1. icache[q].ino = icache[r].ino /\ icache[q].ino # 0
      BY <1>1, <2>2, Zenon
    <3> QED  BY <3>1, OnePath, Zenon
  <2>3. CASE q = child \/ r = child
    BY <1>4, <2>1, <2>3, Zenon
  <2> QED  BY <2>2, <2>3, Zenon
<1>6. ASSUME NEW d \in Paths, NEW name \in Names, Append(d, name) \in Paths,
             icache'[Append(d, name)] # NoInode
      PROVE  Reached(d, name)'
  <2>1. CASE Append(d, name) = child
    <3>1. d = p /\ name = job[t].name
      <4>1. Append(d, name) = Append(p, job[t].name) /\ job[t].name \in Names
        BY <1>0, <2>1, Zenon
      <4> QED  BY <4>1, ChildInjective
    <3>2. PICK n \in Cells : n = istore[s].n
      BY <1>1, Zenon DEF Completes
    <3>3. Visible(s, n)' /\ Record(s, n)' = Record(s, n)
      BY <1>1, <3>2, CompletesVisible DEF Base
    <3>4. Record(s, n) = <<name, InodeNumber(k)>>
      BY <1>1, <3>1, <3>2, Zenon DEF Completes, Created
    <3>5. istore'[s].ino = icache'[d].ino
      BY <1>0, <1>1, <3>1, Zenon
    <3> QED  BY <1>0, <1>1, <2>1, <3>3, <3>4, <3>5 DEF Reached
  <2>2. CASE Append(d, name) # child
    <3>1. icache'[Append(d, name)] = icache[Append(d, name)]
      BY <1>1, <1>6, <2>2, Zenon
    <3>2. PICK r \in Slots, c \in Cells :
                 /\ istore[r].ino = icache[d].ino /\ Visible(r, c)
                 /\ Record(r, c) = <<name, icache[Append(d, name)].ino>>
      BY <1>6, <3>1, Zenon DEF CacheInv, Reached
    <3>3. istore[r].ino # 0
      BY <3>2, Zenon DEF ContentInv, Contents, Copies, Visible
    <3>4. d # child
      BY <1>1, <3>2, <3>3, NoInodeType, Zenon
    <3>5. Visible(r, c)' /\ Record(r, c)' = Record(r, c)
      BY <1>1, <3>2, CompletesVisible, Zenon DEF Base
    <3>6. istore'[r].ino = icache'[d].ino
      BY <1>0, <1>1, <3>2, <3>4, Zenon
    <3> QED  BY <3>1, <3>2, <3>5, <3>6, Zenon DEF Reached
  <2> QED  BY <2>1, <2>2, Zenon
<1> QED  BY <1>2, <1>3, <1>5, <1>6, Zenon DEF CacheInv

LEMMA CreatedCalls ==
  ASSUME Inv, NEW t \in Tasks, NEW p \in Paths, NEW s \in Slots, NEW child \in Paths, NEW k \in Slots,
         Created(t, p, s, child, k), NEW u \in Tasks
  PROVE  CallOK(u)' /\ AheadOK(u)'
<1> USE DEF Inv, CrashInv
<1>0. /\ icache[p] # NoInode /\ icache[p].ino # 0 /\ p # child /\ pc[t] \in CreatePlaces
      /\ \A r \in Slots : istore'[r].ino = istore[r].ino
      /\ child = Append(p, job[t].name) /\ job[t].name \in Names
  BY CreatedFacts
<1>1. /\ icache[child] = NoInode /\ \A q \in Paths : q # child => icache'[q] = icache[q]
      /\ \A r \in Slots : istore[r].ino = icache[p].ino <=> r = s
      /\ \A r \in Slots : r # s => istore'[r] = istore[r]
      /\ UNCHANGED blk /\ p = job[t].path /\ Completes(t, s)
      /\ u # t => pc'[u] = pc[u] /\ job'[u] = job[u] /\ pc[u] \notin DirPlaces
      /\ pc'[t] = "idle"
  BY Zenon DEF Created, Completes
<1> SUFFICES ASSUME pc'[u] # "idle" PROVE CallOK(u)' /\ AheadOK(u)'
  BY Zenon DEF CallOK, AheadOK, WritePlaces, CreatePlaces, Recorded, Counted
<1>2. /\ u # t /\ pc'[u] = pc[u] /\ job'[u] = job[u] /\ pc[u] \notin Recorded /\ pc[u] \notin Counted
      /\ CallOK(u) /\ pc[u] # "idle"
  BY <1>1, Kinds, Zenon DEF CallInv
<1>3. AheadOK(u)'
  BY <1>2, Zenon DEF AheadOK
<1>4. PICK q \in Paths : q = job[u].path
  BY Types, Zenon DEF Base
<1>5. icache[q] # NoInode /\ q # child /\ icache'[q] = icache[q]
  BY <1>1, <1>2, <1>4, Zenon DEF CallOK
<1>6. pc[u] \in CreatePlaces \cup {"iget"} =>
        /\ icache'[q].mode = "dir" /\ job[u].name \in Names
        /\ Child(u) \in Paths /\ icache'[Child(u)] = NoInode
  <2> SUFFICES ASSUME pc[u] \in CreatePlaces \cup {"iget"}
               PROVE  /\ icache'[q].mode = "dir" /\ job[u].name \in Names
                      /\ Child(u) \in Paths /\ icache'[Child(u)] = NoInode
    OBVIOUS
  <2>1. /\ icache[q].mode = "dir" /\ job[u].name \in Names
        /\ Child(u) \in Paths /\ icache[Child(u)] = NoInode
    BY <1>2, <1>4, Zenon DEF CallOK
  <2>2. ASSUME Child(u) = child PROVE FALSE
    <3>1. q = p
      <4>1. /\ Append(q, job[u].name) = Append(p, job[t].name)
            /\ job[u].name \in Names /\ job[t].name \in Names
        BY <1>0, <1>4, <2>1, <2>2, Zenon DEF Child
      <4> QED  BY <4>1, ChildInjective
    <3> QED  BY <1>0, <1>1, <1>2, <1>4, <3>1, Zenon DEF ApartInv
  <2> QED  BY <1>1, <1>5, <2>1, <2>2, Zenon
<1>7. ASSUME NEW r \in Slots, istore'[r].ino = icache'[q].ino
      PROVE  /\ pc[u] \in CreatePlaces => NameNew(r, job[u].name)'
             /\ pc[u] = "iget" =>
                  \E c \in Cells : Visible(r, c)' /\ Record(r, c)' = <<job[u].name, job[u].count>>
  <2>1. istore[r].ino = icache[q].ino
    BY <1>0, <1>5, <1>7, Zenon
  <2>2. CASE pc[u] \in CreatePlaces
    <3>1. q # p
      BY <1>0, <1>1, <1>2, <1>4, <2>2, Zenon DEF ApartInv
    <3>2. r # s
      BY <1>0, <1>1, <2>1, <3>1 DEF CacheInv
    <3>3. NameNew(r, job[u].name)
      BY <1>2, <1>4, <2>1, <2>2, Zenon DEF CallOK
    <3>4. PICK name : name = job[u].name
      OBVIOUS
    <3>5. NameNew(r, name)'
      BY <1>1, <3>2, <3>3, <3>4, Zenon DEF NameNew, Record
    <3> QED  BY <1>2, <2>2, <3>4, <3>5, Kinds, Zenon
  <2>3. CASE pc[u] = "iget"
    <3>1. PICK c \in Cells : Visible(r, c) /\ Record(r, c) = <<job[u].name, job[u].count>>
      BY <1>2, <1>4, <2>1, <2>3, Zenon DEF CallOK
    <3>2. Visible(r, c)' /\ Record(r, c)' = Record(r, c)
      BY <1>1, <3>1, CompletesVisible, Zenon DEF Base
    <3> QED  BY <2>3, <3>1, <3>2, Kinds, Zenon
  <2> QED  BY <2>2, <2>3, Zenon
<1>8. CallOK(u)'
  <2>1. pc[u] \in WritePlaces => icache'[q].mode = "reg"
    BY <1>2, <1>4, <1>5, Zenon DEF CallOK
  <2> QED  BY <1>2, <1>4, <1>5, <1>6, <1>7, <2>1, Zenon DEF CallOK, Child
<1> QED  BY <1>3, <1>8, Zenon

LEMMA SaveCreateStep ==
  ASSUME Inv, Base', NEW t \in Tasks, inode_save(t), pc[t] = "c_saving"
  PROVE  CrashInv'
<1> USE DEF Inv, CrashInv
<1>1. pc[t] \in Adding /\ job[t].path \in Paths
  BY Types, Zenon DEF Adding, Base
<1>2. job[t].count \in Slots
  BY <1>1, FlightSlot, Zenon DEF Base
<1>3. \E p, child \in Paths, s, k \in Slots : Created(t, p, s, child, k)
  BY <1>1, <1>2, SaveCreateEffect DEF Created
<1>4. PICK p \in Paths, child \in Paths, s \in Slots, k \in Slots : Created(t, p, s, child, k)
  BY <1>3, Zenon
<1>5. CacheInv' /\ CallInv'
  BY <1>4, CreatedCache, CreatedCalls, Zenon DEF CallInv
<1>6. RecordInv'
  BY <1>4, SaveCreateRecords, Zenon DEF Created
<1>7. ApartInv'
  BY <1>4, Kinds DEF Created, ApartInv
<1>8. /\ \A u \in Tasks : pc'[u] \notin Adding /\ pc'[u] \notin NumberedPlaces
      /\ UNCHANGED <<sb, dsb>> /\ dsb.count = sb.count
  <2>1. \A u \in Tasks : pc'[u] \notin Adding /\ pc'[u] \notin NumberedPlaces /\ pc[u] # "a_sync"
    <3>1. pc'[t] = "idle" /\ pc[t] = "c_saving"
      BY <1>4, Zenon DEF Created, Completes
    <3>2. ASSUME NEW u \in Tasks, u # t PROVE pc'[u] = pc[u] /\ pc[u] \notin DirPlaces
      BY <1>4, <3>2, Zenon DEF Created
    <3> QED  BY <3>1, <3>2, Kinds, Zenon DEF Adding, DirPlaces, CreatePlaces
  <2> QED  BY <1>4, <2>1, Zenon DEF CountInv, Created
<1>9. CountInv'
  BY <1>8, Zenon DEF CountInv, Adding
<1>10. StoreInv'
  <2>1. istore'[s] = icache[p] /\ Settled(s) /\ icache[p].n = istore[s].n + 1 /\ istore[s].n < BlockCells
    <3>1. pc[t] \in CreatePlaces /\ pc[t] \in Counted
      BY Zenon DEF CreatePlaces, Counted
    <3> QED  BY <1>4, <3>1, Zenon DEF Created, InStore, CallInv, CallOK, AheadOK, NameNew
  <2>2. \A r \in Slots : r # s => istore'[r] = istore[r]
    BY <1>4, Zenon DEF Created, Completes
  <2>3. istore[s].n \in Nat /\ BlockCells \in Nat
    BY Types, InodeUpdate, LayoutAssumption, Zenon DEF Base
  <2>4. distore' = istore' /\ sb' = sb
    BY <1>4, Zenon DEF Created
  <2> QED  BY <2>1, <2>2, <2>3, <2>4 DEF StoreInv, Settled
<1>11. ContentInv'
  <2>1. Known(NewInode(job[t]))
    BY <1>1, Kinds, KnownCopies, Zenon
  <2>2. \A r \in Slots : Known(istore'[r]) /\ Known(distore'[r])
    BY <1>4, KnownCopies, Zenon DEF Created, Completes
  <2>3. \A q \in Paths : Known(icache'[q])
    BY <1>4, <2>1, KnownCopies, Zenon DEF Created
  <2>4. \A u \in Tasks : pc'[u] \notin AllocatedPlaces
    BY <1>8, Kinds, Zenon
  <2>5. UNCHANGED <<blk, dblk>> /\ sb'.free = sb.free
    BY <1>4, Zenon DEF Created, Completes
  <2> QED  BY <2>2, <2>3, <2>4, <2>5, KeptContent, Zenon
<1> QED  BY <1>5, <1>6, <1>7, <1>9, <1>10, <1>11, Zenon

-------------------------------------------------------------------------------
(***************************************************************************)
(* simplefs_iget finds the inode of the record, and only then is its path  *)
(* in memory.                                                              *)
(***************************************************************************)
Got(t, p, s, c, child, u) ==
  /\ p = job[t].path /\ child = Child(t) /\ child = Append(p, job[t].name)
  /\ job[t].name \in Names /\ pc[t] = "iget"
  /\ \A r \in Slots : istore[r].ino = icache[p].ino <=> r = s
  /\ Visible(s, c) /\ Record(s, c) = <<job[t].name, istore[u].ino>>
  /\ Settled(u) /\ istore[u].ino \notin {0, RootIno}
  /\ icache[p] # NoInode /\ icache[p].ino # 0 /\ icache[child] = NoInode
  /\ icache'[child] = istore[u] /\ \A q \in Paths : q # child => icache'[q] = icache[q]
  /\ UNCHANGED <<sb, istore, blk, dsb, distore, dblk>>
  /\ pc'[t] = "idle" /\ \A v \in Tasks : v # t => pc'[v] = pc[v] /\ job'[v] = job[v]

LEMMA IgetEffect ==
  ASSUME Inv, NEW t \in Tasks, iget(t)
  PROVE  \E p, child \in Paths, s, u \in Slots, c \in Cells : Got(t, p, s, c, child, u)
<1> USE DEF Inv, CrashInv
<1>1. pc[t] = "iget" /\ CallOK(t)
  BY Zenon DEF iget, CallInv
<1>2. PICK p \in Paths : p = job[t].path
  BY Types, Zenon DEF Base
<1>3. /\ icache[p] # NoInode /\ job[t].name \in Names /\ Child(t) \in Paths
      /\ icache[Child(t)] = NoInode /\ Child(t) = Append(p, job[t].name)
  BY <1>1, <1>2, Zenon DEF CallOK, Child
<1>4. PICK child \in Paths : child = Child(t)
  BY <1>3, Zenon
<1>5. PICK s \in Slots : \A r \in Slots : istore[r].ino = icache[p].ino <=> r = s
  BY <1>3, SlotOf, Zenon
<1>6. PICK c \in Cells : Visible(s, c) /\ Record(s, c) = <<job[t].name, job[t].count>>
  BY <1>1, <1>2, <1>5, Zenon DEF CallOK
<1>7. PICK u \in Slots : Settled(u) /\ istore[u].ino = job[t].count
  BY <1>6 DEF RecordInv
<1>8. job[t].count \notin {0, RootIno}
  BY <1>6 DEF RecordInv
<1>9. get_inode(sb.count, istore, job[t].count) = {istore[u]}
  <2>1. Numbered(istore)
    BY Zenon DEF Base, NumberInv
  <2>2. u < sb.count /\ sb.count \in Nat
    BY <1>7, Types, Zenon DEF Settled, Base
  <2> QED  BY <1>7, <1>8, <2>1, <2>2, GetInode
<1>10. icache' = [icache EXCEPT ![child] = istore[u]] /\ Return(t)
  BY <1>4, <1>9, Zenon DEF iget, Child
<1>11. icache'[child] = istore[u] /\ \A q \in Paths : q # child => icache'[q] = icache[q]
  BY <1>10, Types, Zenon DEF Base
<1>12. pc'[t] = "idle" /\ \A v \in Tasks : v # t => pc'[v] = pc[v] /\ job'[v] = job[v]
  BY <1>10, Types, Zenon DEF Return, Goto, Base
<1>13. UNCHANGED <<sb, istore, blk, dsb, distore, dblk>>
  BY Zenon DEF iget, cache, disk
<1>14. icache[p].ino # 0
  BY <1>3, Zenon DEF CacheInv
<1>15. Got(t, p, s, c, child, u)
  <2>1. Settled(u) /\ istore[u].ino \notin {0, RootIno} /\ Record(s, c) = <<job[t].name, istore[u].ino>>
    BY <1>6, <1>7, <1>8, Zenon
  <2> QED  BY <1>1, <1>2, <1>3, <1>4, <1>5, <1>6, <2>1, <1>11, <1>12, <1>13, <1>14, Zenon DEF Got
<1> QED  BY <1>15, Zenon

LEMMA GotCache ==
  ASSUME Inv, NEW t \in Tasks, NEW p \in Paths, NEW child \in Paths, NEW s \in Slots, NEW u \in Slots,
         NEW c \in Cells, Got(t, p, s, c, child, u), Kept
  PROVE  CacheInv'
<1> USE DEF Inv, CrashInv
<1>1. /\ icache[child] = NoInode /\ icache'[child] = istore[u]
      /\ \A q \in Paths : q # child => icache'[q] = icache[q]
      /\ UNCHANGED <<istore, blk>> /\ istore[u].ino \notin {0, RootIno} /\ Settled(u)
      /\ child = Append(p, job[t].name) /\ job[t].name \in Names
      /\ p # child /\ icache[p].ino # 0
  BY Zenon DEF Got
<1>2. icache'[Root].ino \in {0, RootIno}
  BY <1>1, RootPath, ChildNotRoot, Zenon DEF CacheInv
<1>3. \A r \in Slots : Settled(r) => Settled(r)'
  BY Zenon DEF Kept
<1>4. ASSUME NEW q \in Paths, icache'[q] # NoInode
      PROVE  /\ icache'[q].ino # 0
             /\ \E r \in Slots :
                  /\ InStore(q, r)'
                  /\ (\A v \in Tasks : pc'[v] \in Saving => job'[v].path # q) => icache'[q].n = istore'[r].n
  <2>1. CASE q = child
    BY <1>1, <1>3, <2>1, Zenon DEF InStore, SameInode
  <2>2. CASE q # child
    <3>1. icache'[q] = icache[q] /\ icache[q] # NoInode /\ icache[q].ino # 0
      BY <1>1, <1>4, <2>2, Zenon DEF CacheInv
    <3>2. PICK r \in Slots :
            /\ InStore(q, r)
            /\ (\A v \in Tasks : pc[v] \in Saving => job[v].path # q) => icache[q].n = istore[r].n
      BY <3>1, Zenon DEF CacheInv
    <3>3. InStore(q, r)'
      BY <1>1, <1>3, <3>1, <3>2, Zenon DEF InStore
    <3>4. ASSUME \A v \in Tasks : pc'[v] \in Saving => job'[v].path # q
          PROVE  \A v \in Tasks : pc[v] \in Saving => job[v].path # q
      BY <3>4, Zenon DEF Got, Saving
    <3> QED  BY <1>1, <3>1, <3>2, <3>3, <3>4, Zenon
  <2> QED  BY <2>1, <2>2, Zenon
<1>5. ASSUME NEW q \in Paths, q # child PROVE icache'[q].ino # istore[u].ino
  <2> SUFFICES ASSUME icache[q].ino = istore[u].ino PROVE FALSE
    BY <1>1, <1>5, Zenon
  <2>1. icache[q] # NoInode /\ q # Root
    BY <1>1, NoInodeType, Zenon DEF CacheInv
  <2>2. PICK d \in Paths, name \in Names : q = Append(d, name)
    BY <2>1, HasParent, Zenon
  <2>3. PICK r \in Slots, e \in Cells :
               /\ istore[r].ino = icache[d].ino /\ Visible(r, e)
               /\ Record(r, e) = <<name, icache[Append(d, name)].ino>>
    BY <2>1, <2>2, Zenon DEF CacheInv, Reached
  <2>4. r = s /\ e = c
    <3>1. Visible(s, c) /\ Record(s, c)[2] = istore[u].ino
      <4>1. Visible(s, c) /\ Record(s, c) = <<job[t].name, istore[u].ino>>
        BY Zenon DEF Got
      <4> QED  BY <4>1
    <3>2. Record(r, e)[2] = istore[u].ino
      BY <2>2, <2>3
    <3> QED  BY <2>3, <3>1, <3>2, Zenon DEF RecordInv
  <2>5. name = job[t].name
    <3>1. Record(s, c) = <<job[t].name, istore[u].ino>>
      BY Zenon DEF Got
    <3> QED  BY <2>3, <2>4, <3>1
  <2>6. icache[d].ino = icache[p].ino
    BY <2>3, <2>4, Zenon DEF Got
  <2>7. d = p
    BY <1>1, <2>6, Zenon DEF CacheInv
  <2> QED  BY <1>1, <1>5, <2>2, <2>5, <2>7, Zenon
<1>6. \A q, r \in Paths : icache'[q].ino = icache'[r].ino /\ icache'[q].ino # 0 => q = r
  <2> TAKE q, r \in Paths
  <2>1. CASE q # child /\ r # child
    BY <1>1, <2>1, OnePath, Zenon
  <2> QED  BY <1>1, <1>5, <2>1, Zenon
<1>7. ASSUME NEW d \in Paths, NEW name \in Names, Append(d, name) \in Paths,
             icache'[Append(d, name)] # NoInode
      PROVE  Reached(d, name)'
  <2>1. CASE Append(d, name) = child
    <3>1. d = p /\ name = job[t].name
      <4>1. Append(d, name) = Append(p, job[t].name) /\ job[t].name \in Names
        BY <1>1, <2>1, Zenon
      <4> QED  BY <4>1, ChildInjective
    <3>2. Visible(s, c)' /\ Record(s, c)' = <<name, icache'[Append(d, name)].ino>>
      BY <1>1, <2>1, <3>1, Zenon DEF Got, Visible, Record
    <3>3. istore'[s].ino = icache'[d].ino
      BY <1>1, <3>1, Zenon DEF Got
    <3> QED  BY <3>2, <3>3, Zenon DEF Reached
  <2>2. CASE Append(d, name) # child
    <3>1. icache'[Append(d, name)] = icache[Append(d, name)]
      BY <1>1, <1>7, <2>2, Zenon
    <3>2. PICK r \in Slots, e \in Cells :
                 /\ istore[r].ino = icache[d].ino /\ Visible(r, e)
                 /\ Record(r, e) = <<name, icache[Append(d, name)].ino>>
      BY <1>7, <3>1, Zenon DEF CacheInv, Reached
    <3>3. istore[r].ino # 0
      BY <3>2, Zenon DEF ContentInv, Contents, Copies, Visible
    <3>4. d # child
      BY <1>1, <3>2, <3>3, NoInodeType, Zenon
    <3>5. Visible(r, e)' /\ Record(r, e)' = Record(r, e)
      BY <1>1, <3>2, Zenon DEF Visible, Record
    <3>6. istore'[r].ino = icache'[d].ino
      BY <1>1, <3>2, <3>4, Zenon
    <3> QED  BY <3>1, <3>2, <3>5, <3>6, Zenon DEF Reached
  <2> QED  BY <2>1, <2>2, Zenon
<1> QED  BY <1>2, <1>4, <1>6, <1>7, Zenon DEF CacheInv

LEMMA GotCalls ==
  ASSUME Inv, NEW t \in Tasks, NEW p \in Paths, NEW child \in Paths, NEW s \in Slots, NEW u \in Slots,
         NEW c \in Cells, Got(t, p, s, c, child, u), NEW v \in Tasks
  PROVE  CallOK(v)' /\ AheadOK(v)'
<1> USE DEF Inv, CrashInv
<1>1. /\ icache[child] = NoInode /\ \A q \in Paths : q # child => icache'[q] = icache[q]
      /\ UNCHANGED <<istore, blk>> /\ pc[t] = "iget" /\ p = job[t].path
      /\ child = Append(p, job[t].name) /\ job[t].name \in Names
      /\ v # t => pc'[v] = pc[v] /\ job'[v] = job[v]
      /\ pc'[t] = "idle"
  BY Zenon DEF Got
<1> SUFFICES ASSUME pc'[v] # "idle" PROVE CallOK(v)' /\ AheadOK(v)'
  BY Zenon DEF CallOK, AheadOK, WritePlaces, CreatePlaces, Recorded, Counted
<1>2. v # t /\ pc'[v] = pc[v] /\ job'[v] = job[v] /\ CallOK(v) /\ AheadOK(v) /\ pc[v] # "idle"
  BY <1>1, Zenon DEF CallInv
<1>3. PICK q \in Paths : q = job[v].path
  BY Types, Zenon DEF Base
<1>4. icache[q] # NoInode /\ q # child /\ icache'[q] = icache[q]
  BY <1>1, <1>2, <1>3, Zenon DEF CallOK
<1>5. AheadOK(v)'
  BY <1>1, <1>2, <1>3, <1>4, ZenonT(30) DEF AheadOK, Record
<1>6. pc[v] \in CreatePlaces \cup {"iget"} =>
        /\ job[v].name \in Names /\ Child(v) \in Paths /\ icache'[Child(v)] = NoInode
  <2> SUFFICES ASSUME pc[v] \in CreatePlaces \cup {"iget"}
               PROVE  job[v].name \in Names /\ Child(v) \in Paths /\ icache'[Child(v)] = NoInode
    OBVIOUS
  <2>1. job[v].name \in Names /\ Child(v) \in Paths /\ icache[Child(v)] = NoInode
    BY <1>2, <1>3, Zenon DEF CallOK
  <2>2. ASSUME Child(v) = child PROVE FALSE
    <3>1. q = p /\ job[v].name = job[t].name
      <4>1. /\ Append(q, job[v].name) = Append(p, job[t].name)
            /\ job[v].name \in Names /\ job[t].name \in Names
        BY <1>1, <1>3, <2>1, <2>2, Zenon DEF Child
      <4> QED  BY <4>1, ChildInjective
    <3> QED  BY <1>1, <1>2, <1>3, <3>1, Zenon DEF ApartInv
  <2> QED  BY <1>1, <2>1, <2>2, Zenon
<1>7. CallOK(v)'
  BY <1>1, <1>2, <1>3, <1>4, <1>6, ZenonT(40) DEF CallOK, Child, NameNew, Visible, Record
<1> QED  BY <1>5, <1>7, Zenon

\* A call that returns before it has stored an inode.
LEMMA Returns ==
  ASSUME NEW t \in Tasks, pc[t] \notin Adding, pc[t] \notin Saving, pc'[t] = "idle"
  PROVE  Moves(t) /\ Steady(t) /\ StillSaves(t) /\ NoNewInode(t)
<1>1. /\ pc[t] \notin Recorded /\ pc[t] \notin Counted /\ pc[t] # "a_sync"
      /\ "idle" \notin Adding \cup Recorded \cup Counted \cup Saving \cup WritePlaces \cup CreatePlaces
           \cup NumberedPlaces \cup AllocatedPlaces \cup {"iget", "oops", "a_sync"}
  BY Kinds, Zenon DEF Adding, Recorded, Counted, Saving
<1> QED  BY <1>1, Zenon DEF Moves, Steady, StillSaves, NoNewInode

LEMMA IgetStep ==
  ASSUME Inv, Base', NEW t \in Tasks, iget(t)
  PROVE  CrashInv' /\ Kept
<1> USE DEF Inv, CrashInv
<1>1. PICK p \in Paths, child \in Paths, s \in Slots, u \in Slots, c \in Cells : Got(t, p, s, c, child, u)
  BY IgetEffect, Zenon
<1>2. \A v \in Tasks : Moves(v) /\ Steady(v) /\ StillSaves(v) /\ NoNewInode(v)
  <2>1. pc[t] = "iget" /\ pc'[t] = "idle" /\ \A v \in Tasks : v # t => pc'[v] = pc[v] /\ job'[v] = job[v]
    BY <1>1, Zenon DEF Got
  <2>2. Moves(t) /\ Steady(t) /\ StillSaves(t) /\ NoNewInode(t)
    BY <2>1, Returns, Zenon DEF Adding, Saving
  <2> QED  BY <2>1, <2>2, Rests, Zenon
<1>3. UNCHANGED <<sb, istore, blk, dsb, distore, dblk>>
  BY <1>1, Zenon DEF Got
<1>4. Kept
  BY <1>2, <1>3, KeptVolume, Zenon
<1>5. CountInv' /\ StoreInv'
  BY <1>2, <1>3, KeptCount, KeptStore, Zenon
<1>6. RecordInv' /\ ApartInv'
  BY <1>2, <1>4, KeptRecords, KeptApart, Zenon
<1>7. ContentInv'
  <2>1. \A q \in Paths : Known(icache'[q])
    BY <1>1, KnownCopies, Zenon DEF Got
  <2> QED  BY <1>2, <1>3, <2>1, KnownCopies, JobsKnown, KeptContent, Zenon
<1>8. CacheInv' /\ CallInv'
  BY <1>1, <1>4, GotCache, GotCalls, Zenon DEF CallInv
<1> QED  BY <1>4, <1>5, <1>6, <1>7, <1>8, Zenon

-------------------------------------------------------------------------------
(***************************************************************************)
(* Calls that begin.                                                       *)
(***************************************************************************)
\* The VFS lets a create or a lookup into a directory in which nothing is created.
LEMMA NothingCreated ==
  ASSUME Inv, NEW d \in Paths, ~Creating(d), NEW u \in Tasks, job[u].path = d
  PROVE  pc[u] \notin CreatePlaces
<1> SUFFICES ASSUME pc[u] \in CreatePlaces PROVE FALSE
  OBVIOUS
<1>1. job[u].mode \in {"dir", "reg"}
  BY Zenon DEF Inv, Base, JobInv
<1>2. pc[u] \notin {"idle", "iget", "oops"}
  BY Kinds, Zenon
<1> QED  BY <1>1, <1>2, Zenon DEF Creating

\* Then the directory's slot in the store has the records that a lookup reads.
LEMMA DirectorySlot ==
  ASSUME Inv, NEW d \in Paths, icache[d].mode = "dir", ~Creating(d)
  PROVE  /\ icache[d] # NoInode
         /\ \E s \in Slots : /\ icache[d].n = istore[s].n
                             /\ \A r \in Slots : istore[r].ino = icache[d].ino <=> r = s
                             /\ \A c \in Cells : /\ c < icache[d].n <=> Visible(s, c)
                                                 /\ blk[icache[d].block][c] = Record(s, c)
<1>1. icache[d] # NoInode
  BY NoInodeType, Zenon
<1>2. \A u \in Tasks : pc[u] \in Counted => job[u].path # d
  BY NothingCreated, Kinds, Zenon
<1>3. PICK s \in Slots : /\ InStore(d, s) /\ icache[d].n = istore[s].n
                         /\ \A r \in Slots : istore[r].ino = icache[d].ino <=> r = s
  BY <1>2, DirectoryCount, Zenon
<1>4. \A c \in Cells : (c < icache[d].n <=> Visible(s, c)) /\ blk[icache[d].block][c] = Record(s, c)
  BY <1>3, Zenon DEF InStore, SameInode, Visible, Record
<1> QED  BY <1>1, <1>3, <1>4, Zenon

\* A task begins a call that has no inode yet.
LEMMA CallBegins ==
  ASSUME Inv, Base', NEW t \in Tasks, pc[t] = "idle", pc'[t] \in {"c_dir", "iget"},
         \A u \in Tasks : u # t => pc'[u] = pc[u] /\ job'[u] = job[u],
         UNCHANGED <<sb, istore, blk, dsb, distore, dblk, icache>>,
         CallOK(t)', ApartInv'
  PROVE  CrashInv' /\ Kept
<1>1. Steady(t) /\ StillSaves(t) /\ NoNewInode(t)
  BY Zenon DEF Steady, StillSaves, NoNewInode, Adding, Recorded, Counted, Saving, AllocatedPlaces,
     NumberedPlaces, DirPlaces, CreatePlaces
<1>2. \A u \in Tasks : (Moves(u) \/ CallOK(u)') /\ Steady(u) /\ StillSaves(u) /\ NoNewInode(u)
  BY <1>1, Rests, Zenon
<1>3. ContentInv'
  BY <1>2, KeptContent, KnownCopies, JobsKnown, Zenon DEF Inv, CrashInv
<1> QED  BY <1>2, <1>3, TasksStep, Zenon

LEMMA CreateStep ==
  ASSUME Inv, Base', NEW t \in Tasks, NEW d \in Paths, NEW name \in Names, NEW mode,
         create(t, d, name, mode)
  PROVE  CrashInv' /\ Kept
<1> USE DEF Inv, CrashInv
<1>1. /\ pc[t] = "idle" /\ icache[d].mode = "dir" /\ ~Creating(d) /\ ~LookingUp(d, Names)
      /\ Append(d, name) \in Paths /\ icache[Append(d, name)] = NoInode
      /\ records(icache[d], name) = {} /\ icache[d].n < BlockCells
      /\ UNCHANGED <<sb, istore, blk, dsb, distore, dblk, icache>>
  BY Zenon DEF create, cache, disk
<1>2. /\ pc'[t] = "c_dir" /\ job'[t].path = d /\ job'[t].name = name
      /\ \A u \in Tasks : u # t => pc'[u] = pc[u] /\ job'[u] = job[u]
  BY Types, Zenon DEF create, Goto, Job, Base
<1>3. /\ icache[d] # NoInode
      /\ \E s \in Slots : /\ icache[d].n = istore[s].n
                          /\ \A r \in Slots : istore[r].ino = icache[d].ino <=> r = s
                          /\ \A c \in Cells : /\ c < icache[d].n <=> Visible(s, c)
                                              /\ blk[icache[d].block][c] = Record(s, c)
  BY <1>1, DirectorySlot, Zenon
<1>4. PICK s \in Slots : /\ icache[d].n = istore[s].n
                         /\ \A r \in Slots : istore[r].ino = icache[d].ino <=> r = s
                         /\ \A c \in Cells : /\ c < icache[d].n <=> Visible(s, c)
                                             /\ blk[icache[d].block][c] = Record(s, c)
  BY <1>3, Zenon
<1>5. ASSUME NEW c \in Cells, c < istore[s].n, Record(s, c)[1] = name PROVE FALSE
  <2>1. Visible(s, c) /\ blk[icache[d].block][c][1] = name /\ c < icache[d].n
    BY <1>4, <1>5, Zenon
  <2>2. ASSUME NEW e \in Cells, e < c PROVE blk[icache[d].block][e][1] # name
    <3>1. e \in Nat /\ c \in Nat /\ icache[d].n \in Nat
      BY Types, InodeUpdate, SMTT(20) DEF Cells, Base
    <3>2. e < icache[d].n /\ e # c
      BY <2>1, <2>2, <3>1
    <3>3. Visible(s, e)
      BY <1>4, <3>2, Zenon
    <3> QED  BY <1>4, <1>5, <2>1, <3>2, <3>3 DEF RecordInv
  <2> QED  BY <1>1, <2>1, <2>2, Zenon DEF records
<1>6. NameNew(s, name)'
  BY <1>1, <1>4, <1>5, Zenon DEF NameNew, Record
<1>7. CallOK(t)'
  <2>1. pc'[t] \notin WritePlaces /\ pc'[t] \notin {"idle", "iget", "oops"}
    BY <1>2, Zenon DEF WritePlaces
  <2> QED  BY <1>1, <1>2, <1>3, <1>4, <1>6, <2>1, Zenon DEF CallOK, Child
<1>8. ASSUME NEW u \in Tasks, u # t, job[u].path = d PROVE pc[u] \notin CreatePlaces \cup {"iget"}
  <2>1. pc[u] = "iget" => job[u].name \in Names
    BY Zenon DEF CallInv, CallOK
  <2> QED  BY <1>1, <1>8, <2>1, NothingCreated, Zenon DEF LookingUp
<1>9. ApartInv'
  <2>1. ASSUME NEW u \in Tasks, u # t, job'[u].path = job'[t].path
        PROVE  pc'[u] \notin CreatePlaces \cup {"iget"}
    BY <1>2, <1>8, <2>1, Zenon
  <2>2. pc'[t] # "iget"
    BY <1>2, Zenon
  <2> QED  BY <1>2, <2>1, <2>2 DEF ApartInv
<1> QED  BY <1>1, <1>2, <1>7, <1>9, CallBegins, Zenon

LEMMA LookupStep ==
  ASSUME Inv, Base', NEW t \in Tasks, NEW d \in Paths, NEW name \in Names, lookup(t, d, name)
  PROVE  CrashInv' /\ Kept
<1> USE DEF Inv, CrashInv
<1>1. /\ pc[t] = "idle" /\ icache[d].mode = "dir" /\ ~Creating(d) /\ ~LookingUp(d, {name})
      /\ Append(d, name) \in Paths /\ icache[Append(d, name)] = NoInode
      /\ UNCHANGED <<sb, istore, blk, dsb, distore, dblk, icache>>
  BY Zenon DEF lookup, cache, disk
<1>2. PICK c \in records(icache[d], name) :
             job' = [job EXCEPT ![t] = [Job(d, name, "none", 0) EXCEPT
                                          !.count = blk[icache[d].block][c][2]]]
  BY Zenon DEF lookup
<1>3. /\ pc'[t] = "iget" /\ job'[t].path = d /\ job'[t].name = name
      /\ job'[t].count = blk[icache[d].block][c][2]
      /\ \A u \in Tasks : u # t => pc'[u] = pc[u] /\ job'[u] = job[u]
  BY <1>2, Types, Zenon DEF lookup, Goto, Job, Base
<1>4. /\ icache[d] # NoInode
      /\ \E s \in Slots : /\ \A r \in Slots : istore[r].ino = icache[d].ino <=> r = s
                          /\ \A e \in Cells : /\ e < icache[d].n <=> Visible(s, e)
                                              /\ blk[icache[d].block][e] = Record(s, e)
  BY <1>1, DirectorySlot, Zenon
<1>5. PICK s \in Slots : /\ \A r \in Slots : istore[r].ino = icache[d].ino <=> r = s
                         /\ \A e \in Cells : /\ e < icache[d].n <=> Visible(s, e)
                                             /\ blk[icache[d].block][e] = Record(s, e)
  BY <1>4, Zenon
<1>6. c \in Cells /\ Visible(s, c) /\ Record(s, c)[1] = name /\ Record(s, c)[2] = job'[t].count
  BY <1>3, <1>5, Zenon DEF records
<1>7. Record(s, c) = <<name, job'[t].count>>
  <2>1. istore[s].block \in Blocks
    BY <1>6, Types, InodeUpdate, Zenon DEF Visible, Base
  <2>2. Record(s, c) \in NameType \X Nat
    BY <1>6, <2>1, Types, Zenon DEF Record, BlocksType, Base
  <2> QED  BY <1>6, <2>2
<1>8. Visible(s, c)' /\ Record(s, c)' = <<name, job'[t].count>>
  BY <1>1, <1>6, <1>7, Zenon DEF Visible, Record
<1>9. CallOK(t)'
  <2>1. pc'[t] \notin WritePlaces /\ pc'[t] \notin CreatePlaces
    BY <1>3, Zenon DEF WritePlaces, CreatePlaces
  <2> QED  BY <1>1, <1>3, <1>4, <1>5, <1>6, <1>8, <2>1, Zenon DEF CallOK, Child
<1>10. ASSUME NEW u \in Tasks, u # t, job[u].path = d
       PROVE  pc[u] \notin CreatePlaces /\ (pc[u] = "iget" => job[u].name # name)
  BY <1>1, <1>10, NothingCreated, Zenon DEF LookingUp
<1>11. ApartInv'
  <2>1. ASSUME NEW u \in Tasks, u # t, job'[u].path = job'[t].path
        PROVE  pc'[u] \notin CreatePlaces /\ (pc'[u] = "iget" => job'[u].name # name)
    BY <1>3, <1>10, <2>1, Zenon
  <2>2. pc'[t] \notin CreatePlaces
    BY <1>3, Zenon DEF CreatePlaces
  <2> QED  BY <1>3, <2>1, <2>2 DEF ApartInv
<1> QED  BY <1>1, <1>3, <1>9, <1>11, CallBegins, Zenon
===============================================================================
