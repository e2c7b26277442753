------------------------------ MODULE RcuFooProofs ------------------------------
(***************************************************************************)
(* For any number of rounds: no thread of RCU/simple.c uses what was freed *)
(* and no reader goes back to an older version, every version is freed     *)
(* once, and in the end none is left.                                      *)
(***************************************************************************)
EXTENDS RcuFoo, TLAPS

U == "rcu_updater"
L == "rcu_updater_list"
UpdaterOf(r) == IF r = "rcu_reader" THEN U ELSE L

\* The version that is published: its number is also its object's.
Current(t) == IF pc[t] \in {"retire", "free"} THEN Rounds + 1 - cnt[t] ELSE Rounds - cnt[t]

PlaceInv ==
  /\ \A r \in Readers : pc[r] \in {"none", "sleep", "lock", "deref", "print", "unlock", "done"}
  /\ pc[U] \in {"none", "alloc", "sleep", "copy", "retire", "done"}
  /\ pc[L] \in {"none", "sleep", "alloc", "copy", "retire", "free", "done"}
  /\ \A t \in Threads : pc[t] = "done" <=> cnt[t] = 0
  /\ \A r \in Readers : r \in reading <=> pc[r] \in {"deref", "print", "unlock"}

\* Nobody is past its first msleep before everything is set up, and everybody is
\* done when it is taken down.
Early ==
  /\ \A t \in Threads : cnt[t] = Rounds /\ pc[t] \in {"none", "sleep", "alloc"}
  /\ pc[L] # "alloc" /\ callbacks = {}
ModInv ==
  /\ mod \in {"starting", "list"} => Early
  /\ mod = "exiting" => Idle
  /\ mod = "absent" => Idle \/ (Early /\ \A t \in Threads : pc[t] = "none")
  /\ mod \in {"list", "loaded", "exiting"} => g_pfoo = Obj(U, Current(U))
  /\ mod \in {"loaded", "exiting"} => g_rcu_list = Obj(L, Current(L))

\* What each updater holds in its variables.
VersionInv ==
  /\ pc[U] \in {"sleep", "copy"} => new[U] = Obj(U, Rounds + 1 - cnt[U])
  /\ pc[L] = "copy" => new[L] = Obj(L, Rounds + 1 - cnt[L])
  /\ pc[U] = "retire" => p[U] = Obj(U, Rounds - cnt[U])
  /\ pc[L] \in {"copy", "retire", "free"} => p[L] = Obj(L, Rounds - cnt[L])
  /\ \A t \in Updaters : \A n \in 0 .. Current(t) : a[Obj(t, n)] = n

\* A callback's version is older than those the updater still has.
CallbackInv ==
  /\ \A c \in callbacks : \E n \in 0 .. Rounds : n < Rounds - cnt[U] /\ c.obj = Obj(U, n)
  /\ \A c, d \in callbacks : c.obj = d.obj => c = d

\* The heap: what is published, what is new, what is to be freed.
HeapInv ==
  \A o : o \in heap <=>
    \/ mod \in {"list", "loaded"} /\ o = g_pfoo
    \/ mod \in {"loaded", "exiting"} /\ o = g_rcu_list
    \/ pc[U] \in {"sleep", "copy"} /\ o = new[U]
    \/ pc[L] = "copy" /\ o = new[L]
    \/ pc[U] = "retire" /\ o = p[U]
    \/ pc[L] \in {"retire", "free"} /\ o = p[L]
    \/ \E c \in callbacks : o = c.obj

\* A reader's version is published, or not yet up for its grace period, or its
\* grace period waits for this reader.
Protected ==
  /\ pc["rcu_reader"] \in {"print", "unlock"} =>
       \/ p["rcu_reader"] = g_pfoo
       \/ pc[U] = "retire" /\ p["rcu_reader"] = p[U]
       \/ \E c \in callbacks : c.obj = p["rcu_reader"] /\ "rcu_reader" \in c.waits
  /\ pc["rcu_reader_list"] \in {"print", "unlock"} =>
       \/ p["rcu_reader_list"] = g_rcu_list
       \/ pc[L] = "retire" /\ p["rcu_reader_list"] = p[L]
       \/ pc[L] = "free" /\ p["rcu_reader_list"] = p[L] /\ "rcu_reader_list" \in sync

SeenInv ==
  \A r \in Readers :
    /\ seen[r] <= Current(UpdaterOf(r))
    /\ pc[r] \in {"print", "unlock"} =>
         \E n \in 0 .. Current(UpdaterOf(r)) : p[r] = Obj(UpdaterOf(r), n) /\ seen[r] <= n

Inv == TypeOK /\ PlaceInv /\ ModInv /\ VersionInv /\ CallbackInv /\ HeapInv /\ Protected /\ SeenInv

-------------------------------------------------------------------------------
\* An updater's versions are different objects, and no two updaters share one.
LEMMA ObjInj ==
  \A s, t \in Updaters, m, n \in Nat : Obj(s, m) = Obj(t, n) <=> s = t /\ m = n
BY DEF Obj

\* Every version of an updater is an object.
LEMMA ObjIn ==
  \A t \in Updaters, n \in 0 .. Rounds : Obj(t, n) \in Objs
BY DEF Objs

\* Before rcu_test_init nothing is allocated and no thread has started.
LEMMA InitInv == Init => Inv
<1> USE RcuAssumption DEF Threads, Readers, Updaters, U, L
<1> SUFFICES ASSUME Init PROVE Inv
  OBVIOUS
<1>1. TypeOK /\ PlaceInv
  BY DEF Init, TypeOK, Place, PlaceInv
<1>2. ModInv /\ VersionInv
  BY ObjIn DEF Init, ModInv, Early, VersionInv, Current
<1>3. CallbackInv /\ HeapInv /\ Protected /\ SeenInv
  BY DEF Init, CallbackInv, HeapInv, Protected, SeenInv, Current, UpdaterOf
<1> QED BY <1>1, <1>2, <1>3 DEF Inv

\* rcu_test_init starts the next thread.
LEMMA RunStep ==
  ASSUME Inv, NEW k \in 1 .. 4, kthread_run(k) PROVE Inv'
<1> USE RcuAssumption, ObjInj, ObjIn DEF Inv, PlaceInv, TypeOK, Threads, Readers, Updaters, U, L
<1> USE DEF kthread_run, Started, Goto
<1>1. TypeOK' /\ PlaceInv'
  BY SMTT(20) DEF Objs, Place, CallbackInv, ModInv, VersionInv, Early, Idle
<1>2. ModInv' /\ VersionInv'
  BY SMTT(20) DEF ModInv, VersionInv, Early, Idle, Current
<1>3. CallbackInv'
  BY SMTT(20) DEF CallbackInv, ModInv, VersionInv, Early, Idle
<1>4. HeapInv'
  BY SMTT(20) DEF HeapInv, CallbackInv, ModInv, VersionInv, Early, Idle, Current
<1>5. Protected'
  BY SMTT(20) DEF Protected, CallbackInv, ModInv, VersionInv, Early, Idle, Current
<1>6. SeenInv'
  BY SMTT(20) DEF SeenInv, ModInv, VersionInv, Early, Idle, Current, UpdaterOf
<1> QED BY <1>1, <1>2, <1>3, <1>4, <1>5, <1>6 DEF Inv

\* rcu_test_init publishes g_pfoo's first version.
LEMMA InitPfooStep ==
  ASSUME Inv, init_pfoo PROVE Inv'
<1> USE RcuAssumption, ObjInj, ObjIn DEF Inv, PlaceInv, TypeOK, Threads, Readers, Updaters, U, L
<1> USE DEF init_pfoo
<1>1. TypeOK' /\ PlaceInv'
  BY SMTT(20) DEF Objs, Place, CallbackInv, ModInv, VersionInv, Early, Idle
<1>2. ModInv' /\ VersionInv'
  BY SMTT(20) DEF ModInv, VersionInv, Early, Idle, Current
<1>3. CallbackInv'
  BY SMTT(20) DEF CallbackInv, ModInv, VersionInv, Early, Idle
<1>4. HeapInv'
  BY SMTT(20) DEF HeapInv, CallbackInv, ModInv, VersionInv, Early, Idle, Current
<1>5. Protected'
  BY SMTT(20) DEF Protected, CallbackInv, ModInv, VersionInv, Early, Idle, Current
<1>6. SeenInv'
  BY SMTT(20) DEF SeenInv, ModInv, VersionInv, Early, Idle, Current, UpdaterOf
<1> QED BY <1>1, <1>2, <1>3, <1>4, <1>5, <1>6 DEF Inv

\* rcu_test_init adds the list's first version.
LEMMA InitListStep ==
  ASSUME Inv, init_list PROVE Inv'
<1> USE RcuAssumption, ObjInj, ObjIn DEF Inv, PlaceInv, TypeOK, Threads, Readers, Updaters, U, L
<1> USE DEF init_list
<1>1. TypeOK' /\ PlaceInv'
  BY SMTT(20) DEF Objs, Place, CallbackInv, ModInv, VersionInv, Early, Idle
<1>2. ModInv' /\ VersionInv'
  BY SMTT(20) DEF ModInv, VersionInv, Early, Idle, Current
<1>3. CallbackInv'
  BY SMTT(20) DEF CallbackInv, ModInv, VersionInv, Early, Idle
<1>4. HeapInv'
  BY SMTT(20) DEF HeapInv, CallbackInv, ModInv, VersionInv, Early, Idle, Current
<1>5. Protected'
  BY SMTT(20) DEF Protected, CallbackInv, ModInv, VersionInv, Early, Idle, Current
<1>6. SeenInv'
  BY SMTT(20) DEF SeenInv, ModInv, VersionInv, Early, Idle, Current, UpdaterOf
<1> QED BY <1>1, <1>2, <1>3, <1>4, <1>5, <1>6 DEF Inv

\* rcu_test_exit frees g_pfoo.
LEMMA ExitPfooStep ==
  ASSUME Inv, exit_pfoo PROVE Inv'
<1> USE RcuAssumption, ObjInj, ObjIn DEF Inv, PlaceInv, TypeOK, Threads, Readers, Updaters, U, L
<1> USE DEF exit_pfoo
<1>1. TypeOK' /\ PlaceInv'
  BY SMTT(20) DEF Objs, Place, CallbackInv, ModInv, VersionInv, Early, Idle
<1>2. ModInv' /\ VersionInv'
  BY SMTT(20) DEF ModInv, VersionInv, Early, Idle, Current
<1>3. CallbackInv'
  BY SMTT(20) DEF CallbackInv, ModInv, VersionInv, Early, Idle
<1>4. HeapInv'
  BY SMTT(20) DEF HeapInv, CallbackInv, ModInv, VersionInv, Early, Idle, Current
<1>5. Protected'
  BY SMTT(20) DEF Protected, CallbackInv, ModInv, VersionInv, Early, Idle, Current
<1>6. SeenInv'
  BY SMTT(20) DEF SeenInv, ModInv, VersionInv, Early, Idle, Current, UpdaterOf
<1> QED BY <1>1, <1>2, <1>3, <1>4, <1>5, <1>6 DEF Inv

\* rcu_test_exit frees the list's entry.
LEMMA ExitListStep ==
  ASSUME Inv, exit_list PROVE Inv'
<1> USE RcuAssumption, ObjInj, ObjIn DEF Inv, PlaceInv, TypeOK, Threads, Readers, Updaters, U, L
<1> USE DEF exit_list
<1>1. TypeOK' /\ PlaceInv'
  BY SMTT(20) DEF Objs, Place, CallbackInv, ModInv, VersionInv, Early, Idle
<1>2. ModInv' /\ VersionInv'
  BY SMTT(20) DEF ModInv, VersionInv, Early, Idle, Current
<1>3. CallbackInv'
  BY SMTT(20) DEF CallbackInv, ModInv, VersionInv, Early, Idle
<1>4. HeapInv'
  BY SMTT(20) DEF HeapInv, CallbackInv, ModInv, VersionInv, Early, Idle, Current
<1>5. Protected'
  BY SMTT(20) DEF Protected, CallbackInv, ModInv, VersionInv, Early, Idle, Current
<1>6. SeenInv'
  BY SMTT(20) DEF SeenInv, ModInv, VersionInv, Early, Idle, Current, UpdaterOf
<1> QED BY <1>1, <1>2, <1>3, <1>4, <1>5, <1>6 DEF Inv

\* A reader wakes up.
LEMMA ReaderSleepStep ==
  ASSUME Inv, NEW r \in Readers, msleep(r, "lock") PROVE Inv'
<1> USE RcuAssumption, ObjInj, ObjIn DEF Inv, PlaceInv, TypeOK, Threads, Readers, Updaters, U, L
<1> USE DEF msleep, Goto
<1>1. TypeOK' /\ PlaceInv'
  BY SMTT(20) DEF Objs, Place, CallbackInv, ModInv, VersionInv, Early, Idle
<1>2. ModInv' /\ VersionInv'
  BY SMTT(20) DEF ModInv, VersionInv, Early, Idle, Current
<1>3. CallbackInv'
  BY SMTT(20) DEF CallbackInv, ModInv, VersionInv, Early, Idle
<1>4. HeapInv'
  BY SMTT(20) DEF HeapInv, CallbackInv, ModInv, VersionInv, Early, Idle, Current
<1>5. Protected'
  BY SMTT(20) DEF Protected, CallbackInv, ModInv, VersionInv, Early, Idle, Current
<1>6. SeenInv'
  BY SMTT(20) DEF SeenInv, ModInv, VersionInv, Early, Idle, Current, UpdaterOf
<1> QED BY <1>1, <1>2, <1>3, <1>4, <1>5, <1>6 DEF Inv

\* A reader enters its read section.
LEMMA ReadLockStep ==
  ASSUME Inv, NEW r \in Readers, rcu_read_lock(r) PROVE Inv'
<1> USE RcuAssumption, ObjInj, ObjIn DEF Inv, PlaceInv, TypeOK, Threads, Readers, Updaters, U, L
<1> USE DEF rcu_read_lock, Goto
<1>1. TypeOK' /\ PlaceInv'
  BY SMTT(20) DEF Objs, Place, CallbackInv, ModInv, VersionInv, Early, Idle
<1>2. ModInv' /\ VersionInv'
  BY SMTT(20) DEF ModInv, VersionInv, Early, Idle, Current
<1>3. CallbackInv'
  BY SMTT(20) DEF CallbackInv, ModInv, VersionInv, Early, Idle
<1>4. HeapInv'
  BY SMTT(20) DEF HeapInv, CallbackInv, ModInv, VersionInv, Early, Idle, Current
<1>5. Protected'
  BY SMTT(20) DEF Protected, CallbackInv, ModInv, VersionInv, Early, Idle, Current
<1>6. SeenInv'
  BY SMTT(20) DEF SeenInv, ModInv, VersionInv, Early, Idle, Current, UpdaterOf
<1> QED BY <1>1, <1>2, <1>3, <1>4, <1>5, <1>6 DEF Inv

\* A reader takes the published version.
LEMMA DereferenceStep ==
  ASSUME Inv, NEW r \in Readers, rcu_dereference(r) PROVE Inv'
<1> USE RcuAssumption, ObjInj, ObjIn DEF Inv, PlaceInv, TypeOK, Threads, Readers, Updaters, U, L
<1> USE DEF rcu_dereference, Goto, Shared
<1>1. TypeOK' /\ PlaceInv'
  BY SMTT(20) DEF Objs, Place, CallbackInv, ModInv, VersionInv, Early, Idle
<1>2. ModInv' /\ VersionInv'
  BY SMTT(20) DEF ModInv, VersionInv, Early, Idle, Current
<1>3. CallbackInv'
  BY SMTT(20) DEF CallbackInv, ModInv, VersionInv, Early, Idle
<1>4. HeapInv'
  BY SMTT(20) DEF HeapInv, CallbackInv, ModInv, VersionInv, Early, Idle, Current
<1>5. Protected'
  BY SMTT(20) DEF Protected, CallbackInv, ModInv, VersionInv, Early, Idle, Current
<1>6. SeenInv'
  <2>1. mod = "loaded"
    BY DEF ModInv, Early, Idle
  <2>2. p'[r] = Obj(UpdaterOf(r), Current(UpdaterOf(r)))
    BY <2>1 DEF ModInv, UpdaterOf
  <2>3. Current(UpdaterOf(r)) \in Nat
    BY DEF Current, UpdaterOf
  <2>4. \A s \in Readers : s # r => p'[s] = p[s] /\ pc'[s] = pc[s]
    OBVIOUS
  <2>5. \A t \in Updaters : Current(t)' = Current(t)
    BY DEF Current
  <2> QED BY <2>2, <2>3, <2>4, <2>5 DEF SeenInv, UpdaterOf
<1> QED BY <1>1, <1>2, <1>3, <1>4, <1>5, <1>6 DEF Inv

\* A reader prints its version.
LEMMA PrintStep ==
  ASSUME Inv, NEW r \in Readers, print(r) PROVE Inv'
<1> USE RcuAssumption, ObjInj, ObjIn DEF Inv, PlaceInv, TypeOK, Threads, Readers, Updaters, U, L
<1> USE DEF print, Goto
<1>0. p[r] \in Objs
  BY DEF SeenInv, Current, UpdaterOf
<1>1. TypeOK' /\ PlaceInv'
  BY <1>0, SMTT(20) DEF Objs, Place, CallbackInv, ModInv, VersionInv, Early, Idle
<1>2. ModInv' /\ VersionInv'
  BY <1>0, SMTT(20) DEF ModInv, VersionInv, Early, Idle, Current
<1>3. CallbackInv'
  BY <1>0, SMTT(20) DEF CallbackInv, ModInv, VersionInv, Early, Idle
<1>4. HeapInv'
  BY <1>0, SMTT(20) DEF HeapInv, CallbackInv, ModInv, VersionInv, Early, Idle, Current
<1>5. Protected'
  BY <1>0, SMTT(20) DEF Protected, CallbackInv, ModInv, VersionInv, Early, Idle, Current
<1>6. SeenInv'
  BY <1>0, SMTT(20) DEF SeenInv, ModInv, VersionInv, Early, Idle, Current, UpdaterOf
<1> QED BY <1>1, <1>2, <1>3, <1>4, <1>5, <1>6 DEF Inv

\* A reader leaves its read section: no grace period waits for it any longer.
LEMMA ReadUnlockStep ==
  ASSUME Inv, NEW r \in Readers, rcu_read_unlock(r) PROVE Inv'
<1> DEFINE Less(c) == [obj |-> c.obj, waits |-> c.waits \ {r}]
<1>0. callbacks' = {Less(c) : c \in callbacks}
  BY DEF rcu_read_unlock
<1>a. \A c \in callbacks : Less(c).obj = c.obj /\ Less(c).waits = c.waits \ {r}
  OBVIOUS
<1>b. ASSUME NEW c \in callbacks PROVE Less(c) \in callbacks'
  BY <1>0, Zenon
<1>c. \A d \in callbacks' : \E c \in callbacks : d = Less(c)
  BY <1>0, Zenon
<1> HIDE DEF Less
<1>d. ASSUME NEW o, NEW d \in callbacks', o = d.obj PROVE \E c \in callbacks : o = c.obj
  BY <1>a, <1>c, <1>d
<1>f. ASSUME NEW o, NEW c \in callbacks, o = c.obj PROVE \E d \in callbacks' : o = d.obj
  BY <1>a, <1>b, <1>f
<1> USE RcuAssumption, ObjInj, ObjIn DEF PlaceInv, TypeOK, Threads, Readers, Updaters, U, L
<1> USE DEF Inv, Again, Goto
<1>1. TypeOK' /\ PlaceInv'
  BY SMTT(20) DEF rcu_read_unlock, Place
<1>2. ModInv' /\ VersionInv'
  BY SMTT(20) DEF rcu_read_unlock, ModInv, VersionInv, Early, Idle, Current
<1>e. /\ UNCHANGED <<mod, heap, g_pfoo, g_rcu_list, p, new>>
      /\ UNCHANGED <<pc[U], pc[L], cnt[U]>>
      /\ \A s \in Readers \ {r} : pc'[s] = pc[s]
      /\ pc'[r] \in {"sleep", "done"} /\ sync' = sync \ {r}
  BY DEF rcu_read_unlock
<1>3. CallbackInv'
  <2>1. ASSUME NEW d \in callbacks'
        PROVE  \E n \in 0 .. Rounds : n < Rounds - cnt[U] /\ d.obj = Obj(U, n)
    <3>1. PICK c \in callbacks : d = Less(c)
      BY <1>c
    <3>2. PICK n \in 0 .. Rounds : n < Rounds - cnt[U] /\ c.obj = Obj(U, n)
      BY DEF CallbackInv
    <3> QED BY <1>a, <3>1, <3>2
  <2>2. ASSUME NEW d \in callbacks', NEW e \in callbacks', d.obj = e.obj
        PROVE  d = e
    <3>1. PICK c \in callbacks : d = Less(c)
      BY <1>c
    <3>2. PICK f \in callbacks : e = Less(f)
      BY <1>c
    <3> QED BY <2>2, <3>1, <3>2, <1>a DEF CallbackInv
  <2> QED BY <1>e, <2>1, <2>2 DEF CallbackInv
<1>4. HeapInv'
  BY <1>d, <1>e, <1>f, SMTT(20) DEF HeapInv
<1>5. Protected'
  <2>1. ASSUME NEW s \in Readers \ {r}, NEW o, \E c \in callbacks : c.obj = o /\ s \in c.waits
        PROVE  \E d \in callbacks' : d.obj = o /\ s \in d.waits
    BY <1>a, <1>b, <2>1
  <2>2. CASE r = "rcu_reader"
    BY <1>e, <2>2 DEF Protected
  <2>3. CASE r = "rcu_reader_list"
    <3>1. pc'["rcu_reader"] = pc["rcu_reader"]
      BY <1>e, <2>3
    <3> QED BY <1>e, <2>1, <2>3, <3>1 DEF Protected
  <2> QED BY <2>2, <2>3
<1>6. SeenInv'
  BY SMTT(20) DEF rcu_read_unlock, SeenInv, ModInv, VersionInv, Early, Idle, Current, UpdaterOf
<1> QED BY <1>1, <1>2, <1>3, <1>4, <1>5, <1>6

\* rcu_updater allocates a version.
LEMMA AllocStep ==
  ASSUME Inv, kzalloc(U, "sleep") PROVE Inv'
<1> USE RcuAssumption, ObjInj, ObjIn DEF Inv, PlaceInv, TypeOK, Threads, Readers, Updaters, U, L
<1> USE DEF kzalloc, Goto
<1>1. TypeOK' /\ PlaceInv'
  BY SMTT(20) DEF Objs, Place, CallbackInv, ModInv, VersionInv, Early, Idle
<1>2. ModInv' /\ VersionInv'
  BY SMTT(20) DEF ModInv, VersionInv, Early, Idle, Current
<1>3. CallbackInv'
  BY SMTT(20) DEF CallbackInv, ModInv, VersionInv, Early, Idle
<1>4. HeapInv'
  BY SMTT(20) DEF HeapInv, CallbackInv, ModInv, VersionInv, Early, Idle, Current
<1>5. Protected'
  BY SMTT(20) DEF Protected, CallbackInv, ModInv, VersionInv, Early, Idle, Current
<1>6. SeenInv'
  BY SMTT(20) DEF SeenInv, ModInv, VersionInv, Early, Idle, Current, UpdaterOf
<1> QED BY <1>1, <1>2, <1>3, <1>4, <1>5, <1>6 DEF Inv

\* rcu_updater wakes up.
LEMMA UpdaterSleepStep ==
  ASSUME Inv, msleep(U, "copy") PROVE Inv'
<1> USE RcuAssumption, ObjInj, ObjIn DEF Inv, PlaceInv, TypeOK, Threads, Readers, Updaters, U, L
<1> USE DEF msleep, Goto
<1>1. TypeOK' /\ PlaceInv'
  BY SMTT(20) DEF Objs, Place, CallbackInv, ModInv, VersionInv, Early, Idle
<1>2. ModInv' /\ VersionInv'
  BY SMTT(20) DEF ModInv, VersionInv, Early, Idle, Current
<1>3. CallbackInv'
  BY SMTT(20) DEF CallbackInv, ModInv, VersionInv, Early, Idle
<1>4. HeapInv'
  BY SMTT(20) DEF HeapInv, CallbackInv, ModInv, VersionInv, Early, Idle, Current
<1>5. Protected'
  BY SMTT(20) DEF Protected, CallbackInv, ModInv, VersionInv, Early, Idle, Current
<1>6. SeenInv'
  BY SMTT(20) DEF SeenInv, ModInv, VersionInv, Early, Idle, Current, UpdaterOf
<1> QED BY <1>1, <1>2, <1>3, <1>4, <1>5, <1>6 DEF Inv

\* rcu_updater publishes its version and keeps the old one to retire it.
LEMMA PublishStep ==
  ASSUME Inv, publish_pfoo PROVE Inv'
<1> USE RcuAssumption, ObjInj, ObjIn DEF Inv, PlaceInv, TypeOK, Threads, Readers, Updaters, U, L
<1> USE DEF publish_pfoo, Goto, version
<1>1. TypeOK' /\ PlaceInv'
  <2>1. TypeOK'
    BY SMTT(20) DEF Place, ModInv, VersionInv, Early, Idle
  <2>2. PlaceInv'
    BY SMTT(20)
  <2> QED BY <2>1, <2>2
<1>2. ModInv' /\ VersionInv'
  BY SMTT(20) DEF ModInv, VersionInv, Early, Idle, Current
<1>3. CallbackInv'
  BY SMTT(20) DEF CallbackInv, ModInv, VersionInv, Early, Idle
<1>4. HeapInv'
  BY SMTT(20) DEF HeapInv, CallbackInv, ModInv, VersionInv, Early, Idle, Current
<1>5. Protected'
  BY SMTT(20) DEF Protected, CallbackInv, ModInv, VersionInv, Early, Idle, Current
<1>6. SeenInv'
  BY SMTT(20) DEF SeenInv, ModInv, VersionInv, Early, Idle, Current, UpdaterOf
<1> QED BY <1>1, <1>2, <1>3, <1>4, <1>5, <1>6 DEF Inv

\* rcu_updater hands the old version to call_rcu.
LEMMA CallRcuStep ==
  ASSUME Inv, call_rcu PROVE Inv'
<1> USE RcuAssumption, ObjInj, ObjIn DEF Inv, PlaceInv, TypeOK, Threads, Readers, Updaters, U, L
<1> USE DEF call_rcu, Again, Goto
<1> DEFINE new_cb == [obj |-> p[U], waits |-> reading]
<1>0. new_cb.obj = p[U] /\ new_cb.waits = reading
  OBVIOUS
<1>a. \A d : d \in callbacks' <=> d \in callbacks \/ d = new_cb
  OBVIOUS
<1> HIDE DEF new_cb
<1>1. TypeOK' /\ PlaceInv'
  BY <1>0, <1>a, SMTT(20) DEF Objs, Place, CallbackInv, ModInv, VersionInv, Early, Idle
<1>2. ModInv' /\ VersionInv'
  BY <1>0, <1>a, SMTT(20) DEF ModInv, VersionInv, Early, Idle, Current
<1>3. CallbackInv'
  BY <1>0, <1>a, SMTT(20) DEF CallbackInv, ModInv, VersionInv, Early, Idle
<1>4. HeapInv'
  BY <1>0, <1>a, SMTT(20) DEF HeapInv, CallbackInv, ModInv, VersionInv, Early, Idle, Current
<1>5. Protected'
  BY <1>0, <1>a, SMTT(20) DEF Protected, CallbackInv, ModInv, VersionInv, Early, Idle, Current
<1>6. SeenInv'
  BY <1>0, <1>a, SMTT(20) DEF SeenInv, ModInv, VersionInv, Early, Idle, Current, UpdaterOf
<1> QED BY <1>1, <1>2, <1>3, <1>4, <1>5, <1>6 DEF Inv

\* rcu_updater_list wakes up.
LEMMA ListSleepStep ==
  ASSUME Inv, msleep(L, "alloc") PROVE Inv'
<1> USE RcuAssumption, ObjInj, ObjIn DEF Inv, PlaceInv, TypeOK, Threads, Readers, Updaters, U, L
<1> USE DEF msleep, Goto
<1>1. TypeOK' /\ PlaceInv'
  BY SMTT(20) DEF Objs, Place, CallbackInv, ModInv, VersionInv, Early, Idle
<1>2. ModInv' /\ VersionInv'
  BY SMTT(20) DEF ModInv, VersionInv, Early, Idle, Current
<1>3. CallbackInv'
  BY SMTT(20) DEF CallbackInv, ModInv, VersionInv, Early, Idle
<1>4. HeapInv'
  BY SMTT(20) DEF HeapInv, CallbackInv, ModInv, VersionInv, Early, Idle, Current
<1>5. Protected'
  BY SMTT(20) DEF Protected, CallbackInv, ModInv, VersionInv, Early, Idle, Current
<1>6. SeenInv'
  BY SMTT(20) DEF SeenInv, ModInv, VersionInv, Early, Idle, Current, UpdaterOf
<1> QED BY <1>1, <1>2, <1>3, <1>4, <1>5, <1>6 DEF Inv

\* rcu_updater_list allocates a version.
LEMMA ListAllocStep ==
  ASSUME Inv, kzalloc(L, "copy") PROVE Inv'
<1> USE RcuAssumption, ObjInj, ObjIn DEF Inv, PlaceInv, TypeOK, Threads, Readers, Updaters, U, L
<1> USE DEF kzalloc, Goto
<1>1. TypeOK' /\ PlaceInv'
  BY SMTT(20) DEF Objs, Place, CallbackInv, ModInv, VersionInv, Early, Idle
<1>2. ModInv' /\ VersionInv'
  BY SMTT(20) DEF ModInv, VersionInv, Early, Idle, Current
<1>3. CallbackInv'
  BY SMTT(20) DEF CallbackInv, ModInv, VersionInv, Early, Idle
<1>4. HeapInv'
  BY SMTT(20) DEF HeapInv, CallbackInv, ModInv, VersionInv, Early, Idle, Current
<1>5. Protected'
  BY SMTT(20) DEF Protected, CallbackInv, ModInv, VersionInv, Early, Idle, Current
<1>6. SeenInv'
  BY SMTT(20) DEF SeenInv, ModInv, VersionInv, Early, Idle, Current, UpdaterOf
<1> QED BY <1>1, <1>2, <1>3, <1>4, <1>5, <1>6 DEF Inv

\* rcu_updater_list replaces the entry.
LEMMA ReplaceStep ==
  ASSUME Inv, list_replace_rcu PROVE Inv'
<1> USE RcuAssumption, ObjInj, ObjIn DEF Inv, PlaceInv, TypeOK, Threads, Readers, Updaters, U, L
<1> USE DEF list_replace_rcu, Goto, version
<1>1. TypeOK' /\ PlaceInv'
  BY SMTT(20) DEF Objs, Place, CallbackInv, ModInv, VersionInv, Early, Idle
<1>2. ModInv' /\ VersionInv'
  BY SMTT(20) DEF ModInv, VersionInv, Early, Idle, Current
<1>3. CallbackInv'
  BY SMTT(20) DEF CallbackInv, ModInv, VersionInv, Early, Idle
<1>4. HeapInv'
  BY SMTT(20) DEF HeapInv, CallbackInv, ModInv, VersionInv, Early, Idle, Current
<1>5. Protected'
  BY SMTT(20) DEF Protected, CallbackInv, ModInv, VersionInv, Early, Idle, Current
<1>6. SeenInv'
  BY SMTT(20) DEF SeenInv, ModInv, VersionInv, Early, Idle, Current, UpdaterOf
<1> QED BY <1>1, <1>2, <1>3, <1>4, <1>5, <1>6 DEF Inv

\* rcu_updater_list starts its grace period.
LEMMA SynchronizeStep ==
  ASSUME Inv, synchronize_rcu PROVE Inv'
<1> USE RcuAssumption, ObjInj, ObjIn DEF Inv, PlaceInv, TypeOK, Threads, Readers, Updaters, U, L
<1> USE DEF synchronize_rcu, Goto
<1>1. TypeOK' /\ PlaceInv'
  BY SMTT(20) DEF Objs, Place, CallbackInv, ModInv, VersionInv, Early, Idle
<1>2. ModInv' /\ VersionInv'
  BY SMTT(20) DEF ModInv, VersionInv, Early, Idle, Current
<1>3. CallbackInv'
  BY SMTT(20) DEF CallbackInv, ModInv, VersionInv, Early, Idle
<1>4. HeapInv'
  BY SMTT(20) DEF HeapInv, CallbackInv, ModInv, VersionInv, Early, Idle, Current
<1>5. Protected'
  BY SMTT(20) DEF Protected, CallbackInv, ModInv, VersionInv, Early, Idle, Current
<1>6. SeenInv'
  BY SMTT(20) DEF SeenInv, ModInv, VersionInv, Early, Idle, Current, UpdaterOf
<1> QED BY <1>1, <1>2, <1>3, <1>4, <1>5, <1>6 DEF Inv

\* rcu_updater_list frees the old entry after the grace period.
LEMMA KfreeStep ==
  ASSUME Inv, kfree PROVE Inv'
<1> USE RcuAssumption, ObjInj, ObjIn DEF Inv, PlaceInv, TypeOK, Threads, Readers, Updaters, U, L
<1> USE DEF kfree, Again, Goto
<1>1. TypeOK' /\ PlaceInv'
  BY SMTT(20) DEF Objs, Place, CallbackInv, ModInv, VersionInv, Early, Idle
<1>2. ModInv' /\ VersionInv'
  BY SMTT(20) DEF ModInv, VersionInv, Early, Idle, Current
<1>3. CallbackInv'
  BY SMTT(20) DEF CallbackInv, ModInv, VersionInv, Early, Idle
<1>4. HeapInv'
  BY SMTT(20) DEF HeapInv, CallbackInv, ModInv, VersionInv, Early, Idle, Current
<1>5. Protected'
  BY SMTT(20) DEF Protected, CallbackInv, ModInv, VersionInv, Early, Idle, Current
<1>6. SeenInv'
  BY SMTT(20) DEF SeenInv, ModInv, VersionInv, Early, Idle, Current, UpdaterOf
<1> QED BY <1>1, <1>2, <1>3, <1>4, <1>5, <1>6 DEF Inv

\* A callback whose grace period is over frees its version.
LEMMA ReclaimerStep ==
  ASSUME Inv, NEW c \in callbacks, rcu_reclaimer(c) PROVE Inv'
<1> USE RcuAssumption, ObjInj, ObjIn DEF Inv, PlaceInv, TypeOK, Threads, Readers, Updaters, U, L
<1> USE DEF rcu_reclaimer
<1>1. TypeOK' /\ PlaceInv'
  BY SMTT(20) DEF Objs, Place, CallbackInv, ModInv, VersionInv, Early, Idle
<1>2. ModInv' /\ VersionInv'
  BY SMTT(20) DEF ModInv, VersionInv, Early, Idle, Current
<1>3. CallbackInv'
  BY SMTT(20) DEF CallbackInv, ModInv, VersionInv, Early, Idle
<1>4. HeapInv'
  BY SMTT(20) DEF HeapInv, CallbackInv, ModInv, VersionInv, Early, Idle, Current
<1>5. Protected'
  BY SMTT(20) DEF Protected, CallbackInv, ModInv, VersionInv, Early, Idle, Current
<1>6. SeenInv'
  BY DEF SeenInv, Current
<1> QED BY <1>1, <1>2, <1>3, <1>4, <1>5, <1>6 DEF Inv

\* A step that changes nothing.
LEMMA StutterStep ==
  ASSUME Inv, UNCHANGED vars PROVE Inv'
<1> USE DEF Inv, vars
<1>1. TypeOK'
  BY DEF TypeOK
<1>2. PlaceInv'
  BY DEF PlaceInv
<1>3. ModInv'
  BY DEF ModInv, Early, Idle, Current
<1>4. VersionInv'
  BY DEF VersionInv, Current
<1>5. CallbackInv' /\ HeapInv'
  BY DEF CallbackInv, HeapInv
<1>6. Protected'
  BY DEF Protected
<1>7. SeenInv'
  BY DEF SeenInv, Current
<1> QED BY <1>1, <1>2, <1>3, <1>4, <1>5, <1>6, <1>7

\* Every step of the four threads, of the module's init and exit and of the
\* reclaimer keeps the invariant.
THEOREM RcuInvariant == Spec => []Inv
<1>1. ASSUME Inv, [Next]_vars PROVE Inv'
  <2> USE <1>1
  <2>1. CASE InitExit
    BY <2>1, RunStep, InitPfooStep, InitListStep, ExitPfooStep, ExitListStep DEF InitExit
  <2>2. CASE Updater
    BY <2>2, AllocStep, UpdaterSleepStep, PublishStep, CallRcuStep DEF Updater, U
  <2>3. CASE UpdaterList
    BY <2>3, ListSleepStep, ListAllocStep, ReplaceStep, SynchronizeStep, KfreeStep DEF UpdaterList, L
  <2>4. CASE Reclaimer
    BY <2>4, ReclaimerStep DEF Reclaimer
  <2>5. ASSUME NEW r \in Readers, Reader(r) PROVE Inv'
    BY <2>5, ReaderSleepStep, ReadLockStep, DereferenceStep, PrintStep, ReadUnlockStep DEF Reader
  <2>6. CASE UNCHANGED vars
    BY <2>6, StutterStep
  <2> QED BY <2>1, <2>2, <2>3, <2>4, <2>5, <2>6 DEF Next
<1> QED BY <1>1, InitInv, PTL DEF Spec

-------------------------------------------------------------------------------
\* No thread of RCU/simple.c dereferences freed memory, and no reader goes back to
\* an older version: rcu_dereference finds the published object, and the one a
\* reader keeps is retired only through a grace period that waits for this reader.
THEOREM ReadersAreSafe == Spec => []ReadsSafe
<1>1. Inv => ReadsSafe
  <2> SUFFICES ASSUME Inv PROVE ReadsSafe
    OBVIOUS
  <2> USE RcuAssumption, ObjInj DEF Inv, TypeOK, PlaceInv, Threads, Readers, Updaters, U, L
  <2>1. \A t \in Threads : pc[t] \in {"lock", "deref", "print", "unlock", "copy", "retire", "free"} =>
          mod = "loaded"
    BY DEF ModInv, Early, Idle
  <2>2. \A t \in Readers : pc[t] \in {"print", "unlock"} => p[t] \in heap
    BY <2>1 DEF Protected, HeapInv
  <2>3. \A t \in Readers : pc[t] = "print" => seen[t] <= a[p[t]]
    BY DEF SeenInv, VersionInv, UpdaterOf, Current
  <2>4. \A t \in Updaters : pc[t] = "copy" => Shared(t) \in heap /\ new[t] \in heap
    BY <2>1 DEF HeapInv, Shared
  <2> QED BY <2>2, <2>3, <2>4 DEF ReadsSafe
<1> QED BY <1>1, RcuInvariant, PTL

\* A version that call_rcu or synchronize_rcu retires is no longer published, is
\* still allocated and waits in one place only: it is freed exactly once.
THEOREM FreedOnce == Spec => []RetiredOnce
<1>1. Inv => RetiredOnce
  <2> SUFFICES ASSUME Inv PROVE RetiredOnce
    OBVIOUS
  <2> USE RcuAssumption, ObjInj, ObjIn DEF Inv, TypeOK, PlaceInv, Threads, Readers, Updaters, U, L
  <2>1. \A t \in Threads : pc[t] \in {"retire", "free"} => mod = "loaded"
    BY DEF ModInv, Early, Idle
  <2>2. callbacks # {} => mod \in {"loaded"}
    BY DEF ModInv, Early, Idle
  <2>3. \A c, d \in callbacks : c.obj = d.obj => c = d
    BY DEF CallbackInv
  <2>4. \A c \in callbacks : c.obj \in heap
    BY DEF HeapInv
  <2>5. \A c \in callbacks : c.obj # g_pfoo /\ c.obj # g_rcu_list
    BY <2>2 DEF CallbackInv, ModInv, Current
  <2>6. pc[L] \in {"retire", "free"} => p[L] \in heap \ {g_pfoo, g_rcu_list}
    BY <2>1 DEF HeapInv, ModInv, VersionInv, Current
  <2> QED BY <2>3, <2>4, <2>5, <2>6 DEF RetiredOnce
<1> QED BY <1>1, RcuInvariant, PTL

\* When the threads have returned and the callbacks have run, only what is published
\* is allocated, and after rcu_test_exit nothing is.
THEOREM LastVersionsFreed == Spec => []NoLeak
<1>1. Inv => NoLeak
  <2> SUFFICES ASSUME Inv, Idle PROVE NoLeak
    BY DEF NoLeak
  <2> USE RcuAssumption, ObjInj DEF Inv, TypeOK, PlaceInv, Threads, Readers, Updaters, U, L, Idle
  <2>1. mod \in {"loaded", "exiting", "absent"}
    BY DEF ModInv, Early
  <2>2. \A o : o \in heap <=> \/ mod = "loaded" /\ o = g_pfoo
                              \/ mod \in {"loaded", "exiting"} /\ o = g_rcu_list
    BY <2>1 DEF HeapInv
  <2>3. CASE mod = "loaded"
    BY <2>2, <2>3 DEF NoLeak
  <2>4. CASE mod = "exiting"
    BY <2>2, <2>4 DEF NoLeak
  <2>5. CASE mod = "absent"
    BY <2>2, <2>5 DEF NoLeak
  <2> QED BY <2>1, <2>3, <2>4, <2>5
<1> QED BY <1>1, RcuInvariant, PTL
===============================================================================
