----------------------------- MODULE UserCallProofs -----------------------------
(***************************************************************************)
(* The modules that are called from user space by many at a time.  The     *)
(* mutex device is an atomic buffer, and the callers of poc.c never read a *)
(* torn one; a write to the notifier calls every subscriber that stays,    *)
(* once, and nobody who is gone; a netlink answer reaches who asked.       *)
(***************************************************************************)
EXTENDS MutexDevice, Notifier, Netlink, SequenceTheorems, TLAPS

\* What a thread knows of its own copy.  Only a thread with an open file is in
\* a call, and only a module with its mutex set up has open files, so my_init
\* never resets a mutex that is held.
CopyInv ==
  \A t \in Threads :
    /\ pc[t] # "closed" => mod = "ready"
    /\ pc[t] \notin {"closed", "idle"} => size[t] \in Sizes
    /\ pc[t] \in {"read_lock", "write_lock"} => pos[t] = 0
    /\ pc[t] \in {"read_copy", "write_copy"} => pos[t] < size[t]
    /\ pc[t] \in {"read_unlock", "write_unlock"} => pos[t] = size[t]
    /\ pc[t] \in Reading \cup Writing =>
         \A c \in Cell : c < pos[t] => ubuf[t][c] = buff[c]

Inv == TypeOK /\ OwnerCopies /\ CopyInv

LEMMA InvInit == Init => Inv
BY DeviceAssumption
   DEF Init, Inv, TypeOK, OwnerCopies, CopyInv, Stage, Place, Reading, Writing, Filled, Cell

\* A copying thread has a cell left, inside the buffer.
LEMMA CopyRange ==
  ASSUME TypeOK, CopyInv, NEW t \in Threads, pc[t] \in {"read_copy", "write_copy"}
  PROVE  /\ pos[t] \in Nat /\ pos[t] < size[t] /\ size[t] \in Nat /\ size[t] <= BuffSize
         /\ pos[t] \in Cell
<1>1. size[t] \in Sizes /\ pos[t] < size[t] /\ pos[t] \in 0 .. BuffSize
  BY DEF CopyInv, TypeOK
<1>2. size[t] \in 1 .. BuffSize /\ BuffSize \in Nat
  BY <1>1, DeviceAssumption
<1> QED BY <1>1, <1>2 DEF Cell

\* Moving one cell keeps the buffers well formed.
LEMMA OneCell ==
  ASSUME NEW S, NEW f \in [Cell -> S], NEW c \in Cell, NEW v \in S
  PROVE  /\ [f EXCEPT ![c] = v] \in [Cell -> S]
         /\ [f EXCEPT ![c] = v][c] = v
         /\ \A d \in Cell : d # c => [f EXCEPT ![c] = v][d] = f[d]
OBVIOUS

LEMMA TypeStep ==
  ASSUME Inv, [Next]_vars
  PROVE  TypeOK'
<1> USE DeviceAssumption DEF Inv, TypeOK, Stage, Place, Reading, Writing
<1>1. CASE Module
  BY <1>1 DEF Module, alloc_chrdev_region, cdev_add, mutex_init, device_create, my_exit, Filled
<1>2. ASSUME NEW t \in Threads, Call(t) PROVE TypeOK'
  <2>1. CASE open_file(t) \/ close_file(t)
    BY <2>1 DEF open_file, close_file, Goto
  <2>2. ASSUME NEW n \in Sizes, read_file(t, n) PROVE TypeOK'
    BY <2>2 DEF read_file, Goto
  <2>3. ASSUME NEW n \in Sizes, NEW v \in Values, write_file(t, v, n) PROVE TypeOK'
    <3>1. Filled(v) \in [Cell -> Values \cup {Erased}]
      BY DEF Filled
    <3> QED BY <2>3, <3>1 DEF write_file, Goto
  <2> QED BY <1>2, <2>1, <2>2, <2>3 DEF Call
<1>3. ASSUME NEW t \in Threads, Step(t) PROVE TypeOK'
  <2>1. CASE read_lock(t) \/ read_unlock(t) \/ write_lock(t) \/ write_unlock(t)
    BY <2>1 DEF read_lock, read_unlock, write_lock, write_unlock, Lock, Unlock, Goto
  <2>2. CASE copy_to_user(t) \/ copy_from_user(t)
    <3>1. pc[t] \in {"read_copy", "write_copy"}
      BY <2>2 DEF copy_to_user, copy_from_user, Advance
    <3>2. pos[t] \in Cell /\ pos[t] + 1 \in 0 .. BuffSize
      BY <3>1, CopyRange
    <3>3. pos' \in [Threads -> 0 .. BuffSize] /\ pc' \in [Threads -> Place]
      BY <2>2, <3>2 DEF copy_to_user, copy_from_user, Advance, Goto
    <3>4. ubuf' \in [Threads -> [Cell -> Values \cup {Erased}]]
      <4>1. [ubuf[t] EXCEPT ![pos[t]] = buff[pos[t]]] \in [Cell -> Values \cup {Erased}]
        BY <3>2, OneCell
      <4> QED BY <2>2, <4>1 DEF copy_to_user, copy_from_user
    <3>5. buff' \in [Cell -> Values \cup {Erased}]
      BY <2>2, <3>2 DEF copy_to_user, copy_from_user
    <3> QED BY <2>2, <3>3, <3>4, <3>5 DEF copy_to_user, copy_from_user
  <2> QED BY <1>3, <2>1, <2>2 DEF Step
<1>4. CASE UNCHANGED vars
  BY <1>4 DEF vars
<1> QED BY <1>1, <1>2, <1>3, <1>4 DEF Next

LEMMA OwnerStep ==
  ASSUME Inv, [Next]_vars
  PROVE  OwnerCopies'
<1> USE DeviceAssumption DEF Inv, TypeOK, OwnerCopies, Reading, Writing
<1>1. CASE Module
  BY <1>1 DEF Module, alloc_chrdev_region, cdev_add, mutex_init, device_create, my_exit,
              CopyInv, Place
<1>2. ASSUME NEW t \in Threads, Call(t) PROVE OwnerCopies'
  BY <1>2 DEF Call, open_file, close_file, read_file, write_file, Goto
<1>3. ASSUME NEW t \in Threads, Step(t) PROVE OwnerCopies'
  BY <1>3 DEF Step, read_lock, read_unlock, write_lock, write_unlock, Lock, Unlock, Goto,
              copy_to_user, copy_from_user, Advance
<1>4. CASE UNCHANGED vars
  BY <1>4 DEF vars
<1> QED BY <1>1, <1>2, <1>3, <1>4 DEF Next

LEMMA CopyStep ==
  ASSUME Inv, [Next]_vars
  PROVE  CopyInv'
<1> USE DeviceAssumption DEF Inv, TypeOK, Reading, Writing
<1>1. CASE Module
  BY <1>1 DEF Module, alloc_chrdev_region, cdev_add, mutex_init, device_create, my_exit, CopyInv
<1>2. ASSUME NEW t \in Threads, Call(t) PROVE CopyInv'
  BY <1>2 DEF Call, open_file, close_file, read_file, write_file, Goto, CopyInv, Node
<1>3. ASSUME NEW t \in Threads, Step(t) PROVE CopyInv'
  <2>1. CASE read_lock(t) \/ write_lock(t)
    <3>1. size[t] \in Sizes /\ pos[t] = 0 /\ mod = "ready"
      BY <2>1 DEF read_lock, write_lock, Lock, CopyInv
    <3>2. size[t] \in 1 .. BuffSize
      BY <3>1
    <3>3. 0 < size[t] /\ \A c \in Cell : ~(c < 0)
      BY <3>2 DEF Cell
    <3> QED BY <2>1, <3>1, <3>3 DEF read_lock, write_lock, Lock, Goto, CopyInv
  <2>2. CASE read_unlock(t) \/ write_unlock(t)
    BY <2>2 DEF read_unlock, write_unlock, Unlock, Goto, CopyInv
  <2>3. CASE copy_to_user(t) \/ copy_from_user(t)
    <3>1. /\ pc[t] \in {"read_copy", "write_copy"}
          /\ pos' = [pos EXCEPT ![t] = pos[t] + 1]
          /\ pc' = [pc EXCEPT ![t] = pc'[t]]
          /\ pc'[t] \in {"read_copy", "write_copy"} => pos[t] + 1 # size[t]
          /\ pc'[t] \in {"read_unlock", "write_unlock"} => pos[t] + 1 = size[t]
          /\ pc'[t] \in Reading \cup Writing
          /\ UNCHANGED <<mod, size>>
      BY <2>3 DEF copy_to_user, copy_from_user, Advance, Goto
    <3>2. /\ pos[t] \in Nat /\ pos[t] < size[t] /\ size[t] \in Nat
          /\ pos[t] \in Cell
      BY <3>1, CopyRange
    <3>3. mod = "ready" /\ size[t] \in Sizes
      BY <3>1 DEF CopyInv
    <3>4. ASSUME NEW c \in Cell, c < pos[t] + 1 PROVE ubuf'[t][c] = buff'[c]
      <4>1. c < pos[t] => ubuf[t][c] = buff[c]
        BY <3>1 DEF CopyInv
      <4>2. c = pos[t] \/ c < pos[t]
        BY <3>2, <3>4 DEF Cell
      <4>3. CASE copy_to_user(t)
        <5>1. ubuf'[t] = [ubuf[t] EXCEPT ![pos[t]] = buff[pos[t]]] /\ buff' = buff
          BY <4>3 DEF copy_to_user
        <5> QED BY <3>2, <4>1, <4>2, <5>1
      <4>4. CASE copy_from_user(t)
        <5>1. buff' = [buff EXCEPT ![pos[t]] = ubuf[t][pos[t]]] /\ ubuf' = ubuf
          BY <4>4 DEF copy_from_user
        <5> QED BY <3>2, <4>1, <4>2, <5>1
      <4> QED BY <2>3, <4>3, <4>4
    <3>5. ASSUME NEW u \in Threads, u # t
          PROVE  pc'[u] = pc[u] /\ pc[u] \notin Reading \cup Writing /\ pos'[u] = pos[u]
      BY <3>1, <3>5 DEF OwnerCopies
    <3>6. pos'[t] = pos[t] + 1 /\ (pos[t] + 1 # size[t] => pos'[t] < size[t])
      BY <3>1, <3>2
    <3> QED BY <3>1, <3>3, <3>4, <3>5, <3>6 DEF CopyInv
  <2> QED BY <1>3, <2>1, <2>2, <2>3 DEF Step
<1>4. CASE UNCHANGED vars
  BY <1>4 DEF vars, CopyInv
<1> QED BY <1>1, <1>2, <1>3, <1>4 DEF Next

\* Two copies never overlap: for any threads and any buffer, a thread is
\* between mutex_lock and mutex_unlock exactly when it owns the mutex.
THEOREM MutualExclusion == Spec => [](TypeOK /\ OwnerCopies)
<1>1. Inv /\ [Next]_vars => Inv'
  BY TypeStep, OwnerStep, CopyStep DEF Inv
<1>2. Inv => TypeOK /\ OwnerCopies
  BY DEF Inv
<1> QED BY InvInit, <1>1, <1>2, PTL DEF Spec
-------------------------------------------------------------------------------
(* The refinement: a call takes effect when it gets the mutex. *)

LEMMA InvStep == Inv /\ [Next]_vars => Inv'
BY TypeStep, OwnerStep, CopyStep DEF Inv

LEMMA AbstractInit == Init => Abstract!Init
BY DeviceAssumption
   DEF Init, Abstract!Init, Abstract!Filled, Abstract!Cell, CellsAtLock, UserAtLock,
       PendingAtLock, Filled, Cell, Reading, Writing

AbstractVars == <<CellsAtLock, UserAtLock, PendingAtLock, size>>

\* Loading the module shows nothing; unloading it erases the buffer.
LEMMA ModuleRefines ==
  ASSUME Inv, Module
  PROVE  [Abstract!Next]_AbstractVars
<1> USE DEF Inv, TypeOK, Reading, Writing
<1>1. CASE alloc_chrdev_region \/ cdev_add \/ device_create
  BY <1>1 DEF alloc_chrdev_region, cdev_add, device_create, AbstractVars, CellsAtLock,
              UserAtLock, PendingAtLock
<1>2. CASE mutex_init
  <2>1. mutex = NoThread
    BY <1>2 DEF mutex_init, OwnerCopies, CopyInv, Place
  <2> QED BY <1>2, <2>1 DEF mutex_init, AbstractVars, CellsAtLock, UserAtLock, PendingAtLock
<1>3. CASE my_exit
  <2>1. CellsAtLock' = Filled(Erased) /\ UserAtLock' = UserAtLock
    BY <1>3 DEF my_exit, CellsAtLock, UserAtLock
  <2>2. PendingAtLock' = PendingAtLock /\ \A t \in Threads : PendingAtLock[t] = "none"
    BY <1>3 DEF my_exit, PendingAtLock
  <2> QED BY <1>3, <2>1, <2>2 DEF my_exit, Abstract!Next, Abstract!Reload, Abstract!Filled,
             Abstract!Cell, Filled, Cell
<1> QED BY <1>1, <1>2, <1>3 DEF Module

LEMMA CallRefines ==
  ASSUME Inv, NEW t \in Threads, Call(t)
  PROVE  [Abstract!Next]_AbstractVars
<1> USE DEF Inv, TypeOK, Reading, Writing
<1>1. CASE open_file(t) \/ close_file(t)
  <2>1. UNCHANGED <<UserAtLock, PendingAtLock, size>>
    BY <1>1 DEF open_file, close_file, Goto, UserAtLock, PendingAtLock
  <2>2. UNCHANGED CellsAtLock
    BY <1>1, DeviceAssumption DEF open_file, close_file, Goto, CellsAtLock, OwnerCopies
  <2> QED BY <2>1, <2>2 DEF AbstractVars
<1>2. ASSUME NEW n \in Sizes, read_file(t, n) PROVE Abstract!Next
  <2>1. UNCHANGED <<UserAtLock, CellsAtLock>>
    BY <1>2, DeviceAssumption DEF read_file, Goto, UserAtLock, CellsAtLock, OwnerCopies
  <2>2. PendingAtLock[t] = "none" /\ PendingAtLock' = [PendingAtLock EXCEPT ![t] = "read"]
    BY <1>2 DEF read_file, Goto, PendingAtLock
  <2>3. Abstract!CallRead(t, n)
    BY <1>2, <2>1, <2>2 DEF read_file, Abstract!CallRead
  <2> QED BY <2>3 DEF Abstract!Next
<1>3. ASSUME NEW n \in Sizes, NEW v \in Values, write_file(t, v, n) PROVE Abstract!Next
  <2>1. UNCHANGED CellsAtLock
    BY <1>3, DeviceAssumption DEF write_file, Goto, CellsAtLock, OwnerCopies
  <2>2. PendingAtLock[t] = "none" /\ PendingAtLock' = [PendingAtLock EXCEPT ![t] = "write"]
    BY <1>3 DEF write_file, Goto, PendingAtLock
  <2>3. UserAtLock' = [UserAtLock EXCEPT ![t] = Filled(v)]
    BY <1>3 DEF write_file, Goto, UserAtLock
  <2>4. Abstract!CallWrite(t, v, n)
    BY <1>3, <2>1, <2>2, <2>3 DEF write_file, Abstract!CallWrite, Abstract!Filled,
       Abstract!Cell, Filled, Cell
  <2> QED BY <2>4 DEF Abstract!Next
<1> QED BY <1>1, <1>2, <1>3, Call(t) DEF Call

\* Taking the mutex is the instant of the call.
LEMMA LockRefines ==
  ASSUME Inv, NEW t \in Threads, read_lock(t) \/ write_lock(t)
  PROVE  Abstract!Next
<1> USE DEF Inv, TypeOK, Reading, Writing
<1>1. CellsAtLock = buff
  BY DEF read_lock, write_lock, Lock, CellsAtLock
<1>2. CASE read_lock(t)
  <2>1. CellsAtLock' = buff
    BY <1>2, DeviceAssumption DEF read_lock, Lock, Goto, CellsAtLock
  <2>2. PendingAtLock[t] = "read" /\ PendingAtLock' = [PendingAtLock EXCEPT ![t] = "done"]
    BY <1>2 DEF read_lock, Lock, Goto, PendingAtLock
  <2>3. /\ UserAtLock[t] = ubuf[t]
        /\ UserAtLock' = [UserAtLock EXCEPT ![t] = Overlay(ubuf[t], buff, size[t])]
    BY <1>2 DEF read_lock, Lock, Goto, UserAtLock, Overlay
  <2>4. Abstract!Read(t)
    BY <1>1, <1>2, <2>1, <2>2, <2>3
       DEF read_lock, Lock, Abstract!Read, Abstract!Overlay, Abstract!Cell, Overlay, Cell
  <2> QED BY <2>4 DEF Abstract!Next
<1>3. CASE write_lock(t)
  <2>1. CellsAtLock' = Overlay(buff, ubuf[t], size[t])
    BY <1>3, DeviceAssumption DEF write_lock, Lock, Goto, CellsAtLock, Overlay
  <2>2. PendingAtLock[t] = "write" /\ PendingAtLock' = [PendingAtLock EXCEPT ![t] = "done"]
    BY <1>3 DEF write_lock, Lock, Goto, PendingAtLock
  <2>3. UserAtLock[t] = ubuf[t] /\ UserAtLock' = UserAtLock
    BY <1>3 DEF write_lock, Lock, Goto, UserAtLock, Overlay
  <2>4. Abstract!Write(t)
    BY <1>1, <1>3, <2>1, <2>2, <2>3
       DEF write_lock, Lock, Abstract!Write, Abstract!Overlay, Abstract!Cell, Overlay, Cell
  <2> QED BY <2>4 DEF Abstract!Next
<1> QED BY <1>2, <1>3

\* A cell that moves was already promised: the copies are invisible.
LEMMA CopyRefines ==
  ASSUME Inv, NEW t \in Threads, copy_to_user(t) \/ copy_from_user(t)
  PROVE  UNCHANGED AbstractVars
<1> USE DEF Inv, TypeOK, Reading, Writing
<1>1. /\ pc[t] \in {"read_copy", "write_copy"}
      /\ pc' = [pc EXCEPT ![t] = pc'[t]]
      /\ pc[t] \in Reading <=> pc'[t] \in Reading
      /\ pc[t] \in Writing <=> pc'[t] \in Writing
      /\ UNCHANGED <<mutex, size>>
  BY DEF copy_to_user, copy_from_user, Advance, Goto
<1>2. pos[t] \in Nat /\ pos[t] < size[t] /\ pos[t] \in Cell
  BY <1>1, CopyRange
<1>3. UNCHANGED PendingAtLock
  BY <1>1 DEF PendingAtLock
<1>4. mutex = t
  BY <1>1 DEF OwnerCopies
<1>5. CASE copy_to_user(t)
  <2>1. ubuf' = [ubuf EXCEPT ![t] = [ubuf[t] EXCEPT ![pos[t]] = buff[pos[t]]]] /\ buff' = buff
    BY <1>5 DEF copy_to_user
  <2>2. Overlay(ubuf[t], buff, size[t])' = Overlay(ubuf[t], buff, size[t])
    BY <1>1, <1>2, <2>1 DEF Overlay
  <2>3. pc[t] \in Reading /\ pc[t] \notin Writing
    BY <1>5 DEF copy_to_user, Advance
  <2>4. UNCHANGED CellsAtLock
    BY <1>1, <1>4, <2>1, <2>3 DEF CellsAtLock
  <2>5. ASSUME NEW u \in Threads PROVE UserAtLock'[u] = UserAtLock[u]
    <3>1. CASE u = t
      BY <1>1, <2>2, <2>3, <3>1 DEF UserAtLock
    <3>2. CASE u # t
      BY <1>1, <2>1, <3>2 DEF UserAtLock, Overlay
    <3> QED BY <3>1, <3>2
  <2> QED BY <1>1, <1>3, <2>4, <2>5 DEF AbstractVars, UserAtLock
<1>6. CASE copy_from_user(t)
  <2>1. buff' = [buff EXCEPT ![pos[t]] = ubuf[t][pos[t]]] /\ ubuf' = ubuf
    BY <1>6 DEF copy_from_user
  <2>2. Overlay(buff, ubuf[t], size[t])' = Overlay(buff, ubuf[t], size[t])
    BY <1>1, <1>2, <2>1 DEF Overlay
  <2>3. pc[t] \in Writing /\ \A u \in Threads : pc[u] \notin Reading /\ pc'[u] \notin Reading
    BY <1>1, <1>4, <1>6 DEF copy_from_user, Advance, OwnerCopies
  <2>4. UNCHANGED CellsAtLock
    BY <1>1, <1>4, <2>2, <2>3, DeviceAssumption DEF CellsAtLock
  <2>5. UNCHANGED UserAtLock
    BY <2>1, <2>3 DEF UserAtLock
  <2> QED BY <1>1, <1>3, <2>4, <2>5 DEF AbstractVars
<1> QED BY <1>5, <1>6

\* When the mutex is released the copy has moved every cell it promised.
LEMMA UnlockRefines ==
  ASSUME Inv, NEW t \in Threads, read_unlock(t) \/ write_unlock(t)
  PROVE  Abstract!Next
<1> USE DEF Inv, TypeOK, Reading, Writing
<1>1. /\ pc[t] \in {"read_unlock", "write_unlock"}
      /\ pc' = [pc EXCEPT ![t] = "idle"] /\ mutex' = NoThread
      /\ UNCHANGED <<buff, ubuf, size>>
  BY DEF read_unlock, write_unlock, Unlock, Goto
<1>2. mutex = t /\ \A c \in Cell : c < size[t] => ubuf[t][c] = buff[c]
  BY <1>1 DEF OwnerCopies, CopyInv
<1>3. Overlay(ubuf[t], buff, size[t]) = ubuf[t] /\ Overlay(buff, ubuf[t], size[t]) = buff
  BY <1>2 DEF Overlay
<1>4. UNCHANGED CellsAtLock
  BY <1>1, <1>2, <1>3, DeviceAssumption DEF CellsAtLock
<1>5. ASSUME NEW u \in Threads PROVE UserAtLock'[u] = UserAtLock[u]
  <2>1. CASE u = t
    BY <1>1, <1>3, <2>1 DEF UserAtLock
  <2>2. CASE u # t
    BY <1>1, <2>2 DEF UserAtLock, Overlay
  <2> QED BY <2>1, <2>2
<1>6. UNCHANGED UserAtLock
  BY <1>5 DEF UserAtLock
<1>7. PendingAtLock[t] = "done" /\ PendingAtLock' = [PendingAtLock EXCEPT ![t] = "none"]
  BY <1>1 DEF PendingAtLock
<1>8. Abstract!Return(t)
  BY <1>1, <1>4, <1>6, <1>7 DEF Abstract!Return
<1> QED BY <1>8 DEF Abstract!Next

\* read_file and write_file are atomic: for any threads, buffer and lengths
\* the device implements AtomicBuffer, so no caller sees half a write.
THEOREM DeviceIsAtomic == Spec => AtomicDevice
<1>1. Inv /\ [Next]_vars => [Abstract!Next]_AbstractVars
  <2> SUFFICES ASSUME Inv, [Next]_vars PROVE [Abstract!Next]_AbstractVars
    OBVIOUS
  <2>1. CASE UNCHANGED vars
    BY <2>1 DEF vars, AbstractVars, CellsAtLock, UserAtLock, PendingAtLock, Overlay
  <2>2. ASSUME NEW t \in Threads, Step(t) PROVE [Abstract!Next]_AbstractVars
    BY <2>2, LockRefines, CopyRefines, UnlockRefines DEF Step
  <2> QED BY <2>1, <2>2, ModuleRefines, CallRefines DEF Next
<1> QED
  BY InvInit, InvStep, AbstractInit, <1>1, PTL DEF Spec, AtomicDevice, Abstract!Spec, AbstractVars
-------------------------------------------------------------------------------
(* The callers of poc.c, who always pass the whole buffer. *)

\* Between two writes the buffer holds one value.
WholeWrites == (\A t \in Threads : pc[t] \notin Writing) => Uniform(buff)

LEMMA WholeStep ==
  ASSUME Sizes = {BuffSize}, Inv, WholeReads, WholeWrites, [Next]_vars
  PROVE  WholeReads' /\ WholeWrites'
<1> USE DEF Inv, TypeOK, Reading, Writing, WholeReads, WholeWrites
<1>1. CASE Module
  BY <1>1 DEF Module, alloc_chrdev_region, cdev_add, mutex_init, device_create, my_exit, Filled, Uniform
<1>2. ASSUME NEW t \in Threads, Call(t) PROVE WholeReads' /\ WholeWrites'
  <2>1. /\ pc[t] \notin Writing /\ pc[t] \notin Reading /\ buff' = buff
        /\ \A u \in Threads : u # t => pc'[u] = pc[u] /\ ubuf'[u] = ubuf[u]
    BY <1>2 DEF Call, open_file, close_file, read_file, write_file, Goto
  <2>2. Uniform(ubuf'[t])
    <3>1. ubuf'[t] = ubuf[t] \/ \E v \in Values : ubuf'[t] = Filled(v)
      BY <1>2 DEF Call, open_file, close_file, read_file, write_file
    <3>2. \A v \in Values : Uniform(Filled(v))
      BY DEF Filled, Uniform
    <3>3. Uniform(ubuf[t])
      BY <2>1
    <3> QED BY <3>1, <3>2, <3>3
  <2> QED BY <2>1, <2>2
<1>3. ASSUME NEW t \in Threads, Step(t) PROVE WholeReads' /\ WholeWrites'
  <2>1. CASE read_lock(t) \/ write_lock(t)
    <3>1. /\ pc[t] \notin Writing /\ UNCHANGED <<buff, ubuf>>
          /\ \A u \in Threads : u # t => pc'[u] = pc[u]
          /\ pc[t] \notin Reading
      BY <2>1 DEF read_lock, write_lock, Lock, Goto
    <3> QED BY <3>1
  <2>2. CASE copy_to_user(t) \/ copy_from_user(t)
    <3>1. pc' = [pc EXCEPT ![t] = pc'[t]] /\ pc[t] \in Reading \cup Writing
      BY <2>2 DEF copy_to_user, copy_from_user, Advance, Goto
    <3>2. CASE copy_to_user(t)
      <4>1. pc[t] \in Reading /\ pc'[t] \in Reading /\ buff' = buff
        BY <3>2 DEF copy_to_user, Advance, Goto
      <4>2. \A u \in Threads : u # t => pc'[u] = pc[u] /\ ubuf'[u] = ubuf[u]
        BY <3>1, <3>2 DEF copy_to_user
      <4> QED BY <4>1, <4>2
    <3>3. CASE copy_from_user(t)
      <4>1. pc[t] \in Writing /\ pc'[t] \in Writing /\ ubuf' = ubuf
        BY <3>3 DEF copy_from_user, Advance, Goto
      <4> QED BY <3>1, <4>1
    <3> QED BY <2>2, <3>2, <3>3
  <2>3. CASE read_unlock(t) \/ write_unlock(t)
    <3>1. /\ pc[t] \in {"read_unlock", "write_unlock"}
          /\ pc' = [pc EXCEPT ![t] = "idle"] /\ UNCHANGED <<buff, ubuf>>
      BY <2>3 DEF read_unlock, write_unlock, Unlock, Goto
    <3>2. pos[t] = BuffSize
      BY <3>1 DEF CopyInv
    <3>3. \A c \in Cell : c < BuffSize
      BY DeviceAssumption DEF Cell
    <3>4. \A c \in Cell : ubuf[t][c] = buff[c]
      BY <3>1, <3>2, <3>3 DEF CopyInv
    <3>5. mutex = t /\ \A u \in Threads : u # t => pc[u] \notin Reading \cup Writing
      BY <3>1 DEF OwnerCopies
    <3>6. Uniform(buff) /\ Uniform(ubuf[t])
      <4>1. CASE pc[t] \in Writing
        BY <3>4, <4>1 DEF Uniform
      <4>2. CASE pc[t] \in Reading
        BY <3>4, <3>5, <4>2 DEF Uniform
      <4> QED BY <3>1, <4>1, <4>2
    <3> QED BY <3>1, <3>6
  <2> QED BY <1>3, <2>1, <2>2, <2>3 DEF Step
<1>4. CASE UNCHANGED vars
  BY <1>4 DEF vars
<1> QED BY <1>1, <1>2, <1>3, <1>4 DEF Next

\* poc.c's claim for the device with its mutex, for any number of readers and
\* writers and any buffer: when all calls pass the whole buffer, what a read
\* returns is a single value.
THEOREM PocNeverTorn ==
  ASSUME Sizes = {BuffSize}
  PROVE  Spec => []WholeReads
<1>1. Init => WholeReads /\ WholeWrites
  BY DEF Init, WholeReads, WholeWrites, Uniform, Filled
<1>2. Inv /\ WholeReads /\ WholeWrites /\ [Next]_vars => WholeReads' /\ WholeWrites'
  BY WholeStep
<1> QED BY InvInit, InvStep, <1>1, <1>2, PTL DEF Spec
-------------------------------------------------------------------------------
(* notifier and netlink *)

NotifierType ==
  /\ publisher \in {"out", "live", "exit"}
  /\ subscriber \in [Subscribers -> {"out", "init", "live", "exit"}]
  /\ chain \in Seq(Subscribers)
  /\ writer \in [Writers -> {"idle", "call", "lock", "walk", "free"}]
  /\ next \in [Writers -> Nat]
  /\ message \subseteq Writers
  /\ got \in [Writers -> SUBSET Subscribers]
  /\ due \in [Writers -> SUBSET Subscribers]

\* The chain holds the callbacks of the modules between register and unregister,
\* each once.
ChainInv ==
  /\ \A s \in Subscribers : s \in Registered <=> subscriber[s] \in {"live", "exit"}
  /\ \A i, j \in 1 .. Len(chain) : chain[i] = chain[j] => i = j

\* Before its walk a write has called nobody, during it the part of the chain
\* that it has passed, and afterwards everyone it owes a call.
WriteInv ==
  \A w \in Writers :
    /\ writer[w] # "idle" => publisher # "out" /\ w \in message
    /\ writer[w] \in {"idle", "call", "lock"} => next[w] = 1 /\ got[w] = {}
    /\ writer[w] = "walk" => next[w] \in 1 .. Len(chain) + 1
    /\ writer[w] = "walk" => got[w] = {chain[i] : i \in 1 .. next[w] - 1}
    /\ writer[w] \in {"call", "lock", "walk"} => due[w] \subseteq Registered
    /\ writer[w] = "free" => due[w] \subseteq got[w]

NotifierInv == NotifierType /\ ChainInv /\ WriteInv

LEMMA NotifierInitInv == NotifierInit => NotifierInv
<1> SUFFICES ASSUME NotifierInit PROVE NotifierInv
  OBVIOUS
<1>1. chain \in Seq(Subscribers) /\ Len(chain) = 0 /\ Registered = {}
  BY DEF NotifierInit, Registered
<1> QED BY <1>1 DEF NotifierInit, NotifierInv, NotifierType, ChainInv, WriteInv

-------------------------------------------------------------------------------
\* What appending a callback that is not on the chain does to it.
LEMMA AppendChain ==
  ASSUME NotifierType, ChainInv, NEW s \in Subscribers, s \notin Registered,
         chain' = Append(chain, s)
  PROVE  /\ chain' \in Seq(Subscribers)
         /\ Registered' = Registered \cup {s}
         /\ \A i, j \in 1 .. Len(chain') : chain'[i] = chain'[j] => i = j
<1>1. /\ chain \in Seq(Subscribers) /\ Len(chain) \in Nat
      /\ chain' \in Seq(Subscribers) /\ Len(chain') = Len(chain) + 1
      /\ \A i \in 1 .. Len(chain) : chain'[i] = chain[i]
      /\ chain'[Len(chain) + 1] = s
  BY AppendProperties, LenProperties DEF NotifierType
<1>2. \A i \in 1 .. Len(chain) : chain[i] \in Registered
  BY DEF Registered
<1>3. Registered' = Registered \cup {s}
  BY <1>1 DEF Registered
<1>4. ASSUME NEW i \in 1 .. Len(chain'), NEW j \in 1 .. Len(chain'), chain'[i] = chain'[j]
      PROVE  i = j
  BY <1>1, <1>2, <1>4 DEF ChainInv
<1> QED BY <1>1, <1>3, <1>4

\* What taking the i-th callback off does.
LEMMA CutChain ==
  ASSUME NotifierType, ChainInv, NEW i \in 1 .. Len(chain), chain' = Without(i)
  PROVE  /\ chain' \in Seq(Subscribers)
         /\ Registered' = Registered \ {chain[i]}
         /\ \A j, k \in 1 .. Len(chain') : chain'[j] = chain'[k] => j = k
<1> DEFINE n == Len(chain) - 1
<1>1. chain \in [1 .. Len(chain) -> Subscribers] /\ Len(chain) \in Nat /\ n \in Nat
  BY LenProperties DEF NotifierType
<1>2. chain' \in [1 .. n -> Subscribers]
  BY <1>1 DEF Without
<1>3. chain' \in Seq(Subscribers)
  BY <1>1, <1>2, SeqDef
<1>4. Len(chain') = n
  <2>1. 1 .. Len(chain') = 1 .. n /\ Len(chain') \in Nat
    BY <1>2, <1>3, LenProperties
  <2> DEFINE m == Len(chain')
  <2> HIDE DEF n, m
  <2>2. m > 0 => m \in 1 .. n
    BY <2>1, <1>1 DEF m
  <2>3. n > 0 => n \in 1 .. m
    BY <2>1, <1>1 DEF m
  <2>4. m = n
    BY <2>1, <2>2, <2>3, <1>1 DEF m
  <2> QED BY <2>4 DEF m
<1>5. \A j \in 1 .. n : chain'[j] = IF j < i THEN chain[j] ELSE chain[j + 1]
  BY <1>1 DEF Without
<1> HIDE DEF n
<1>6. n + 1 = Len(chain)
  BY <1>1 DEF n
<1>7. Registered' \subseteq Registered \ {chain[i]}
  <2> SUFFICES ASSUME NEW j \in 1 .. n PROVE chain'[j] \in Registered \ {chain[i]}
    BY <1>4 DEF Registered
  <2>1. CASE j < i
    BY <2>1, <1>1, <1>5, <1>6 DEF Registered, ChainInv
  <2>2. CASE ~(j < i)
    BY <2>2, <1>1, <1>5, <1>6 DEF Registered, ChainInv
  <2> QED BY <2>1, <2>2
<1>8. Registered \ {chain[i]} \subseteq Registered'
  <2> SUFFICES ASSUME NEW j \in 1 .. Len(chain), j # i
               PROVE  \E k \in 1 .. n : chain'[k] = chain[j]
    BY <1>4 DEF Registered
  <2>1. CASE j < i
    <3>1. j \in 1 .. n /\ chain'[j] = chain[j]
      BY <2>1, <1>1, <1>5, <1>6
    <3> QED BY <3>1
  <2>2. CASE ~(j < i)
    <3>1. j - 1 \in 1 .. n /\ ~(j - 1 < i) /\ (j - 1) + 1 = j
      BY <2>2, <1>1, <1>6
    <3> QED BY <3>1, <1>5
  <2> QED BY <2>1, <2>2
<1>9. ASSUME NEW j \in 1 .. n, NEW k \in 1 .. n, chain'[j] = chain'[k] PROVE j = k
  <2> DEFINE At0(m) == IF m < i THEN m ELSE m + 1
  <2>1. At0(j) \in 1 .. Len(chain) /\ At0(k) \in 1 .. Len(chain)
    BY <1>1, <1>6
  <2>2. chain[At0(j)] = chain[At0(k)]
    BY <1>5, <1>9
  <2>3. At0(j) = At0(k)
    BY <2>1, <2>2 DEF ChainInv
  <2> QED BY <2>3, <1>1, <1>6
<1> QED BY <1>3, <1>4, <1>7, <1>8, <1>9

-------------------------------------------------------------------------------
LEMMA NotifierTypeStep ==
  ASSUME NotifierInv, [NotifierNext]_notifierVars
  PROVE  NotifierType'
<1> USE DEF NotifierType, NotifierInv
<1>1. CASE publisher_init \/ publisher_exit \/ remove_proc_entry
  BY <1>1 DEF publisher_init, publisher_exit, remove_proc_entry
<1>2. ASSUME NEW s \in Subscribers, subscriber_init(s) \/ subscriber_exit(s) PROVE NotifierType'
  BY <1>2 DEF subscriber_init, subscriber_exit, Subscriber
<1>3. ASSUME NEW s \in Subscribers, register_my_notifier(s) PROVE NotifierType'
  <2>1. chain' \in Seq(Subscribers)
    BY <1>3, AppendProperties DEF register_my_notifier
  <2> QED BY <2>1, <1>3 DEF register_my_notifier, Subscriber
<1>4. ASSUME NEW s \in Subscribers, unregister_my_notifier(s) PROVE NotifierType'
  <2>1. chain' \in Seq(Subscribers)
    BY <1>4, CutChain DEF unregister_my_notifier
  <2> QED BY <2>1, <1>4 DEF unregister_my_notifier, Subscriber
<1>5. ASSUME NEW w \in Writers, write_proc(w) PROVE NotifierType'
  <2>1. Registered \subseteq Subscribers
    BY ElementOfSeq DEF Registered
  <2> QED BY <2>1, <1>5 DEF write_proc, Writer
<1>6. ASSUME NEW w \in Writers, my_notify_sys(w) PROVE NotifierType'
  <2>1. chain[next[w]] \in Subscribers
    BY <1>6, ElementOfSeq, LenProperties DEF my_notify_sys, WriteInv
  <2> QED BY <2>1, <1>6 DEF my_notify_sys
<1>7. ASSUME NEW w \in Writers,
             blocking_notifier_call_chain(w) \/ down_read(w) \/ up_read(w) \/ kfree_message(w)
      PROVE  NotifierType'
  <2>1. CASE blocking_notifier_call_chain(w)
    BY <2>1 DEF blocking_notifier_call_chain, Writer
  <2>2. CASE down_read(w) \/ up_read(w)
    BY <2>2 DEF down_read, up_read, Writer
  <2>3. CASE kfree_message(w)
    BY <2>3 DEF kfree_message, Writer
  <2> QED BY <1>7, <2>1, <2>2, <2>3
<1>8. CASE UNCHANGED notifierVars
  BY <1>8 DEF notifierVars
<1> QED BY <1>1, <1>2, <1>3, <1>4, <1>5, <1>6, <1>7, <1>8
        DEF NotifierNext, ChainLock, Write

LEMMA ChainStep ==
  ASSUME NotifierInv, [NotifierNext]_notifierVars
  PROVE  ChainInv'
<1> USE DEF NotifierType, NotifierInv
<1>0. ASSUME UNCHANGED <<chain, subscriber>> PROVE ChainInv'
  BY <1>0 DEF ChainInv, Registered
<1>1. CASE publisher_init \/ publisher_exit \/ remove_proc_entry
  BY <1>0, <1>1 DEF publisher_init, publisher_exit, remove_proc_entry
<1>2. ASSUME NEW s \in Subscribers, subscriber_init(s) \/ subscriber_exit(s) PROVE ChainInv'
  <2>1. Registered' = Registered /\ chain' = chain
    BY <1>2 DEF subscriber_init, subscriber_exit, Registered
  <2>2. \A r \in Subscribers : subscriber'[r] \in {"live", "exit"} <=> subscriber[r] \in {"live", "exit"}
    BY <1>2 DEF subscriber_init, subscriber_exit, Subscriber
  <2> QED BY <2>1, <2>2 DEF ChainInv
<1>3. ASSUME NEW s \in Subscribers, register_my_notifier(s) PROVE ChainInv'
  <2>1. s \notin Registered /\ chain' = Append(chain, s)
    BY <1>3 DEF register_my_notifier, Subscriber, ChainInv
  <2>2. \A r \in Subscribers : subscriber'[r] = IF r = s THEN "live" ELSE subscriber[r]
    BY <1>3 DEF register_my_notifier, Subscriber
  <2>3. /\ Registered' = Registered \cup {s}
        /\ \A i, j \in 1 .. Len(chain') : chain'[i] = chain'[j] => i = j
    BY <2>1, AppendChain
  <2> QED BY <2>2, <2>3 DEF ChainInv
<1>4. ASSUME NEW s \in Subscribers, unregister_my_notifier(s) PROVE ChainInv'
  <2>1. PICK i \in 1 .. Len(chain) : chain[i] = s /\ chain' = Without(i)
    BY <1>4 DEF unregister_my_notifier
  <2>2. \A r \in Subscribers : subscriber'[r] = IF r = s THEN "out" ELSE subscriber[r]
    BY <1>4 DEF unregister_my_notifier, Subscriber
  <2>3. /\ Registered' = Registered \ {s}
        /\ \A j, k \in 1 .. Len(chain') : chain'[j] = chain'[k] => j = k
    BY <2>1, CutChain
  <2> QED BY <2>2, <2>3 DEF ChainInv
<1>5. ASSUME NEW w \in Writers, write_proc(w) \/ Write(w) PROVE ChainInv'
  BY <1>0, <1>5 DEF write_proc, Write, blocking_notifier_call_chain, down_read, my_notify_sys,
                    up_read, kfree_message
<1>6. CASE UNCHANGED notifierVars
  BY <1>0, <1>6 DEF notifierVars
<1> QED BY <1>1, <1>2, <1>3, <1>4, <1>5, <1>6 DEF NotifierNext, ChainLock
\* A step that leaves the chain and a write alone keeps what the invariant says of
\* that write.
LEMMA OtherWrites ==
  ASSUME NotifierInv, NEW v \in Writers,
         UNCHANGED <<publisher, chain>>,
         writer'[v] = writer[v], next'[v] = next[v], got'[v] = got[v], due'[v] = due[v],
         v \in message => v \in message'
  PROVE  /\ writer'[v] # "idle" => publisher' # "out" /\ v \in message'
         /\ writer'[v] \in {"idle", "call", "lock"} => next'[v] = 1 /\ got'[v] = {}
         /\ writer'[v] = "walk" => next'[v] \in 1 .. Len(chain') + 1
         /\ writer'[v] = "walk" => got'[v] = {chain'[i] : i \in 1 .. next'[v] - 1}
         /\ writer'[v] \in {"call", "lock", "walk"} => due'[v] \subseteq Registered'
         /\ writer'[v] = "free" => due'[v] \subseteq got'[v]
<1>1. Registered' = Registered
  BY DEF Registered
<1> QED BY <1>1 DEF NotifierInv, WriteInv

LEMMA WriteStep ==
  ASSUME NotifierInv, [NotifierNext]_notifierVars
  PROVE  WriteInv'
<1> USE DEF NotifierType, NotifierInv
<1>1. CASE publisher_init \/ publisher_exit \/ remove_proc_entry
  BY <1>1 DEF publisher_init, publisher_exit, remove_proc_entry, WriteInv, Registered
<1>2. ASSUME NEW s \in Subscribers, subscriber_init(s) \/ subscriber_exit(s) PROVE WriteInv'
  <2> SUFFICES ASSUME NEW v \in Writers PROVE WriteInv!(v)'
    BY DEF WriteInv
  <2> QED BY <1>2, OtherWrites DEF subscriber_init, subscriber_exit
<1>3. ASSUME NEW s \in Subscribers, register_my_notifier(s) PROVE WriteInv'
  <2>1. \A w \in Writers : writer[w] # "walk"
    BY <1>3 DEF register_my_notifier, Walking
  <2>2. s \notin Registered /\ chain' = Append(chain, s)
    BY <1>3 DEF register_my_notifier, Subscriber, ChainInv
  <2>3. Registered' = Registered \cup {s}
    BY <2>2, AppendChain
  <2> QED BY <2>1, <2>3, <1>3 DEF register_my_notifier, WriteInv
<1>4. ASSUME NEW s \in Subscribers, unregister_my_notifier(s) PROVE WriteInv'
  <2>1. \A w \in Writers : writer[w] # "walk"
    BY <1>4 DEF unregister_my_notifier, Walking
  <2>2. PICK i \in 1 .. Len(chain) : chain[i] = s /\ chain' = Without(i)
    BY <1>4 DEF unregister_my_notifier
  <2>3. Registered' = Registered \ {s}
    BY <2>2, CutChain
  <2>4. \A w \in Writers : due'[w] = due[w] \ {s}
    BY <1>4 DEF unregister_my_notifier
  <2> QED BY <2>1, <2>3, <2>4, <1>4 DEF unregister_my_notifier, WriteInv
<1>5. ASSUME NEW w \in Writers, write_proc(w) PROVE WriteInv'
  <2> SUFFICES ASSUME NEW v \in Writers PROVE WriteInv!(v)'
    BY DEF WriteInv
  <2>1. CASE v # w
    BY <2>1, <1>5, OtherWrites DEF write_proc, Writer
  <2>2. CASE v = w
    BY <2>2, <1>5 DEF write_proc, Writer, WriteInv, Registered
  <2> QED BY <2>1, <2>2
<1>6. ASSUME NEW w \in Writers, blocking_notifier_call_chain(w) PROVE WriteInv'
  <2> SUFFICES ASSUME NEW v \in Writers PROVE WriteInv!(v)'
    BY DEF WriteInv
  <2>1. CASE v # w
    BY <2>1, <1>6, OtherWrites DEF blocking_notifier_call_chain, Writer
  <2>2. CASE v = w
    <3>1. chain = <<>> => Registered = {}
      BY EmptySeq DEF Registered
    <3> QED BY <3>1, <2>2, <1>6 DEF blocking_notifier_call_chain, Writer, WriteInv, Registered
  <2> QED BY <2>1, <2>2
<1>7. ASSUME NEW w \in Writers, down_read(w) PROVE WriteInv'
  <2> SUFFICES ASSUME NEW v \in Writers PROVE WriteInv!(v)'
    BY DEF WriteInv
  <2>1. CASE v # w
    BY <2>1, <1>7, OtherWrites DEF down_read, Writer
  <2>2. CASE v = w
    BY <2>2, <1>7, LenProperties DEF down_read, Writer, WriteInv, Registered
  <2> QED BY <2>1, <2>2
<1>8. ASSUME NEW w \in Writers, my_notify_sys(w) PROVE WriteInv'
  <2> SUFFICES ASSUME NEW v \in Writers PROVE WriteInv!(v)'
    BY DEF WriteInv
  <2>1. CASE v # w
    BY <2>1, <1>8, OtherWrites DEF my_notify_sys
  <2>2. CASE v = w
    <3>1. Len(chain) \in Nat /\ next[w] \in 1 .. Len(chain) /\ next'[w] = next[w] + 1
      BY <1>8, LenProperties DEF my_notify_sys, WriteInv
    <3>2. got'[w] = got[w] \cup {chain[next[w]]} /\ chain' = chain
      BY <1>8 DEF my_notify_sys
    <3>3. got'[w] = {chain'[i] : i \in 1 .. next'[w] - 1}
      BY <3>1, <3>2, <1>8 DEF my_notify_sys, WriteInv
    <3> QED BY <3>1, <3>3, <2>2, <1>8, SMTT(20) DEF my_notify_sys, WriteInv, Registered
  <2> QED BY <2>1, <2>2
<1>9. ASSUME NEW w \in Writers, up_read(w) PROVE WriteInv'
  <2> SUFFICES ASSUME NEW v \in Writers PROVE WriteInv!(v)'
    BY DEF WriteInv
  <2>1. CASE v # w
    BY <2>1, <1>9, OtherWrites DEF up_read, Writer
  <2>2. CASE v = w
    <3>1. Len(chain) \in Nat /\ next[w] = Len(chain) + 1
      <4>1. Len(chain) \in Nat
        BY LenProperties
      <4>2. next[w] \in 1 .. Len(chain) + 1 /\ next[w] > Len(chain)
        BY <1>9 DEF up_read, Writer, WriteInv
      <4> QED BY <4>1, <4>2
    <3>2. got[w] = Registered
      BY <3>1, <1>9 DEF up_read, Writer, WriteInv, Registered
    <3> QED BY <3>2, <2>2, <1>9 DEF up_read, Writer, WriteInv
  <2> QED BY <2>1, <2>2
<1>10. ASSUME NEW w \in Writers, kfree_message(w) PROVE WriteInv'
  <2> SUFFICES ASSUME NEW v \in Writers PROVE WriteInv!(v)'
    BY DEF WriteInv
  <2>1. CASE v # w
    BY <2>1, <1>10, OtherWrites DEF kfree_message, Writer
  <2>2. CASE v = w
    BY <2>2, <1>10 DEF kfree_message, Writer, WriteInv
  <2> QED BY <2>1, <2>2
<1>11. CASE UNCHANGED notifierVars
  BY <1>11 DEF notifierVars, WriteInv, Registered
<1> QED BY <1>1, <1>2, <1>3, <1>4, <1>5, <1>6, <1>7, <1>8, <1>9, <1>10, <1>11
        DEF NotifierNext, ChainLock, Write

\* Every step of the publisher, the subscribers and the writers keeps the invariant:
\* what is on the chain is loaded, and a walk calls each of its entries in turn.
THEOREM NotifierInvariant == NotifierSpec => []NotifierInv
<1>1. NotifierInv /\ [NotifierNext]_notifierVars => NotifierInv'
  BY NotifierTypeStep, ChainStep, WriteStep DEF NotifierInv
<1> QED BY NotifierInitInv, <1>1, PTL DEF NotifierSpec

\* For any subscribers and writers: a write calls only into modules that are
\* loaded, with its message allocated.
THEOREM NoCallIntoUnloaded == NotifierSpec => []CallsLoaded
<1>1. NotifierInv => CallsLoaded
  <2> SUFFICES ASSUME NotifierInv PROVE CallsLoaded
    OBVIOUS
  <2>1. Registered \subseteq Subscribers
    BY ElementOfSeq DEF Registered, NotifierInv, NotifierType
  <2> QED BY <2>1 DEF NotifierInv, ChainInv, WriteInv, CallsLoaded
<1> QED BY <1>1, NotifierInvariant, PTL

\* For any subscribers and writers: a write calls every subscriber that is
\* registered throughout, and none twice.
THEOREM EveryoneCalledOnce == NotifierSpec => []EachOnce
<1>1. NotifierInv => EachOnce
  <2> SUFFICES ASSUME NotifierInv, NEW w \in Writers, writer[w] = "walk", next[w] <= Len(chain)
               PROVE  chain[next[w]] \notin got[w]
    BY DEF NotifierInv, WriteInv, EachOnce
  <2>1. Len(chain) \in Nat /\ next[w] \in 1 .. Len(chain)
    BY LenProperties DEF NotifierInv, NotifierType, WriteInv
  <2>2. \A i \in 1 .. next[w] - 1 : i \in 1 .. Len(chain) /\ i # next[w]
    BY <2>1
  <2> QED BY <2>1, <2>2 DEF NotifierInv, WriteInv, ChainInv
<1> QED BY <1>1, NotifierInvariant, PTL
-------------------------------------------------------------------------------
(* netlink *)

\* Whoever has bound the port has it until it closes its socket, and only then
\* sends; so the port is the sender's own when its answer is sent.
NetlinkInv ==
  /\ user \in [Users -> {"idle", "bind", "send", "rcv_msg", "recv", "close"}]
  /\ port \subseteq Users /\ inbox \in [Users -> SUBSET Users] /\ lost \subseteq Users
  /\ \A u, v \in port : u = v
  /\ \A u \in Users :
       /\ user[u] \in {"send", "rcv_msg", "recv"} => u \in port
       /\ u \in port => user[u] \notin {"idle", "bind"}
       /\ user[u] \in {"idle", "bind", "send", "rcv_msg"} => inbox[u] = {} /\ u \notin lost
       /\ inbox[u] \subseteq {u}
       /\ user[u] = "recv" => (inbox[u] = {} <=> u \in lost)

LEMMA NetlinkStep ==
  ASSUME NetlinkInv, [NetlinkNext]_netlinkVars
  PROVE  NetlinkInv'
<1>1. CASE test_netlink_init \/ test_netlink_exit
  BY <1>1 DEF test_netlink_init, test_netlink_exit, NetlinkInv
<1>2. ASSUME NEW u \in Users, socket(u) PROVE NetlinkInv'
  BY <1>2 DEF socket, User, NetlinkInv
<1>3. ASSUME NEW u \in Users, bind(u) PROVE NetlinkInv'
  <2>1. CASE port = {}
    BY <2>1, <1>3 DEF bind, User, NetlinkInv
  <2>2. CASE port # {}
    BY <2>2, <1>3 DEF bind, User, NetlinkInv
  <2> QED BY <2>1, <2>2
<1>4. ASSUME NEW u \in Users, sendto(u) PROVE NetlinkInv'
  BY <1>4 DEF sendto, User, NetlinkInv
<1>5. ASSUME NEW u \in Users, rcv_msg(u) PROVE NetlinkInv'
  <2>1. port = {u} /\ inbox[u] = {} /\ u \notin lost
    BY <1>5 DEF rcv_msg, User, NetlinkInv
  <2>2. \/ inbox' = [inbox EXCEPT ![u] = @ \cup {u}] /\ lost' = lost
        \/ lost' = lost \cup {u} /\ inbox' = inbox
    BY <2>1, <1>5 DEF rcv_msg, send_msg
  <2> QED BY <2>1, <2>2, <1>5 DEF rcv_msg, User, NetlinkInv
<1>6. ASSUME NEW u \in Users, recvfrom(u) \/ interrupt(u) PROVE NetlinkInv'
  BY <1>6 DEF recvfrom, interrupt, User, NetlinkInv
<1>7. ASSUME NEW u \in Users, close(u) PROVE NetlinkInv'
  BY <1>7 DEF close, User, NetlinkInv
<1>8. CASE UNCHANGED netlinkVars
  BY <1>8 DEF netlinkVars, NetlinkInv
<1> QED BY <1>1, <1>2, <1>3, <1>4, <1>5, <1>6, <1>7, <1>8 DEF NetlinkNext, UserStep

\* For any number of users of user.c: an answer is at the socket of the one who
\* asked, unless it or the request was lost.
THEOREM AnswersNeverMix == NetlinkSpec => []OwnAnswer
<1>1. NetlinkInit => NetlinkInv
  BY DEF NetlinkInit, NetlinkInv
<1>2. NetlinkInv => OwnAnswer
  BY DEF NetlinkInv, OwnAnswer
<1> QED BY <1>1, <1>2, NetlinkStep, PTL DEF NetlinkSpec
===============================================================================
