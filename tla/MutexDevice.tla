------------------------------ MODULE MutexDevice ------------------------------
(***************************************************************************)
(* The character device of mutex/: one buffer behind one mutex, whose      *)
(* read_file and write_file copy it cell by cell, the module's my_init and *)
(* my_exit around them, and the threads of poc.c as its callers.           *)
(*                                                                         *)
(* The file position is left out: the handlers advance it and none of them *)
(* reads it.  The callers' buffers are mapped, so no copy faults.          *)
(***************************************************************************)
EXTENDS Naturals

CONSTANTS
  Threads,    \* the callers
  NoThread,   \* the owner of a free mutex
  Values,     \* what a caller fills its buffer with before a write
  BuffSize,   \* cells of mutex_buf.buff
  Sizes,      \* the lengths the callers pass, none beyond the buffer
  Erased      \* a zero byte

ASSUME DeviceAssumption ==
  /\ NoThread \notin Threads
  /\ Erased \notin Values
  /\ BuffSize \in Nat \ {0}
  /\ Sizes \subseteq 1 .. BuffSize

VARIABLES
  mod,        \* how far my_init has come: a Stage
  mutex,      \* mutex_buf.mutex: its owner
  buff,       \* mutex_buf.buff
  pc,         \* where each thread is: a Place
  ubuf,       \* each thread's own buffer
  size,       \* the size argument of its call
  pos         \* how many cells its copy has moved

vars == <<mod, mutex, buff, pc, ubuf, size, pos>>

Cell == 0 .. BuffSize - 1
Stage == {"unloaded", "region", "cdev", "locked", "ready"}
Reading == {"read_copy", "read_unlock"}
Writing == {"write_copy", "write_unlock"}
Place == {"closed", "idle", "read_lock", "write_lock"} \cup Reading \cup Writing

Filled(v) == [c \in Cell |-> v]

Init ==
  /\ mod = "unloaded"
  /\ mutex = NoThread
  /\ buff = Filled(Erased)
  /\ pc = [t \in Threads |-> "closed"]
  /\ ubuf = [t \in Threads |-> Filled(Erased)]
  /\ size = [t \in Threads |-> 0]
  /\ pos = [t \in Threads |-> 0]
-------------------------------------------------------------------------------
(* my_init and my_exit *)

Goto(t, place) == pc' = [pc EXCEPT ![t] = place]

\* A failing alloc_chrdev_region leaves nothing behind: the step is not taken.
alloc_chrdev_region ==
  /\ mod = "unloaded"
  /\ mod' = "region"
  /\ UNCHANGED <<mutex, buff, pc, ubuf, size, pos>>

cdev_add ==
  /\ mod = "region"
  /\ mod' = "cdev"
  /\ UNCHANGED <<mutex, buff, pc, ubuf, size, pos>>

mutex_init ==
  /\ mod = "cdev"
  /\ mod' = "locked"
  /\ mutex' = NoThread
  /\ UNCHANGED <<buff, pc, ubuf, size, pos>>

device_create ==
  /\ mod = "locked"
  /\ mod' = "ready"
  /\ UNCHANGED <<mutex, buff, pc, ubuf, size, pos>>

\* The node /dev/my_dev, which device_create publishes.
Node == mod = "ready"

\* file_ops.owner pins the module while a file is open.  The image of a module
\* loaded again is a fresh one.
my_exit ==
  /\ mod = "ready"
  /\ \A t \in Threads : pc[t] = "closed"
  /\ mod' = "unloaded"
  /\ mutex' = NoThread
  /\ buff' = Filled(Erased)
  /\ UNCHANGED <<pc, ubuf, size, pos>>
-------------------------------------------------------------------------------
(* The file operations *)

open_file(t) ==
  /\ pc[t] = "closed" /\ Node
  /\ Goto(t, "idle")
  /\ UNCHANGED <<mod, mutex, buff, ubuf, size, pos>>

close_file(t) ==
  /\ pc[t] = "idle"
  /\ Goto(t, "closed")
  /\ UNCHANGED <<mod, mutex, buff, ubuf, size, pos>>

read_file(t, n) ==
  /\ pc[t] = "idle"
  /\ Goto(t, "read_lock")
  /\ size' = [size EXCEPT ![t] = n]
  /\ pos' = [pos EXCEPT ![t] = 0]
  /\ UNCHANGED <<mod, mutex, buff, ubuf>>

write_file(t, v, n) ==
  /\ pc[t] = "idle"
  /\ Goto(t, "write_lock")
  /\ ubuf' = [ubuf EXCEPT ![t] = Filled(v)]
  /\ size' = [size EXCEPT ![t] = n]
  /\ pos' = [pos EXCEPT ![t] = 0]
  /\ UNCHANGED <<mod, mutex, buff>>

Lock(t, from, to) ==
  /\ pc[t] = from /\ mutex = NoThread
  /\ mutex' = t
  /\ Goto(t, to)
  /\ UNCHANGED <<mod, buff, ubuf, size, pos>>

Unlock(t, from) ==
  /\ pc[t] = from
  /\ mutex' = NoThread
  /\ Goto(t, "idle")
  /\ UNCHANGED <<mod, buff, ubuf, size, pos>>

\* A copy moves its cells in order and falls through after the last one.
Advance(t, from, to) ==
  /\ pc[t] = from
  /\ pos' = [pos EXCEPT ![t] = pos[t] + 1]
  /\ Goto(t, IF pos[t] + 1 = size[t] THEN to ELSE from)

read_lock(t) == Lock(t, "read_lock", "read_copy")

copy_to_user(t) ==
  /\ Advance(t, "read_copy", "read_unlock")
  /\ ubuf' = [ubuf EXCEPT ![t] = [@ EXCEPT ![pos[t]] = buff[pos[t]]]]
  /\ UNCHANGED <<mod, mutex, buff, size>>

read_unlock(t) == Unlock(t, "read_unlock")

write_unlocked(t) ==
  /\ pc[t] = "write_lock"
  /\ Goto(t, "write_copy")
  /\ UNCHANGED <<mod, mutex, buff, ubuf, size, pos>>
write_lock(t) == Lock(t, "write_lock", "write_copy")

copy_from_user(t) ==
  /\ Advance(t, "write_copy", "write_unlock")
  /\ buff' = [buff EXCEPT ![pos[t]] = ubuf[t][pos[t]]]
  /\ UNCHANGED <<mod, mutex, ubuf, size>>

write_returns_locked(t) ==
  /\ pc[t] = "write_unlock"
  /\ Goto(t, "idle")
  /\ UNCHANGED <<mod, mutex, buff, ubuf, size, pos>>
write_unlock(t) == Unlock(t, "write_unlock")
-------------------------------------------------------------------------------
Module == alloc_chrdev_region \/ cdev_add \/ mutex_init \/ device_create \/ my_exit

Call(t) ==
  \/ open_file(t) \/ close_file(t)
  \/ \E n \in Sizes : read_file(t, n) \/ \E v \in Values : write_file(t, v, n)

Step(t) ==
  \/ read_lock(t) \/ copy_to_user(t) \/ read_unlock(t)
  \/ write_lock(t) \/ copy_from_user(t) \/ write_unlock(t)

Next == Module \/ \E t \in Threads : Call(t) \/ Step(t)

Spec == Init /\ [][Next]_vars

\* A runnable thread runs, and a mutex hands over to its waiters in turn.
FairSpec == Spec /\ \A t \in Threads : SF_vars(Step(t))
-------------------------------------------------------------------------------
TypeOK ==
  /\ mod \in Stage
  /\ mutex \in Threads \cup {NoThread}
  /\ buff \in [Cell -> Values \cup {Erased}]
  /\ pc \in [Threads -> Place]
  /\ ubuf \in [Threads -> [Cell -> Values \cup {Erased}]]
  /\ size \in [Threads -> {0} \cup Sizes]
  /\ pos \in [Threads -> 0 .. BuffSize]

\* A thread is between mutex_lock and mutex_unlock exactly when it owns the
\* mutex, so two copies never overlap, whatever my_init did before them.
OwnerCopies ==
  \A t \in Threads : pc[t] \in Reading \cup Writing <=> mutex = t

\* poc.c: with the mutex a read is "all 2 or all 3" (or, before the first
\* write, all zero).  The callers of poc.c always pass the whole buffer.
Uniform(b) == \A c, d \in Cell : b[c] = b[d]
WholeReads == \A t \in Threads : pc[t] \notin Reading => Uniform(ubuf[t])

\* The device is an atomic buffer: a call takes effect at the instant it gets
\* the mutex, for any lengths, so that no caller ever sees half a write.
Overlay(onto, from, n) == [c \in Cell |-> IF c < n THEN from[c] ELSE onto[c]]

CellsAtLock ==
  IF mutex # NoThread /\ pc[mutex] \in Writing
  THEN Overlay(buff, ubuf[mutex], size[mutex])
  ELSE buff

UserAtLock ==
  [t \in Threads |-> IF pc[t] \in Reading THEN Overlay(ubuf[t], buff, size[t])
                                          ELSE ubuf[t]]

PendingAtLock ==
  [t \in Threads |-> CASE pc[t] \in {"closed", "idle"} -> "none"
                       [] pc[t] = "read_lock" -> "read"
                       [] pc[t] = "write_lock" -> "write"
                       [] OTHER -> "done"]

Abstract == INSTANCE AtomicBuffer
  WITH cells <- CellsAtLock, user <- UserAtLock,
       pending <- PendingAtLock, length <- size

AtomicDevice == Abstract!Spec

\* Every call of read_file and write_file returns.
CallsReturn == \A t \in Threads : pc[t] \notin {"closed", "idle"} ~> pc[t] = "idle"
===============================================================================
