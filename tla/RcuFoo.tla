--------------------------------- MODULE RcuFoo ---------------------------------
(***************************************************************************)
(* RCU/simple.c: a pointer and a one-element list, each with a reader      *)
(* thread and an updater thread.  The pointer's updater hands the old      *)
(* object to call_rcu, the list's waits in synchronize_rcu and frees it.   *)
(*                                                                         *)
(* Grace periods are the kernel's and modelled as external: a callback     *)
(* runs, and synchronize_rcu returns, once every read-side section that    *)
(* was open at the call has closed.                                        *)
(*                                                                         *)
(* Two orders rest on msleep alone and are assumed: rcu_test_init sets     *)
(* g_pfoo and the list up before a thread that it started is through its   *)
(* first msleep, and the module is unloaded when its threads have returned *)
(* and its callbacks have run.                                             *)
(*                                                                         *)
(* Every allocation is an object of its own: memory that kzalloc hands out *)
(* again is another object, so a use after kfree is never hidden by reuse. *)
(***************************************************************************)
EXTENDS Naturals, FiniteSets

CONSTANTS
  NULL,
  Rounds      \* cnt of every thread

VARIABLES
  mod,        \* "absent", "starting", "list", "loaded", "exiting"
  heap,       \* the objects that are allocated
  a,          \* field a of each object
  g_pfoo,     \* the pointer
  g_rcu_list, \* the first element of the list, or NULL
  pc,         \* where each thread is
  cnt,        \* the rounds each has left
  p,          \* rcu_reader's p, rcu_updater's old, rcu_reader_list's and rcu_updater_list's p
  new,        \* rcu_updater's new, rcu_updater_list's q
  reading,    \* the threads inside rcu_read_lock ... rcu_read_unlock
  callbacks,  \* the objects handed to call_rcu, each with the sections it waits for
  sync,       \* the sections that synchronize_rcu waits for
  seen        \* the last value each reader printed

vars == <<mod, heap, a, g_pfoo, g_rcu_list, pc, cnt, p, new, reading, callbacks, sync, seen>>

Readers == {"rcu_reader", "rcu_reader_list"}
Updaters == {"rcu_updater", "rcu_updater_list"}
Threads == Readers \cup Updaters

\* The object that rcu_test_init (0) or the n-th round of an updater allocates.
Obj(t, n) == <<t, n>>
Objs == {Obj(t, n) : t \in Updaters, n \in 0 .. Rounds}

ASSUME RcuAssumption == Rounds \in Nat \ {0} /\ NULL \notin Objs

Place == {"none", "sleep", "lock", "deref", "print", "unlock",
          "alloc", "copy", "retire", "free", "done"}

Init ==
  /\ mod = "absent"
  /\ heap = {}
  /\ a = [o \in Objs |-> 0]
  /\ g_pfoo = NULL /\ g_rcu_list = NULL
  /\ pc = [t \in Threads |-> "none"]
  /\ cnt = [t \in Threads |-> Rounds]
  /\ p = [t \in Threads |-> NULL]
  /\ new = [t \in Updaters |-> NULL]
  /\ reading = {} /\ callbacks = {} /\ sync = {}
  /\ seen = [t \in Readers |-> 0]

Goto(t, place) == pc' = [pc EXCEPT ![t] = place]

\* The end of a round: the thread sleeps again, or returns after the last one.
Again(t, first) ==
  /\ cnt' = [cnt EXCEPT ![t] = cnt[t] - 1]
  /\ Goto(t, IF cnt[t] = 1 THEN "done" ELSE first)
-------------------------------------------------------------------------------
(* rcu_test_init and rcu_test_exit *)

Started == <<"rcu_reader", "rcu_updater", "rcu_reader_list", "rcu_updater_list">>

kthread_run(k) ==
  LET t == Started[k] IN
  /\ mod \in {"absent", "starting"} /\ pc[t] = "none"
  /\ \A j \in 1 .. k - 1 : pc[Started[j]] # "none"
  /\ mod' = "starting"
  /\ Goto(t, IF t = "rcu_updater" THEN "alloc" ELSE "sleep")
  /\ UNCHANGED <<heap, a, g_pfoo, g_rcu_list, cnt, p, new, reading, callbacks, sync, seen>>

init_pfoo ==
  /\ mod = "starting" /\ \A t \in Threads : pc[t] # "none"
  /\ g_pfoo' = Obj("rcu_updater", 0)
  /\ heap' = heap \cup {Obj("rcu_updater", 0)}
  /\ mod' = "list"
  /\ UNCHANGED <<a, g_rcu_list, pc, cnt, p, new, reading, callbacks, sync, seen>>

init_list ==
  /\ mod = "list"
  /\ g_rcu_list' = Obj("rcu_updater_list", 0)
  /\ heap' = heap \cup {Obj("rcu_updater_list", 0)}
  /\ mod' = "loaded"
  /\ UNCHANGED <<a, g_pfoo, pc, cnt, p, new, reading, callbacks, sync, seen>>

Idle == callbacks = {} /\ \A t \in Threads : pc[t] = "done"

exit_pfoo ==
  /\ mod = "loaded" /\ Idle
  /\ heap' = heap \ {g_pfoo}
  /\ mod' = "exiting"
  /\ UNCHANGED <<a, g_pfoo, g_rcu_list, pc, cnt, p, new, reading, callbacks, sync, seen>>

exit_list ==
  /\ mod = "exiting"
  /\ heap' = heap \ {g_rcu_list}
  /\ mod' = "absent"
  /\ UNCHANGED <<a, g_pfoo, g_rcu_list, pc, cnt, p, new, reading, callbacks, sync, seen>>
-------------------------------------------------------------------------------
(* rcu_reader and rcu_reader_list *)

Shared(t) == IF t \in {"rcu_reader", "rcu_updater"} THEN g_pfoo ELSE g_rcu_list

msleep(t, next) ==
  /\ pc[t] = "sleep" /\ mod = "loaded"
  /\ Goto(t, next)
  /\ UNCHANGED <<mod, heap, a, g_pfoo, g_rcu_list, cnt, p, new, reading, callbacks, sync, seen>>

rcu_read_lock(t) ==
  /\ pc[t] = "lock"
  /\ reading' = reading \cup {t}
  /\ Goto(t, "deref")
  /\ UNCHANGED <<mod, heap, a, g_pfoo, g_rcu_list, cnt, p, new, callbacks, sync, seen>>

rcu_dereference(t) ==
  /\ pc[t] = "deref"
  /\ p' = [p EXCEPT ![t] = Shared(t)]
  /\ Goto(t, "print")
  /\ UNCHANGED <<mod, heap, a, g_pfoo, g_rcu_list, cnt, new, reading, callbacks, sync, seen>>

print(t) ==
  /\ pc[t] = "print"
  /\ seen' = [seen EXCEPT ![t] = a[p[t]]]
  /\ Goto(t, "unlock")
  /\ UNCHANGED <<mod, heap, a, g_pfoo, g_rcu_list, cnt, p, new, reading, callbacks, sync>>

return_in_section(t) ==
  /\ pc[t] = "unlock"
  /\ Again(t, "sleep")
  /\ UNCHANGED <<mod, heap, a, g_pfoo, g_rcu_list, p, new, reading, callbacks, sync, seen>>
rcu_read_unlock(t) ==
  /\ pc[t] = "unlock"
  /\ reading' = reading \ {t}
  /\ callbacks' = {[obj |-> c.obj, waits |-> c.waits \ {t}] : c \in callbacks}
  /\ sync' = sync \ {t}
  /\ Again(t, "sleep")
  /\ UNCHANGED <<mod, heap, a, g_pfoo, g_rcu_list, p, new, seen>>
-------------------------------------------------------------------------------
(* rcu_updater and rcu_updater_list *)

\* rcu_updater allocates before it sleeps, rcu_updater_list after.
kzalloc(t, next) ==
  /\ pc[t] = "alloc"
  /\ new' = [new EXCEPT ![t] = Obj(t, Rounds + 1 - cnt[t])]
  /\ heap' = heap \cup {new'[t]}
  /\ p' = [p EXCEPT ![t] = IF t = "rcu_updater_list" THEN g_rcu_list ELSE NULL]
  /\ Goto(t, next)
  /\ UNCHANGED <<mod, a, g_pfoo, g_rcu_list, cnt, reading, callbacks, sync, seen>>

version(t) == Rounds + 1 - cnt[t]

\* The new version, then the pointer to it; nobody can see it in between.
publish_pfoo ==
  LET t == "rcu_updater" IN
  /\ pc[t] = "copy"
  /\ p' = [p EXCEPT ![t] = g_pfoo]
  /\ a' = [a EXCEPT ![new[t]] = version(t)]
  /\ g_pfoo' = new[t]
  /\ Goto(t, "retire")
  /\ UNCHANGED <<mod, heap, g_rcu_list, cnt, new, reading, callbacks, sync, seen>>

retire_new ==
  LET t == "rcu_updater" IN
  /\ pc[t] = "retire"
  /\ callbacks' = callbacks \cup {[obj |-> new[t], waits |-> reading]}
  /\ Again(t, "alloc")
  /\ UNCHANGED <<mod, heap, a, g_pfoo, g_rcu_list, p, new, reading, sync, seen>>
never_reclaimed ==
  LET t == "rcu_updater" IN
  /\ pc[t] = "retire"
  /\ Again(t, "alloc")
  /\ UNCHANGED <<mod, heap, a, g_pfoo, g_rcu_list, p, new, reading, callbacks, sync, seen>>
call_rcu ==
  LET t == "rcu_updater" IN
  /\ pc[t] = "retire"
  /\ callbacks' = callbacks \cup {[obj |-> p[t], waits |-> reading]}
  /\ Again(t, "alloc")
  /\ UNCHANGED <<mod, heap, a, g_pfoo, g_rcu_list, p, new, reading, sync, seen>>

rcu_reclaimer(c) ==
  /\ c.waits = {}
  /\ heap' = heap \ {c.obj}
  /\ callbacks' = callbacks \ {c}
  /\ UNCHANGED <<mod, a, g_pfoo, g_rcu_list, pc, cnt, p, new, reading, sync, seen>>

list_replace_rcu ==
  LET t == "rcu_updater_list" IN
  /\ pc[t] = "copy"
  /\ a' = [a EXCEPT ![new[t]] = version(t)]
  /\ g_rcu_list' = new[t]
  /\ Goto(t, "retire")
  /\ UNCHANGED <<mod, heap, g_pfoo, cnt, p, new, reading, callbacks, sync, seen>>

free_without_grace ==
  LET t == "rcu_updater_list" IN
  /\ pc[t] = "retire"
  /\ Goto(t, "free")
  /\ UNCHANGED <<mod, heap, a, g_pfoo, g_rcu_list, cnt, p, new, reading, callbacks, sync, seen>>
synchronize_rcu ==
  LET t == "rcu_updater_list" IN
  /\ pc[t] = "retire"
  /\ sync' = reading
  /\ Goto(t, "free")
  /\ UNCHANGED <<mod, heap, a, g_pfoo, g_rcu_list, cnt, p, new, reading, callbacks, seen>>

kfree ==
  LET t == "rcu_updater_list" IN
  /\ pc[t] = "free" /\ sync = {}
  /\ heap' = heap \ {p[t]}
  /\ Again(t, "sleep")
  /\ UNCHANGED <<mod, a, g_pfoo, g_rcu_list, p, new, reading, callbacks, sync, seen>>
-------------------------------------------------------------------------------
Reader(t) ==
  \/ msleep(t, "lock") \/ rcu_read_lock(t) \/ rcu_dereference(t)
  \/ print(t) \/ rcu_read_unlock(t)

Updater ==
  \/ kzalloc("rcu_updater", "sleep") \/ msleep("rcu_updater", "copy")
  \/ publish_pfoo \/ call_rcu

UpdaterList ==
  \/ msleep("rcu_updater_list", "alloc") \/ kzalloc("rcu_updater_list", "copy")
  \/ list_replace_rcu \/ synchronize_rcu \/ kfree

Reclaimer == \E c \in callbacks : rcu_reclaimer(c)

InitExit == init_pfoo \/ init_list \/ exit_pfoo \/ exit_list \/ \E k \in 1 .. 4 : kthread_run(k)

Next == InitExit \/ Updater \/ UpdaterList \/ Reclaimer \/ \E t \in Readers : Reader(t)

Spec == Init /\ [][Next]_vars

\* Threads run, and callbacks whose grace period is over are called.
FairSpec ==
  /\ Spec
  /\ WF_vars(InitExit) /\ WF_vars(Updater) /\ WF_vars(UpdaterList) /\ WF_vars(Reclaimer)
  /\ \A t \in Readers : WF_vars(Reader(t))
-------------------------------------------------------------------------------
TypeOK ==
  /\ mod \in {"absent", "starting", "list", "loaded", "exiting"}
  /\ heap \subseteq Objs
  /\ a \in [Objs -> 0 .. Rounds]
  /\ {g_pfoo, g_rcu_list} \subseteq Objs \cup {NULL}
  /\ pc \in [Threads -> Place]
  /\ cnt \in [Threads -> 0 .. Rounds]
  /\ p \in [Threads -> Objs \cup {NULL}]
  /\ new \in [Updaters -> Objs \cup {NULL}]
  /\ reading \subseteq Readers
  /\ callbacks \subseteq [obj : Objs, waits : SUBSET Readers]
  /\ sync \subseteq Readers
  /\ seen \in [Readers -> 0 .. Rounds]

\* No thread dereferences memory that was freed: not a reader between
\* rcu_dereference and rcu_read_unlock, not an updater that copies the old version.
\* And no reader prints an older version than the one it printed before.
ReadsSafe ==
  /\ \A t \in Readers : pc[t] \in {"print", "unlock"} => p[t] \in heap
  /\ \A t \in Readers : pc[t] = "print" => seen[t] <= a[p[t]]
  /\ \A t \in Updaters : pc[t] = "copy" => Shared(t) \in heap /\ new[t] \in heap

\* An object waiting for its grace period is still allocated, is no longer
\* published and waits once: it is freed exactly once.
RetiredOnce ==
  /\ \A c, d \in callbacks : c.obj = d.obj => c = d
  /\ \A c \in callbacks : c.obj \in heap \ {g_pfoo, g_rcu_list}
  /\ pc["rcu_updater_list"] \in {"retire", "free"} =>
       p["rcu_updater_list"] \in heap \ {g_pfoo, g_rcu_list}

\* When the threads have returned and the callbacks have run, the two published
\* objects are all that is left, and rcu_test_exit frees them.
NoLeak ==
  Idle => heap = CASE mod = "loaded" -> {g_pfoo, g_rcu_list}
                   [] mod = "exiting" -> {g_rcu_list}
                   [] OTHER -> {}

\* Every thread returns, so synchronize_rcu does too, and what was retired is
\* reclaimed.
Finishes == <>[]Idle
===============================================================================
