--------------------------- MODULE FtraceBlockProofs --------------------------
(***************************************************************************)
(* What two modules hold while they come, fail halfway and go, and other   *)
(* tasks are at work in them: the hooks of ftrace/, for an array of any    *)
(* length and any tasks; and the memory disk of block_device/simple.c, for *)
(* any capacity, any number of tags and any requests, which also move      *)
(* their data.                                                             *)
(***************************************************************************)
EXTENDS FtraceHook, BlockDevice, TLAPS

Installing == {"resolve", "filter", "register", "unfilter_failed"}
Removing == {"undo", "undo_filter", "exit", "exit_filter"}

\* How far the loader has come says which ops are registered: an installation
\* has registered the hooks below i, a rollback has those up to i left, a
\* removal those from i on.
Progress(h) ==
  \/ at \in Installing \cup {"undo_filter"} /\ h < i
  \/ at = "undo" /\ h <= i
  \/ at = "exit" /\ h >= i
  \/ at = "exit_filter" /\ h > i
  \/ at = "live"

\* The hook whose filter is set while its ops are not registered.
HalfDone == at \in {"register", "unfilter_failed", "undo_filter", "exit_filter"}

LoaderInv ==
  /\ at \in Installing \cup Removing => i \in Hooks
  /\ \A h \in Hooks : h \in registered <=> Progress(h)
  /\ \A h \in Hooks :
       filter[h] = IF h \in registered \/ (HalfDone /\ h = i) THEN {h} ELSE {}
  /\ \A h \in registered : original[h] = h
  /\ at \in {"filter", "register"} => original[i] = i

\* What a task knows that no unloading has reached.
TaskInv ==
  \A t \in Tasks :
    /\ pc[t] = "oops" => t \in stale
    /\ t \notin stale =>
         /\ stack[t] \in {<<>>, <<fn[t]>>}
         /\ stack[t] = <<>> => pc[t] \in {"user", "entry", "body"}
         /\ stack[t] # <<>> => /\ pc[t] \in {"entry", "hook", "body", "after"}
                               /\ Loaded /\ fn[t] \in Hooks /\ original[fn[t]] = fn[t]
         /\ pc[t] \in {"entry", "hook", "body"} => ran[t] = 0
         /\ pc[t] \in {"user", "after"} => ran[t] = 1

Inv == TypeOK /\ LoaderInv /\ TaskInv

LEMMA InvInit == Init => Inv
<1> SUFFICES ASSUME Init PROVE Inv
  OBVIOUS
<1>1. TypeOK
  BY CountAssumption DEF Init, TypeOK, Place, TaskPlace, Hooks, Functions, NULL
<1>2. LoaderInv
  BY CountAssumption DEF Init, LoaderInv, Progress, HalfDone, Installing, Removing, Hooks
<1>3. TaskInv
  BY DEF Init, TaskInv
<1> QED BY <1>1, <1>2, <1>3 DEF Inv

\* The error label leaves the hooks below i to be removed.
LEMMA ErrorGoes ==
  ASSUME i \in Hooks, Error
  PROVE  \/ i = 1 /\ at' = "unloaded" /\ i' = 0
         \/ i > 1 /\ at' = "undo" /\ i' = i - 1 /\ i' \in Hooks
BY CountAssumption DEF Error, Go, Hooks

\* From the error label on, the hooks below i are the ones left.
LEMMA ErrorKeeps ==
  ASSUME LoaderInv, i \in Hooks, Error, UNCHANGED <<original, registered>>,
         \A h \in Hooks : h \in registered <=> h < i,
         \A h \in Hooks : filter'[h] = IF h < i THEN {h} ELSE {}
  PROVE  LoaderInv'
<1> USE CountAssumption DEF LoaderInv, Hooks, HalfDone, Installing, Removing, Progress
<1>1. CASE i = 1 /\ at' = "unloaded" /\ i' = 0
  <2>1. \A h \in Hooks : ~(h < i)
    BY <1>1
  <2> QED BY <1>1, <2>1
<1>2. CASE i > 1 /\ at' = "undo" /\ i' = i - 1 /\ i' \in Hooks
  <2>1. \A h \in Hooks : h < i <=> h <= i'
    BY <1>2
  <2> QED BY <1>2, <2>1
<1> QED BY <1>1, <1>2, ErrorGoes

\* Which filter a change at hook i leaves.
LEMMA FilterAt ==
  ASSUME TypeOK, i \in Hooks, NEW S, filter' = [filter EXCEPT ![i] = S]
  PROVE  filter'[i] = S /\ \A h \in Hooks : h # i => filter'[h] = filter[h]
BY DEF TypeOK

\* The loader's own steps, for its half of the invariant.
LEMMA LoaderStep ==
  ASSUME Inv, fh_init \/ fh_exit \/ Loader
  PROVE  LoaderInv'
<1> USE CountAssumption DEF Inv, LoaderInv, Hooks, HalfDone, Installing, Removing, Progress
<1>1. CASE fh_init
  BY <1>1 DEF fh_init, Go, TypeOK
<1>2. CASE fh_exit
  BY <1>2 DEF fh_exit, Go, TypeOK
<1>3. CASE fh_resolve_hook_address
  BY <1>3 DEF fh_resolve_hook_address, lookup_name, Go, Error, TypeOK
<1>4. CASE set_filter_ip
  <2>1. i \in Hooks /\ at = "filter" /\ UNCHANGED <<original, registered>>
    BY <1>4 DEF set_filter_ip
  <2>2. CASE Go("register", i) /\ filter' = [filter EXCEPT ![i] = {i}]
    <3>1. filter'[i] = {i} /\ \A h \in Hooks : h # i => filter'[h] = filter[h]
      BY <2>1, <2>2, FilterAt
    <3> QED BY <2>1, <2>2, <3>1 DEF Go
  <2>3. CASE Error /\ UNCHANGED filter
    BY <2>1, <2>3, ErrorKeeps
  <2> QED BY <1>4, <2>2, <2>3 DEF set_filter_ip
<1>5. CASE register_ftrace_function
  <2>1. i \in Hooks /\ at = "register" /\ UNCHANGED <<original, filter>>
    BY <1>5 DEF register_ftrace_function
  <2>2. CASE registered' = registered \cup {i} /\ i = Count /\ Go("live", 0)
    BY <2>1, <2>2 DEF Go
  <2>3. CASE registered' = registered \cup {i} /\ i # Count /\ Go("resolve", i + 1)
    BY <2>1, <2>3 DEF Go
  <2>4. CASE Go("unfilter_failed", i) /\ UNCHANGED registered
    BY <2>1, <2>4 DEF Go
  <2> QED BY <1>5, <2>2, <2>3, <2>4 DEF register_ftrace_function
<1>6. CASE unfilter_failed
  <2>1. i \in Hooks /\ at = "unfilter_failed" /\ UNCHANGED <<original, registered>>
    BY <1>6 DEF unfilter_failed
  <2>2. filter'[i] = {} /\ \A h \in Hooks : h # i => filter'[h] = filter[h]
    BY <1>6, <2>1, FilterAt DEF unfilter_failed
  <2>3. Error
    BY <1>6 DEF unfilter_failed
  <2>4. /\ \A h \in Hooks : h \in registered <=> h < i
        /\ \A h \in Hooks : filter'[h] = IF h < i THEN {h} ELSE {}
    BY <2>1, <2>2
  <2> QED BY <2>1, <2>3, <2>4, ErrorKeeps
<1>7. CASE undo
  <2>1. /\ i \in Hooks /\ at = "undo" /\ at' = "undo_filter" /\ i' = i
        /\ registered' = registered \ {i} /\ UNCHANGED <<original, filter>>
    BY <1>7 DEF undo, unregister_ftrace_function, Go
  <2> QED BY <2>1
<1>8. CASE undo_filter
  <2>1. i \in Hooks /\ at = "undo_filter" /\ UNCHANGED <<original, registered>>
    BY <1>8 DEF undo_filter, remove_filter_ip
  <2>2. filter'[i] = {} /\ \A h \in Hooks : h # i => filter'[h] = filter[h]
    BY <1>8, <2>1, FilterAt DEF undo_filter, remove_filter_ip
  <2>3. Error
    BY <1>8 DEF undo_filter
  <2>4. /\ \A h \in Hooks : h \in registered <=> h < i
        /\ \A h \in Hooks : filter'[h] = IF h < i THEN {h} ELSE {}
    BY <2>1, <2>2
  <2> QED BY <2>1, <2>3, <2>4, ErrorKeeps
<1>9. CASE exit
  <2>1. /\ i \in Hooks /\ at = "exit" /\ at' = "exit_filter" /\ i' = i
        /\ registered' = registered \ {i} /\ UNCHANGED <<original, filter>>
    BY <1>9 DEF exit, unregister_ftrace_function, Go
  <2> QED BY <2>1
<1>10. CASE exit_filter
  <2>1. i \in Hooks /\ at = "exit_filter" /\ UNCHANGED <<original, registered>>
    BY <1>10 DEF exit_filter, remove_filter_ip
  <2>2. filter'[i] = {} /\ \A h \in Hooks : h # i => filter'[h] = filter[h]
    BY <1>10, <2>1, FilterAt DEF exit_filter, remove_filter_ip
  <2>3. \/ i = Count /\ at' = "unloaded" /\ i' = 0
        \/ i # Count /\ at' = "exit" /\ i' = i + 1
    BY <1>10 DEF exit_filter, Go
  <2>4. /\ \A h \in Hooks : h \in registered <=> h > i
        /\ \A h \in Hooks : filter'[h] = IF h > i THEN {h} ELSE {}
    BY <2>1, <2>2
  <2>5. CASE i = Count /\ at' = "unloaded" /\ i' = 0
    BY <2>1, <2>4, <2>5
  <2>6. CASE i # Count /\ at' = "exit" /\ i' = i + 1
    <3>1. \A h \in Hooks : h > i <=> h >= i'
      BY <2>1, <2>6
    <3> QED BY <2>1, <2>4, <2>6, <3>1
  <2> QED BY <2>3, <2>5, <2>6
<1> QED BY <1>1, <1>2, <1>3, <1>4, <1>5, <1>6, <1>7, <1>8, <1>9, <1>10 DEF Loader

\* The loader keeps the tasks' half: unloading makes stale whoever is inside.
LEMMA LoaderTasks ==
  ASSUME Inv, fh_init \/ fh_exit \/ Loader
  PROVE  TaskInv'
<1> USE DEF Inv
<1>1. UNCHANGED task
  BY DEF fh_init, fh_exit, Loader, fh_resolve_hook_address, lookup_name, set_filter_ip,
         register_ftrace_function, unfilter_failed, undo, undo_filter, exit, exit_filter,
         unregister_ftrace_function, remove_filter_ip
<1>2. \/ at' # "unloaded" /\ stale' = stale
      \/ stale' = stale \cup {t \in Tasks : stack[t] # <<>>}
  BY DEF fh_init, fh_exit, Loader, fh_resolve_hook_address, lookup_name, set_filter_ip, Error, Go,
         register_ftrace_function, unfilter_failed, undo, undo_filter, exit, exit_filter,
         unregister_ftrace_function, remove_filter_ip
<1>3. \/ at = "unloaded"
      \/ \A h \in Hooks : original[h] = h => original'[h] = h
  BY DEF fh_init, fh_exit, Loader, fh_resolve_hook_address, lookup_name, set_filter_ip,
         register_ftrace_function, unfilter_failed, undo, undo_filter, exit, exit_filter,
         unregister_ftrace_function, remove_filter_ip, TypeOK
<1> QED BY <1>1, <1>2, <1>3 DEF TaskInv, Loaded, task

\* A task's steps keep its own half, and only its own.
LEMMA TaskStep ==
  ASSUME Inv, NEW t \in Tasks, Step(t) \/ \E f \in Functions : syscall(t, f)
  PROVE  TaskInv'
<1> USE DEF Inv
<1>1. /\ UNCHANGED <<loader, stale>>
      /\ \A u \in Tasks : u # t => /\ pc'[u] = pc[u] /\ fn'[u] = fn[u]
                                   /\ stack'[u] = stack[u] /\ ran'[u] = ran[u]
  BY DEF Step, syscall, fh_ftrace_thunk, fh_sys_before, body, fh_sys_after, TypeOK
<1> DEFINE Mine(p, f, k, r) ==
      /\ p = "oops" => t \in stale
      /\ t \notin stale =>
           /\ k \in {<<>>, <<f>>}
           /\ k = <<>> => p \in {"user", "entry", "body"}
           /\ k # <<>> => /\ p \in {"entry", "hook", "body", "after"}
                         /\ Loaded /\ f \in Hooks /\ original[f] = f
           /\ p \in {"entry", "hook", "body"} => r = 0
           /\ p \in {"user", "after"} => r = 1
<1>2. Mine(pc[t], fn[t], stack[t], ran[t])
  BY DEF TaskInv
<1>3. Mine(pc'[t], fn'[t], stack'[t], ran'[t])
  <2>1. ASSUME NEW f \in Functions, syscall(t, f) PROVE Mine(pc'[t], fn'[t], stack'[t], ran'[t])
    BY <1>2, <2>1 DEF syscall, TypeOK
  <2>2. CASE fh_ftrace_thunk(t)
    <3>1. \A h \in Traced(fn[t]) : h = fn[t] /\ h \in Hooks /\ original[h] = h /\ Loaded
      <4> SUFFICES ASSUME NEW h \in Traced(fn[t])
                   PROVE  h = fn[t] /\ h \in Hooks /\ original[h] = h /\ Loaded
        OBVIOUS
      <4>1. h \in registered /\ h \in Hooks /\ (filter[h] = {} \/ fn[t] \in filter[h])
        BY DEF Traced, TypeOK
      <4>2. filter[h] = {h} /\ original[h] = h /\ Progress(h)
        BY <4>1 DEF LoaderInv
      <4> QED BY <4>1, <4>2 DEF Progress, Installing, Loaded
    <3>2. pc[t] = "entry" /\ fn' = fn /\ ran' = ran
      BY <2>2 DEF fh_ftrace_thunk
    <3>3. ASSUME NEW h \in Traced(fn[t]), stack[t] = <<>>, pc'[t] = "hook",
                 stack'[t] = Append(stack[t], h)
          PROVE  Mine(pc'[t], fn'[t], stack'[t], ran'[t])
      <4>1. stack'[t] = <<fn[t]>> /\ stack'[t] # <<>>
        BY <3>1, <3>3
      <4> QED BY <1>2, <3>1, <3>2, <3>3, <4>1
    <3>4. ASSUME pc'[t] = "body", stack' = stack PROVE Mine(pc'[t], fn'[t], stack'[t], ran'[t])
      BY <1>2, <3>2, <3>4
    <3> QED BY <2>2, <3>3, <3>4 DEF fh_ftrace_thunk, within_module, TypeOK
  <2>3. CASE fh_sys_before(t)
    <3>1. ASSUME t \notin stale
          PROVE  /\ pc[t] = "hook" /\ stack[t] = <<fn[t]>> /\ stack[t] # <<>>
                 /\ Hook(t) = fn[t] /\ fn[t] \in Hooks
                 /\ original[Hook(t)] = fn[t] /\ original[Hook(t)] # NULL
      BY <1>2, <2>3, <3>1, CountAssumption DEF fh_sys_before, Hook, Hooks, NULL
    <3> QED BY <1>2, <2>3, <3>1 DEF fh_sys_before, TypeOK
  <2>4. CASE body(t)
    BY <1>2, <2>4 DEF body, TypeOK
  <2>5. CASE fh_sys_after(t)
    <3>1. ASSUME t \notin stale
          PROVE  stack'[t] = <<>> /\ pc'[t] = "user" /\ fn' = fn /\ ran' = ran
      <4>1. stack[t] = <<fn[t]>> /\ pc[t] = "after"
        BY <1>2, <2>5, <3>1 DEF fh_sys_after
      <4>2. Len(stack[t]) = 1 /\ SubSeq(stack[t], 1, Len(stack[t]) - 1) = <<>>
        BY <4>1
      <4> QED BY <2>5, <3>1, <4>2 DEF fh_sys_after, TypeOK
    <3> QED BY <1>2, <2>5, <3>1 DEF fh_sys_after, TypeOK
  <2> QED BY <2>1, <2>2, <2>3, <2>4, <2>5 DEF Step
<1> QED BY <1>1, <1>3 DEF TaskInv, loader, Loaded

LEMMA TypeStep ==
  ASSUME Inv, [Next]_vars
  PROVE  TypeOK'
<1> USE CountAssumption DEF Inv, TypeOK
<1>1. CASE fh_init \/ fh_exit \/ Loader
  <2>1. UNCHANGED task /\ stale' \subseteq Tasks
    BY <1>1 DEF fh_init, fh_exit, Loader, fh_resolve_hook_address, lookup_name, set_filter_ip, Error, Go,
         register_ftrace_function, unfilter_failed, undo, undo_filter, exit, exit_filter,
         unregister_ftrace_function, remove_filter_ip
  <2>2. at \notin {"unloaded", "live"} => i \in Hooks
    BY DEF LoaderInv, Place, Installing, Removing
  <2>3. at' \in Place /\ i' \in 0 .. Count
    BY <1>1, <2>2 DEF fh_init, fh_exit, Loader, fh_resolve_hook_address, lookup_name, set_filter_ip, Error,
         Go, register_ftrace_function, unfilter_failed, undo, undo_filter, exit, exit_filter,
         unregister_ftrace_function, remove_filter_ip, Place, Hooks
  <2>4. original' \in [Hooks -> Functions \cup {NULL}]
    BY <1>1, <2>2 DEF fh_init, fh_exit, Loader, fh_resolve_hook_address, lookup_name, set_filter_ip,
         register_ftrace_function, unfilter_failed, undo, undo_filter, exit, exit_filter,
         unregister_ftrace_function, remove_filter_ip, Hooks, Functions
  <2>5. \/ filter' = [h \in Hooks |-> {}] \/ filter' = filter
        \/ i \in Hooks /\ \E S \in {{}, {i}} : filter' = [filter EXCEPT ![i] = S]
    BY <1>1, <2>2 DEF fh_init, fh_exit, Loader, fh_resolve_hook_address, lookup_name, set_filter_ip,
         register_ftrace_function, unfilter_failed, undo, undo_filter, exit, exit_filter,
         unregister_ftrace_function, remove_filter_ip
  <2>6. filter' \in [Hooks -> SUBSET Functions]
    <3>1. i \in Hooks => {i} \in SUBSET Functions
      BY DEF Hooks, Functions
    <3>2. filter \in [Hooks -> SUBSET Functions]
      OBVIOUS
    <3> HIDE DEF Inv, TypeOK
    <3>3. CASE filter' = [h \in Hooks |-> {}] \/ filter' = filter
      BY <3>2, <3>3
    <3>4. ASSUME i \in Hooks, NEW S \in {{}, {i}}, filter' = [filter EXCEPT ![i] = S]
          PROVE  filter' \in [Hooks -> SUBSET Functions]
      BY <3>1, <3>2, <3>4
    <3> QED BY <2>5, <3>3, <3>4
  <2>7. registered' \subseteq Hooks
    BY <1>1, <2>2 DEF fh_init, fh_exit, Loader, fh_resolve_hook_address, lookup_name, set_filter_ip,
         register_ftrace_function, unfilter_failed, undo, undo_filter, exit, exit_filter,
         unregister_ftrace_function, remove_filter_ip
  <2> QED BY <2>1, <2>3, <2>4, <2>6, <2>7 DEF task
<1>2. ASSUME NEW t \in Tasks, NEW f \in Functions, syscall(t, f) PROVE TypeOK'
  BY <1>2 DEF syscall, TaskPlace, loader
<1>3. ASSUME NEW t \in Tasks, fh_ftrace_thunk(t) PROVE TypeOK'
  <2>1. \A h \in Traced(fn[t]) : Append(stack[t], h) \in Seq(Hooks)
    BY DEF Traced
  <2> QED BY <1>3, <2>1 DEF fh_ftrace_thunk, TaskPlace, loader
<1>4. ASSUME NEW t \in Tasks, fh_sys_before(t) PROVE TypeOK'
  <2>1. ASSUME t \notin stale PROVE original[Hook(t)] = fn[t]
    <3>1. pc[t] = "hook"
      BY <1>4 DEF fh_sys_before
    <3>2. stack[t] = <<fn[t]>> /\ original[fn[t]] = fn[t]
      BY <2>1, <3>1 DEF TaskInv
    <3> QED BY <3>2 DEF Hook
  <2> QED BY <1>4, <2>1 DEF fh_sys_before, TaskPlace, loader
<1>5. ASSUME NEW t \in Tasks, body(t) PROVE TypeOK'
  BY <1>5 DEF body, TaskPlace, loader
<1>6. ASSUME NEW t \in Tasks, fh_sys_after(t) PROVE TypeOK'
  <2>1. ASSUME t \notin stale PROVE SubSeq(stack[t], 1, Len(stack[t]) - 1) = <<>>
    <3>1. stack[t] = <<fn[t]>>
      BY <1>6, <2>1 DEF fh_sys_after, TaskInv
    <3> QED BY <3>1
  <2>2. <<>> \in Seq(Hooks)
    OBVIOUS
  <2>5. stack' = [stack EXCEPT ![t] = <<>>] \/ stack' = stack
    BY <1>6, <2>1 DEF fh_sys_after
  <2>3. stack' \in [Tasks -> Seq(Hooks)]
    <3>1. stack \in [Tasks -> Seq(Hooks)]
      OBVIOUS
    <3> HIDE DEF Inv, TypeOK
    <3> QED BY <2>2, <2>5, <3>1, Zenon
  <2>4. pc' \in [Tasks -> TaskPlace]
    BY <1>6 DEF fh_sys_after, TaskPlace
  <2> QED BY <1>6, <2>3, <2>4 DEF fh_sys_after, loader
<1>7. CASE UNCHANGED vars
  BY <1>7 DEF vars
<1> QED BY <1>1, <1>2, <1>3, <1>4, <1>5, <1>6, <1>7 DEF Next, Step

LEMMA InvStep == Inv /\ [Next]_vars => Inv'
<1> SUFFICES ASSUME Inv, [Next]_vars PROVE LoaderInv' /\ TaskInv'
  BY TypeStep DEF Inv
<1>1. CASE fh_init \/ fh_exit \/ Loader
  BY <1>1, LoaderStep, LoaderTasks
<1>2. ASSUME NEW t \in Tasks, Step(t) \/ \E f \in Functions : syscall(t, f)
      PROVE  LoaderInv' /\ TaskInv'
  <2>1. UNCHANGED loader
    BY <1>2 DEF Step, syscall, fh_ftrace_thunk, fh_sys_before, body, fh_sys_after
  <2> QED BY <1>2, <2>1, TaskStep DEF Inv, loader, LoaderInv, Progress, HalfDone
<1>3. CASE UNCHANGED vars
  BY <1>3 DEF vars, Inv, LoaderInv, TaskInv, Progress, HalfDone, Loaded
<1> QED BY <1>1, <1>2, <1>3 DEF Next

\* Init and every step keep the invariant, for any hooks and any tasks.
THEOREM HooksInvariant == Spec => []Inv
BY InvInit, InvStep, PTL DEF Spec

\* The promise of fh_install_hooks, "If some hooks fail to install then all
\* hooks will be removed", and the same of fh_exit, for an array of any length.
THEOREM AllOrNothing == Spec => []NothingLeft
<1>1. Inv => NothingLeft
  BY DEF Inv, TypeOK, LoaderInv, NothingLeft, Loaded, Progress, HalfDone, Installing
<1> QED BY <1>1, HooksInvariant, PTL

\* fh_install_hook and fh_remove_hook order the filter and the registration so that
\* no ops are ever registered without the filter of their own function.
THEOREM NeverUnfiltered == Spec => []FilteredWhileRegistered
<1>1. Inv => FilteredWhileRegistered
  BY DEF Inv, TypeOK, LoaderInv, FilteredWhileRegistered
<1> QED BY <1>1, HooksInvariant, PTL

\* A hook is registered only after fh_resolve_hook_address has found its original,
\* so no task calls through a NULL original.
THEOREM OriginalBeforeHook == Spec => []OriginalKnown
<1>1. Inv => OriginalKnown
  BY DEF Inv, LoaderInv, TaskInv, OriginalKnown
<1> QED BY <1>1, HooksInvariant, PTL

\* The hooks never recurse and never lose a system call: whatever the loader
\* does, a task that no unloading has reached enters at most the hook of its
\* own function and runs the real function once.
THEOREM NoRecursion == Spec => []RunsOnce
<1>1. Inv => RunsOnce
  BY DEF Inv, LoaderInv, TaskInv, RunsOnce
<1> QED BY <1>1, HooksInvariant, PTL

-------------------------------------------------------------------------------
(***************************************************************************)
(* The memory disk.                                                        *)
(***************************************************************************)
\* What myblock_driver_init has acquired, and _exit not yet given back.
Acquired == [s \in Stage |->
  CASE s = "absent" -> {}
    [] s = "device" -> {"major", "block_device"}
    [] s = "buffer" -> {"major", "block_device", "data"}
    [] s = "queue" -> {"major", "block_device", "data", "tag_set", "queue"}
    [] s \in {"disk", "live"} -> {"major", "block_device", "data", "tag_set", "queue", "gdisk"}
    [] s = "exit_disk" -> {"major", "block_device", "data", "tag_set", "queue"}
    [] s = "exit_queue" -> {"major", "block_device", "data", "tag_set"}
    [] s = "exited" -> {"tag_set"}]

\* Requests are there from add_disk to blk_cleanup_queue only: both are needed, a
\* request in flight keeps what it uses because the stage cannot leave these two.
StageInv ==
  /\ mod \in Stage
  /\ held = Acquired[mod]
  /\ mod \notin {"live", "exit_disk"} => \A t \in Tags : rq[t] = NoRequest

\* Every step of the driver and of the block layer keeps the invariant.
LEMMA NextKeepsStage ==
  ASSUME StageInv, [DiskNext]_diskVars PROVE StageInv'
<1> USE DEF StageInv, Acquired, Stage
<1>1. CASE alloc_device \/ alloc_data
  BY <1>1 DEF alloc_device, alloc_data, alloc_data_fails, Fails
<1>2. CASE init_sq_queue \/ alloc_disk \/ add_disk
  BY <1>2 DEF init_sq_queue, alloc_disk, add_disk, Fails
<1>3. CASE del_gendisk \/ cleanup_queue \/ free_device
  BY <1>3 DEF del_gendisk, cleanup_queue, free_device, Busy
<1>4. ASSUME NEW t \in Tags, queue_rq(t) PROVE StageInv'
  <2>1. UNCHANGED <<mod, held>> /\ mod \in {"live", "exit_disk"}
    BY <1>4 DEF queue_rq, do_request, do_segment, end_request
  <2> QED BY <2>1
<1>5. ASSUME NEW t \in Tags, BlockLayer(t) PROVE StageInv'
  <2>1. UNCHANGED <<mod, held>> /\ mod = "live"
    BY <1>5 DEF BlockLayer, start_request
  <2> QED BY <2>1
<1>6. CASE UNCHANGED diskVars
  BY <1>6 DEF diskVars
<1> QED BY <1>1, <1>2, <1>3, <1>4, <1>5, <1>6 DEF DiskNext, Lifecycle

\* At every stage the driver holds what it has acquired so far, and requests are in
\* flight only between add_disk and blk_cleanup_queue.
THEOREM HoldsByStage == DiskSpec => []StageInv
<1>1. DiskInit => StageInv
  BY DEF DiskInit, StageInv, Acquired, Stage
<1>2. StageInv /\ [DiskNext]_diskVars => StageInv'
  BY NextKeepsStage
<1> QED BY <1>1, <1>2, PTL DEF DiskSpec

\* queue_rq touches the buffer, the queue and the device structure only while the
\* driver holds them: myblock_driver_exit frees the buffer after the queue is drained.
THEOREM RequestsServedWhileHeld == DiskSpec => []ServedWhileHeld
<1>1. StageInv => ServedWhileHeld
  BY DEF StageInv, Acquired, Stage, ServedWhileHeld, Busy
<1> QED BY <1>1, HoldsByStage, PTL

\* Each error path of myblock_driver_init gives back all that was acquired.
THEOREM FailuresUndone == DiskSpec => []FailureUndone
<1>1. StageInv => FailureUndone
  BY DEF StageInv, Acquired, Stage, FailureUndone
<1> QED BY <1>1, HoldsByStage, PTL

-------------------------------------------------------------------------------
(* queue_rq *)

Buffers == UNION {[0 .. n - 1 -> Values] : n \in Nat}
Requests ==
  [dir : {"read", "write"}, start : Nat, total : Nat, pos : Nat, cuts : Shapes, off : Nat,
   nr_bytes : Nat, buf : Buffers, alone : BOOLEAN]

\* A request lies within the device, its position and its byte count follow the
\* segments, and its buffer has its length.
RequestOK(r) ==
  /\ r \in Requests /\ r.buf \in [0 .. r.total - 1 -> Values]
  /\ r.total = Total(r.cuts) /\ r.start + r.total <= Capacity
  /\ r.off <= r.total /\ r.pos = r.start + r.off /\ r.nr_bytes = r.off

\* Between segments a request that is alone has moved what lies before its offset.
Moved(r, disk) ==
  r.alone => \A k \in 0 .. r.total - 1 : k < r.off => r.buf[k] = disk[r.start + k]

RequestInv ==
  /\ data \in [Sectors -> Values] /\ capacity \in {0, Capacity}
  /\ DOMAIN rq = Tags
  /\ \A t \in Busy : RequestOK(rq[t]) /\ Moved(rq[t], data)
  /\ \A t, u \in Busy : t # u /\ rq[t].alone => ~Disturbs(rq[t], rq[u])
  /\ ~bug

\* The length of a request is that of its last segment's end.
LEMMA TotalIsLast ==
  ASSUME NEW cuts \in Shapes
  PROVE  Total(cuts) \in cuts /\ Total(cuts) \in Nat \ {0} /\ \A c \in cuts : c <= Total(cuts)
BY BlockAssumption DEF Total

\* A segment of a request is never cut, not even at the very end of the device.
LEMMA SegmentFits ==
  ASSUME NEW r, RequestOK(r), NEW end \in r.cuts, Segment(r, end)
  PROVE  /\ end \in Nat /\ r.off < end /\ end <= r.total
         /\ b_len(r, end - r.off) = end - r.off
         /\ next_pos(r, end - r.off) = r.start + end
<1>1. r.cuts \in Shapes /\ r.start \in Nat /\ r.total \in Nat /\ r.off \in Nat
  BY DEF RequestOK, Requests
<1>2. end <= r.total /\ end \in Nat /\ r.off < end
  BY <1>1, TotalIsLast, BlockAssumption DEF RequestOK, Segment
<1>3. Capacity \in Nat /\ r.start + r.total <= Capacity /\ r.pos = r.start + r.off
  BY BlockAssumption DEF RequestOK
<1>4. ~(r.pos + (end - r.off) > Capacity)
  BY <1>1, <1>2, <1>3
<1> QED BY <1>1, <1>2, <1>3, <1>4 DEF b_len, next_pos

\* A request that is through its segments has moved as much as it has.
LEMMA ThroughIsAll ==
  ASSUME NEW r, RequestOK(r), Through(r)
  PROVE  r.nr_bytes = r.total /\ r.off = r.total /\ r.total \in Nat
BY TotalIsLast DEF RequestOK, Requests, Through

LEMMA SpanBounds ==
  ASSUME NEW r, RequestOK(r), NEW k \in Nat, k < r.total
  PROVE  r.start + k \in Span(r) /\ r.start + k \in Sectors
BY BlockAssumption DEF RequestOK, Requests, Span, Sectors

\* Where memcpy takes from and puts to, counted from either end.
LEMMA Offsets ==
  ASSUME NEW start \in Nat, NEW off \in Nat, NEW end \in Nat, NEW total \in Nat, NEW x \in Nat,
         off < end, end <= total
  PROVE  LET pos == start + off IN
         /\ x \in pos .. pos + (end - off) - 1 <=> pos <= x /\ x < start + end
         /\ off + x - pos = x - start
         /\ pos <= x /\ x < start + end => x - start \in 0 .. total - 1
OBVIOUS

LEMMA CopyRange ==
  ASSUME NEW start \in Nat, NEW off \in Nat, NEW end \in Nat, NEW k \in Nat, off < end
  PROVE  /\ k \in off .. off + (end - off) - 1 <=> off <= k /\ k < end
         /\ (start + off) + k - off = start + k
OBVIOUS

\* What one segment does: to the request and to the device.
LEMMA SegmentMoves ==
  ASSUME RequestInv, NEW t \in Busy, NEW end \in rq[t].cuts, do_segment(t, end)
  PROVE  /\ RequestOK(rq'[t]) /\ Moved(rq'[t], data') /\ data' \in [Sectors -> Values]
         /\ rq'[t].alone = rq[t].alone /\ rq'[t].dir = rq[t].dir /\ Span(rq'[t]) = Span(rq[t])
         /\ \A x \in Sectors : data'[x] # data[x] => rq[t].dir = "write" /\ x \in Span(rq[t])
<1> DEFINE r == rq[t]
           q == rq'[t]
           buf == IF r.dir = "read" THEN memcpy(r.buf, r.off, data, r.pos, end - r.off) ELSE r.buf
<1>1. RequestOK(r) /\ Moved(r, data) /\ t \in Tags /\ DOMAIN rq = Tags
  BY DEF RequestInv, Busy
<1>2. Segment(r, end) /\ r.cuts \in Shapes
  BY <1>1 DEF do_segment, RequestOK, Requests
<1>3. /\ end \in Nat /\ r.off < end /\ end <= r.total
      /\ b_len(r, end - r.off) = end - r.off /\ next_pos(r, end - r.off) = r.start + end
  BY <1>1, <1>2, SegmentFits
<1>4. /\ r \in Requests /\ r.dir \in {"read", "write"} /\ r.start \in Nat /\ r.off \in Nat
      /\ r.total \in Nat /\ r.pos = r.start + r.off /\ r.nr_bytes = r.off
      /\ r.buf \in [0 .. r.total - 1 -> Values] /\ data \in [Sectors -> Values]
  BY <1>1 DEF RequestOK, Requests, RequestInv
<1>5. \A k \in 0 .. r.total - 1 : r.start + k \in Sectors /\ r.start + k \in Span(r)
  BY <1>1, <1>4, SpanBounds
<1>6. /\ buf \in [0 .. r.total - 1 -> Values]
      /\ \A k \in 0 .. r.total - 1 :
           buf[k] = IF r.dir = "read" /\ r.off <= k /\ k < end THEN data[r.start + k] ELSE r.buf[k]
  <2>1. CASE r.dir = "read"
    <3> DEFINE copy == [k \in 0 .. r.total - 1 |->
                 IF k \in r.off .. r.off + (end - r.off) - 1 THEN data[r.pos + k - r.off] ELSE r.buf[k]]
    <3>1. buf = copy
      BY <1>4, <2>1 DEF memcpy
    <3>2. ASSUME NEW k \in 0 .. r.total - 1
          PROVE  /\ k \in r.off .. r.off + (end - r.off) - 1 <=> r.off <= k /\ k < end
                 /\ r.pos + k - r.off = r.start + k
      <4>1. k \in Nat /\ r.off \in Nat /\ end \in Nat /\ r.start \in Nat /\ r.off < end
        BY <1>3, <1>4
      <4> QED BY <1>4, <4>1, CopyRange
    <3>3. ASSUME NEW k \in 0 .. r.total - 1
          PROVE  copy[k] = IF r.off <= k /\ k < end THEN data[r.start + k] ELSE r.buf[k]
      BY <3>2
    <3>4. \A k \in 0 .. r.total - 1 : copy[k] \in Values
      BY <1>4, <1>5, <3>3
    <3> QED BY <2>1, <3>1, <3>3, <3>4
  <2>2. CASE r.dir # "read"
    BY <1>4, <2>2
  <2> QED BY <2>1, <2>2
<1>7. /\ data' \in [Sectors -> Values]
      /\ \A x \in Sectors :
           data'[x] = IF r.dir = "write" /\ r.pos <= x /\ x < r.start + end THEN r.buf[x - r.start]
                      ELSE data[x]
  <2>1. CASE r.dir = "write"
    <3> DEFINE copy == [x \in Sectors |->
                 IF x \in r.pos .. r.pos + (end - r.off) - 1 THEN r.buf[r.off + x - r.pos] ELSE data[x]]
    <3>1. data' = copy
      BY <1>3, <1>4, <2>1 DEF do_segment, memcpy
    <3>2. ASSUME NEW x \in Sectors
          PROVE  /\ x \in r.pos .. r.pos + (end - r.off) - 1 <=> r.pos <= x /\ x < r.start + end
                 /\ r.off + x - r.pos = x - r.start
                 /\ r.pos <= x /\ x < r.start + end => x - r.start \in 0 .. r.total - 1
      <4>1. x \in Nat
        BY BlockAssumption DEF Sectors
      <4>2. r.pos = r.start + r.off /\ r.start \in Nat /\ r.off \in Nat /\ r.total \in Nat
        BY <1>4
      <4> HIDE DEF r
      <4> QED BY <1>3, <4>1, <4>2, Offsets
    <3>3. ASSUME NEW x \in Sectors
          PROVE  copy[x] = IF r.pos <= x /\ x < r.start + end THEN r.buf[x - r.start] ELSE data[x]
      BY <3>2
    <3>4. \A x \in Sectors : copy[x] \in Values
      BY <1>4, <3>2, <3>3
    <3> QED BY <2>1, <3>1, <3>3, <3>4
  <2>2. CASE r.dir # "write"
    BY <1>4, <2>2 DEF do_segment
  <2> QED BY <2>1, <2>2
<1>8. q = [r EXCEPT !.buf = buf, !.pos = r.start + end, !.nr_bytes = end, !.off = end]
  <2>1. rq' = [rq EXCEPT ![t] =
          [r EXCEPT !.buf = IF r.dir = "read"
                            THEN memcpy(r.buf, r.off, data, r.pos, b_len(r, end - r.off)) ELSE r.buf,
                    !.pos = next_pos(r, end - r.off), !.nr_bytes = r.nr_bytes + b_len(r, end - r.off),
                    !.off = end]]
    BY DEF do_segment
  <2>2. r.nr_bytes + (end - r.off) = end
    BY <1>3, <1>4
  <2> QED BY <1>1, <1>3, <2>1, <2>2
<1>9. buf \in Buffers
  BY <1>4, <1>6 DEF Buffers
<1> HIDE DEF buf, q, r
<1>10. /\ q \in Requests /\ q.buf = buf /\ q.pos = r.start + end /\ q.nr_bytes = end /\ q.off = end
       /\ q.dir = r.dir /\ q.start = r.start /\ q.total = r.total /\ q.cuts = r.cuts
       /\ q.alone = r.alone
  <2>1. r.start + end \in Nat
    BY <1>3, <1>4
  <2>2. r \in Requests /\ end \in Nat
    BY <1>3, <1>4
  <2> QED BY <1>8, <1>9, <2>1, <2>2 DEF Requests
<1>11. RequestOK(q)
  BY <1>1, <1>3, <1>4, <1>6, <1>10 DEF RequestOK
<1>12. Moved(q, data')
  <2> SUFFICES ASSUME q.alone, NEW k \in 0 .. q.total - 1, k < q.off
               PROVE  q.buf[k] = data'[q.start + k]
    BY DEF Moved
  <2>1. k \in 0 .. r.total - 1 /\ k < end /\ r.start + k \in Sectors
    BY <1>5, <1>10
  <2>2. k < r.off => r.buf[k] = data[r.start + k]
    BY <1>1, <1>10, <2>1 DEF Moved
  <2>3. /\ r.pos <= r.start + k <=> r.off <= k
        /\ r.start + k < r.start + end /\ (r.start + k) - r.start = k
    BY <1>3, <1>4, <2>1
  <2>4. data'[r.start + k] = IF r.dir = "write" /\ r.off <= k THEN r.buf[k] ELSE data[r.start + k]
    BY <1>7, <2>1, <2>3
  <2>5. buf[k] = IF r.dir = "read" /\ r.off <= k THEN data[r.start + k] ELSE r.buf[k]
    BY <1>6, <2>1
  <2>6. k < r.off \/ r.off <= k
    BY <1>4, <2>1
  <2> QED BY <1>4, <1>10, <2>2, <2>4, <2>5, <2>6
<1>13. \A x \in Sectors : data'[x] # data[x] => r.dir = "write" /\ x \in Span(r)
  <2> SUFFICES ASSUME NEW x \in Sectors, r.pos <= x, x < r.start + end PROVE x \in Span(r)
    BY <1>7
  <2> QED BY <1>3, <1>4, BlockAssumption DEF Span, Sectors
<1> QED BY <1>7, <1>10, <1>11, <1>12, <1>13 DEF Span, q, r
LEMMA RequestStep ==
  ASSUME StageInv, RequestInv, [DiskNext]_diskVars PROVE RequestInv'
<1>1. CASE Lifecycle
  <2>1. /\ UNCHANGED <<rq, bug>> /\ capacity' \in {0, Capacity} /\ data' \in [Sectors -> Values]
        /\ UNCHANGED data \/ mod = "device"
    BY <1>1 DEF Lifecycle, alloc_device, alloc_data, alloc_data_fails, init_sq_queue, alloc_disk,
       add_disk, set_capacity, del_gendisk, cleanup_queue, free_device, Fails, RequestInv
  <2>2. mod = "device" => Busy = {}
    BY DEF StageInv, Busy
  <2>3. Busy' = Busy
    BY <2>1 DEF Busy
  <2>4. \A t \in Busy : RequestOK(rq[t]) /\ Moved(rq[t], data')
    BY <2>1, <2>2 DEF RequestInv
  <2> QED BY <2>1, <2>3, <2>4 DEF RequestInv
<1>2. ASSUME NEW t \in Tags, end_request(t) PROVE RequestInv'
  <2>1. rq[t] # NoRequest /\ Through(rq[t]) /\ t \in Busy
    BY <1>2 DEF end_request, Busy
  <2>2. ~(rq[t].nr_bytes < rq[t].total)
    BY <2>1, ThroughIsAll DEF RequestInv
  <2>3. /\ UNCHANGED <<capacity, data>> /\ rq' = [rq EXCEPT ![t] = NoRequest]
        /\ bug' = (bug \/ rq[t].nr_bytes < rq[t].total)
    BY <1>2 DEF end_request
  <2>4. ~bug'
    BY <2>2, <2>3 DEF RequestInv
  <2>5. DOMAIN rq = Tags
    BY DEF RequestInv
  <2>6. Busy' \subseteq Busy /\ \A u \in Busy' : rq'[u] = rq[u]
    BY <2>3, <2>5 DEF Busy
  <2> QED BY <2>3, <2>4, <2>5, <2>6 DEF RequestInv
<1>3. ASSUME NEW t \in Tags, rq[t] # NoRequest, NEW end \in rq[t].cuts, do_segment(t, end)
      PROVE  RequestInv'
  <2>0. t \in Busy /\ DOMAIN rq = Tags
    BY <1>3 DEF Busy, RequestInv
  <2>1. /\ RequestOK(rq'[t]) /\ Moved(rq'[t], data') /\ data' \in [Sectors -> Values]
        /\ rq'[t].alone = rq[t].alone /\ rq'[t].dir = rq[t].dir /\ Span(rq'[t]) = Span(rq[t])
        /\ \A x \in Sectors : data'[x] # data[x] => rq[t].dir = "write" /\ x \in Span(rq[t])
    BY <1>3, <2>0, SegmentMoves
  <2>2. /\ UNCHANGED <<capacity, bug>> /\ DOMAIN rq' = Tags
        /\ \A u \in Tags : u # t => rq'[u] = rq[u]
    BY <1>3, <2>0 DEF do_segment
  <2>3. Busy' \subseteq Busy
    BY <2>0, <2>2 DEF Busy
  <2>4. ASSUME NEW u \in Busy, u # t PROVE Moved(rq[u], data')
    <3> SUFFICES ASSUME rq[u].alone, NEW k \in 0 .. rq[u].total - 1, k < rq[u].off
                 PROVE  rq[u].buf[k] = data'[rq[u].start + k]
      BY DEF Moved
    <3>1. RequestOK(rq[u]) /\ rq[u].buf[k] = data[rq[u].start + k]
      BY DEF RequestInv, Moved
    <3>2. rq[u].total \in Nat /\ rq[u].off \in Nat
      BY <3>1 DEF RequestOK, Requests
    <3>3. rq[u].start + k \in Span(rq[u]) /\ rq[u].start + k \in Sectors
      BY <3>1, <3>2, SpanBounds
    <3>4. ~Disturbs(rq[u], rq[t])
      BY <2>0, <2>4 DEF RequestInv
    <3>5. data'[rq[u].start + k] = data[rq[u].start + k]
      BY <2>1, <3>3, <3>4 DEF Disturbs
    <3> QED BY <3>1, <3>5
  <2>5. \A u \in Busy' : RequestOK(rq'[u]) /\ Moved(rq'[u], data')
    BY <2>1, <2>2, <2>3, <2>4 DEF RequestInv, Busy
  <2>6. \A u \in Tags : /\ rq'[u].alone = rq[u].alone /\ rq'[u].dir = rq[u].dir
                        /\ Span(rq'[u]) = Span(rq[u])
    BY <2>1, <2>2
  <2>7. ASSUME NEW u \in Busy', NEW w \in Busy', u # w, rq'[u].alone PROVE ~Disturbs(rq'[u], rq'[w])
    <3>1. u \in Busy /\ w \in Busy /\ u \in Tags /\ w \in Tags
      BY <2>3, <2>7 DEF Busy
    <3>2. ~Disturbs(rq[u], rq[w])
      BY <2>6, <2>7, <3>1 DEF RequestInv
    <3> QED BY <2>6, <3>1, <3>2 DEF Disturbs
  <2> QED BY <2>1, <2>2, <2>5, <2>7 DEF RequestInv
<1>4. ASSUME NEW t \in Tags, NEW dir \in {"read", "write"}, NEW start \in 0 .. Capacity,
             NEW cuts \in Shapes, NEW v \in Values, start_request(t, dir, start, cuts, v)
      PROVE  RequestInv'
  <2> DEFINE r == [dir |-> dir, start |-> start, total |-> Total(cuts),
                   pos |-> start, cuts |-> cuts, off |-> 0, nr_bytes |-> 0,
                   buf |-> [k \in 0 .. Total(cuts) - 1 |-> v], alone |-> TRUE]
             near == {u \in Busy : Disturbs(r, rq[u])}
             new == [r EXCEPT !.alone = near = {}]
  <2>1. /\ rq[t] = NoRequest /\ start + Total(cuts) <= capacity
        /\ UNCHANGED <<capacity, data, bug>>
        /\ rq' = [u \in Tags |-> IF u = t THEN new
                                ELSE IF u \in near THEN [rq[u] EXCEPT !.alone = FALSE]
                                ELSE rq[u]]
    BY <1>4 DEF start_request
  <2>2. /\ Total(cuts) \in Nat \ {0} /\ start \in Nat /\ Capacity \in Nat
        /\ start + Total(cuts) <= Capacity
    BY <1>4, <2>1, TotalIsLast, BlockAssumption DEF RequestInv
  <2>3. [k \in 0 .. Total(cuts) - 1 |-> v] \in Buffers
    BY <2>2 DEF Buffers
  <2>4. /\ new \in Requests /\ new.buf = [k \in 0 .. Total(cuts) - 1 |-> v]
        /\ new.dir = dir /\ new.start = start /\ new.total = Total(cuts) /\ new.cuts = cuts
        /\ new.off = 0 /\ new.pos = start /\ new.nr_bytes = 0 /\ (new.alone <=> near = {})
    BY <2>2, <2>3 DEF Requests
  <2>5. RequestOK(new) /\ Moved(new, data)
    BY <2>2, <2>4 DEF RequestOK, Moved
  <2>6. Span(new) = Span(r) /\ new.dir = r.dir
    BY <2>4 DEF Span
  <2> HIDE DEF new, r
  <2>7. ASSUME NEW u \in Busy
        PROVE  /\ u \in Tags /\ u # t /\ RequestOK(rq[u]) /\ Moved(rq[u], data)
               /\ LET q == [rq[u] EXCEPT !.alone = FALSE] IN
                  /\ RequestOK(q) /\ Moved(q, data) /\ ~q.alone /\ q.dir = rq[u].dir
                  /\ Span(q) = Span(rq[u])
    <3>1. u \in Tags /\ u # t /\ RequestOK(rq[u]) /\ Moved(rq[u], data) /\ rq[u] \in Requests
      BY <2>1 DEF Busy, RequestInv, RequestOK
    <3> DEFINE q == [rq[u] EXCEPT !.alone = FALSE]
    <3>2. /\ q \in Requests /\ q.dir = rq[u].dir /\ q.start = rq[u].start /\ q.total = rq[u].total
          /\ q.pos = rq[u].pos /\ q.cuts = rq[u].cuts /\ q.off = rq[u].off
          /\ q.nr_bytes = rq[u].nr_bytes /\ q.buf = rq[u].buf /\ q.alone = FALSE
      BY <3>1 DEF Requests
    <3> HIDE DEF q
    <3>3. RequestOK(q) /\ Moved(q, data) /\ ~q.alone /\ Span(q) = Span(rq[u])
      BY <3>1, <3>2 DEF RequestOK, Moved, Span
    <3> QED BY <3>1, <3>2, <3>3 DEF q
  <2>8. /\ rq'[t] = new
        /\ \A u \in Busy : rq'[u] = IF u \in near THEN [rq[u] EXCEPT !.alone = FALSE] ELSE rq[u]
        /\ \A u \in Busy' : u = t \/ u \in Busy
    BY <2>1, <2>7 DEF Busy
  <2>9. \A u \in Busy' : RequestOK(rq'[u]) /\ Moved(rq'[u], data)
    BY <2>5, <2>7, <2>8
  <2>10. ASSUME NEW u \in Busy', NEW w \in Busy', u # w, rq'[u].alone PROVE ~Disturbs(rq'[u], rq'[w])
    <3>1. ASSUME NEW x \in Busy PROVE Span(rq'[x]) = Span(rq[x]) /\ rq'[x].dir = rq[x].dir
      BY <2>7, <2>8
    <3>2. CASE u = t
      <4>1. w \in Busy /\ w \notin near
        BY <2>4, <2>8, <2>10, <3>2
      <4> QED BY <2>6, <2>8, <3>1, <3>2, <4>1 DEF Disturbs
    <3>3. CASE u \in Busy
      <4>1. u \notin near /\ rq'[u] = rq[u]
        BY <2>7, <2>8, <2>10, <3>3
      <4>2. CASE w = t
        BY <2>6, <2>8, <3>3, <4>1, <4>2 DEF Disturbs
      <4>3. CASE w \in Busy
        <5>1. ~Disturbs(rq[u], rq[w])
          BY <2>10, <3>3, <4>1, <4>3 DEF RequestInv
        <5> QED BY <3>1, <4>1, <4>3, <5>1 DEF Disturbs
      <4> QED BY <2>8, <4>2, <4>3
    <3> QED BY <2>8, <3>2, <3>3
  <2> QED BY <2>1, <2>9, <2>10 DEF RequestInv
<1>5. CASE UNCHANGED diskVars
  BY <1>5 DEF diskVars, RequestInv, Busy
<1> QED BY <1>1, <1>2, <1>3, <1>4, <1>5 DEF DiskNext, queue_rq, do_request, BlockLayer

\* Requests in flight keep to the device and have moved what is behind them.
THEOREM RequestsInvariant == DiskSpec => []RequestInv
<1>1. DiskInit => RequestInv
  BY DEF DiskInit, RequestInv, Busy
<1>2. StageInv /\ RequestInv /\ [DiskNext]_diskVars => RequestInv'
  BY RequestStep
<1> QED BY <1>1, <1>2, HoldsByStage, PTL DEF DiskSpec

\* do_request moves every byte of every request, however it is cut into segments and
\* wherever it ends, so that queue_rq never reaches BUG().
THEOREM BugNeverReached == DiskSpec => []NeverBug
<1>1. RequestInv => NeverBug
  BY DEF RequestInv, NeverBug
<1> QED BY <1>1, RequestsInvariant, PTL

\* A request that overlaps no other, or only reads with readers, moves exactly its
\* own data, although queue_rq runs on several processors without a lock.
THEOREM DataTransferred == DiskSpec => []Transferred
<1>1. RequestInv => Transferred
  <2> SUFFICES ASSUME RequestInv, NEW t \in Busy, rq[t].alone, Through(rq[t]),
                      NEW k \in 0 .. rq[t].total - 1
               PROVE  rq[t].buf[k] = data[rq[t].start + k]
    BY DEF Transferred
  <2>1. RequestOK(rq[t]) /\ Moved(rq[t], data)
    BY DEF RequestInv
  <2>2. rq[t].off = rq[t].total /\ rq[t].total \in Nat
    BY <2>1, ThroughIsAll
  <2>3. k < rq[t].off
    BY <2>2
  <2> QED BY <2>1, <2>3 DEF Moved
<1> QED BY <1>1, RequestsInvariant, PTL
===============================================================================
