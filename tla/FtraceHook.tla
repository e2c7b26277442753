------------------------------- MODULE FtraceHook -------------------------------
(***************************************************************************)
(* ftrace/ftrace_hook.c: the module installs an array of hooks one ftrace  *)
(* call at a time, rolls back when one of them fails, and removes them     *)
(* when it is unloaded, while tasks enter the hooked functions.            *)
(*                                                                         *)
(* hooks[i - 1] is hook i, and function i is the one that it hooks;        *)
(* function 0 is any other.  hook->address and *hook->original are         *)
(* assigned the same address and are one variable here.                    *)
(***************************************************************************)
EXTENDS Naturals, Sequences

CONSTANTS
  Tasks,      \* the tasks that make system calls
  Count       \* ARRAY_SIZE(demo_hooks)

ASSUME CountAssumption == Count \in Nat \ {0}

VARIABLES
  at,         \* where the module's fh_init or fh_exit is: a Place
  i,          \* the hook it works on
  original,   \* *hook->original: the function, or NULL
  filter,     \* the functions in the filter of hook->ops
  registered, \* the hooks whose ops are registered
  pc,         \* where each task is: a TaskPlace
  fn,         \* the function it is entering or running
  stack,      \* the hooks it is inside of, outermost first
  ran,        \* how often its system call has run the real function
  stale       \* the tasks inside of a hook whose module was unloaded meanwhile

loader == <<at, i, original, filter, registered>>
task == <<pc, fn, stack, ran>>
vars == <<at, i, original, filter, registered, pc, fn, stack, ran, stale>>

Hooks == 1 .. Count
Functions == 0 .. Count
NULL == Count + 1

Place == {"unloaded", "resolve", "filter", "register", "unfilter_failed",
          "undo", "undo_filter", "live", "exit", "exit_filter"}
TaskPlace == {"user", "entry", "hook", "body", "after", "oops"}

Loaded == at # "unloaded"

Init ==
  /\ at = "unloaded"
  /\ i = 0
  /\ original = [h \in Hooks |-> NULL]
  /\ filter = [h \in Hooks |-> {}]
  /\ registered = {}
  /\ pc = [t \in Tasks |-> "user"]
  /\ fn = [t \in Tasks |-> 0]
  /\ stack = [t \in Tasks |-> <<>>]
  /\ ran = [t \in Tasks |-> 1]
  /\ stale = {}

\* The loader goes on; when it returns to insmod's failure or rmmod's end, the
\* module's text is freed under the tasks that are inside of a hook.
Go(place, k) ==
  /\ at' = place /\ i' = k
  /\ stale' = IF place = "unloaded" THEN stale \cup {t \in Tasks : stack[t] # <<>>}
                                    ELSE stale
-------------------------------------------------------------------------------
(* fh_install_hooks, called by fh_init *)

\* A module image is fresh each time it is loaded.
fh_init ==
  /\ at = "unloaded"
  /\ Go("resolve", 1)
  /\ original' = [h \in Hooks |-> NULL]
  /\ filter' = [h \in Hooks |-> {}]
  /\ UNCHANGED <<registered, task>>

\* The error label: hooks[i - 1] down to the first are removed.
ErrorKeepsFirst ==
  IF i <= 2 THEN Go("unloaded", 0) ELSE Go("undo", i - 1)
Error ==
  IF i = 1 THEN Go("unloaded", 0) ELSE Go("undo", i - 1)

\* The address of the function, or 0 for a symbol that kprobes does not find.
lookup_name(h) == {h, NULL}

resolve_after_registering ==
  /\ at = "resolve"
  /\ Go("filter", i)
  /\ UNCHANGED <<original, filter, registered, task>>
fh_resolve_hook_address ==
  /\ at = "resolve"
  /\ \E address \in lookup_name(i) :
       IF address # NULL
       THEN Go("filter", i) /\ original' = [original EXCEPT ![i] = address]
       ELSE Error /\ UNCHANGED original
  /\ UNCHANGED <<filter, registered, task>>

set_filter_ip ==
  /\ at = "filter"
  /\ \/ Go("register", i) /\ filter' = [filter EXCEPT ![i] = {i}]
     \/ Error /\ UNCHANGED filter
  /\ UNCHANGED <<original, registered, task>>

\* ftrace refuses a second IPMODIFY user of a function, or anything else.
register_ftrace_function ==
  /\ at = "register"
  /\ \/ /\ registered' = registered \cup {i}
        /\ IF i = Count THEN Go("live", 0) ELSE Go("resolve", i + 1)
     \/ Go("unfilter_failed", i) /\ UNCHANGED registered
  /\ UNCHANGED <<original, filter, task>>

unfilter_failed ==
  /\ at = "unfilter_failed"
  /\ filter' = [filter EXCEPT ![i] = {}]
  /\ Error
  /\ UNCHANGED <<original, registered, task>>
-------------------------------------------------------------------------------
(* fh_remove_hook, in the rollback and in fh_exit *)

fh_exit ==
  /\ at = "live"
  /\ Go("exit", 1)
  /\ UNCHANGED <<original, filter, registered, task>>

remove_filter_first(from, to) ==
  /\ at = from
  /\ filter' = [filter EXCEPT ![i] = {}]
  /\ Go(to, i)
  /\ UNCHANGED <<original, registered, task>>
unregister_ftrace_function(from, to) ==
  /\ at = from
  /\ registered' = registered \ {i}
  /\ Go(to, i)
  /\ UNCHANGED <<original, filter, task>>

remove_filter_ip(from) ==
  /\ at = from
  /\ filter' = [filter EXCEPT ![i] = {}]
  /\ UNCHANGED <<original, registered, task>>

undo == unregister_ftrace_function("undo", "undo_filter")

undo_forever ==
  /\ remove_filter_ip("undo_filter")
  /\ Go("undo", i)
undo_filter == remove_filter_ip("undo_filter") /\ Error

exit == unregister_ftrace_function("exit", "exit_filter")

exit_filter ==
  /\ remove_filter_ip("exit_filter")
  /\ IF i = Count THEN Go("unloaded", 0) ELSE Go("exit", i + 1)
-------------------------------------------------------------------------------
(* The tasks *)

\* The hooks whose ops ftrace calls when f is entered; an empty filter matches
\* every function.
Traced(f) == {h \in registered : filter[h] = {} \/ f \in filter[h]}

syscall(t, f) ==
  /\ pc[t] = "user"
  /\ pc' = [pc EXCEPT ![t] = "entry"]
  /\ fn' = [fn EXCEPT ![t] = f]
  /\ ran' = [ran EXCEPT ![t] = 0]
  /\ UNCHANGED <<stack, stale, loader>>

\* The caller is within the module when the task is inside of a hook: sibling
\* calls are not optimised, so the hook's frame is the return address.  (Nothing
\* is claimed of a task with a stale frame.)
never_within_module(t) == FALSE
within_module(t) == stack[t] # <<>>

fh_ftrace_thunk(t) ==
  /\ pc[t] = "entry"
  /\ \/ \E h \in Traced(fn[t]) :
          /\ ~within_module(t)
          /\ pc' = [pc EXCEPT ![t] = "hook"]
          /\ stack' = [stack EXCEPT ![t] = Append(stack[t], h)]
     \/ /\ Traced(fn[t]) = {} \/ within_module(t)
        /\ pc' = [pc EXCEPT ![t] = "body"]
        /\ UNCHANGED stack
  /\ UNCHANGED <<fn, ran, stale, loader>>

Hook(t) == stack[t][Len(stack[t])]

\* fh_sys_clone and fh_sys_execve up to the call of the real function.  The
\* hook's code is gone when the module is.
fh_sys_before(t) ==
  /\ pc[t] = "hook"
  /\ IF t \notin stale /\ original[Hook(t)] # NULL
     THEN /\ pc' = [pc EXCEPT ![t] = "entry"]
          /\ fn' = [fn EXCEPT ![t] = original[Hook(t)]]
     ELSE /\ pc' = [pc EXCEPT ![t] = "oops"]
          /\ UNCHANGED fn
  /\ UNCHANGED <<stack, ran, stale, loader>>

body(t) ==
  /\ pc[t] = "body"
  /\ ran' = [ran EXCEPT ![t] = ran[t] + 1]
  /\ pc' = [pc EXCEPT ![t] = IF stack[t] = <<>> THEN "user" ELSE "after"]
  /\ UNCHANGED <<fn, stack, stale, loader>>

\* ... and from its return to their own.
fh_sys_after(t) ==
  /\ pc[t] = "after"
  /\ IF t \notin stale
     THEN /\ stack' = [stack EXCEPT ![t] = SubSeq(stack[t], 1, Len(stack[t]) - 1)]
          /\ pc' = [pc EXCEPT ![t] = IF Len(stack[t]) = 1 THEN "user" ELSE "after"]
     ELSE pc' = [pc EXCEPT ![t] = "oops"] /\ UNCHANGED stack
  /\ UNCHANGED <<fn, ran, stale, loader>>
-------------------------------------------------------------------------------
Loader ==
  \/ fh_resolve_hook_address \/ set_filter_ip \/ register_ftrace_function
  \/ unfilter_failed \/ undo \/ undo_filter \/ exit \/ exit_filter

Step(t) == fh_ftrace_thunk(t) \/ fh_sys_before(t) \/ body(t) \/ fh_sys_after(t)

Next ==
  \/ fh_init \/ fh_exit \/ Loader
  \/ \E t \in Tasks : Step(t) \/ \E f \in Functions : syscall(t, f)

Spec == Init /\ [][Next]_vars

\* insmod and rmmod run to their end; tasks may stop anywhere.
FairSpec == Spec /\ WF_vars(Loader)
-------------------------------------------------------------------------------
TypeOK ==
  /\ at \in Place
  /\ i \in 0 .. Count
  /\ original \in [Hooks -> Functions \cup {NULL}]
  /\ filter \in [Hooks -> SUBSET Functions]
  /\ registered \subseteq Hooks
  /\ pc \in [Tasks -> TaskPlace]
  /\ fn \in [Tasks -> Functions]
  /\ stack \in [Tasks -> Seq(Hooks)]
  /\ ran \in [Tasks -> Nat]
  /\ stale \subseteq Tasks

\* "If some hooks fail to install then all hooks will be removed", and so they
\* are by fh_exit: no ops and no filter outlives the module.
NothingLeft ==
  ~Loaded => registered = {} /\ \A h \in Hooks : filter[h] = {}

\* ops are registered only with the filter of their own function, at every step
\* of an installation, a rollback and a removal: with an empty filter ftrace
\* would send every function of the kernel to the hook.
FilteredWhileRegistered == \A h \in registered : filter[h] = {h}

\* A hook that a task can reach knows its original: the only task that ever
\* faults is one whose module was unloaded under it.
OriginalKnown ==
  /\ \A h \in registered : original[h] = h
  /\ \A t \in Tasks : pc[t] = "oops" => t \in stale

\* No vicious recursion, whatever the module does meanwhile: a system call
\* enters the hook of its own function, at most one, and runs the real function
\* once.
RunsOnce ==
  \A t \in Tasks \ stale :
    /\ stack[t] \in {<<>>, <<fn[t]>>}
    /\ pc[t] \in {"entry", "hook", "body"} => ran[t] = 0
    /\ pc[t] \in {"user", "after"} => ran[t] = 1

\* Loading and unloading end.
LoaderReturns == at \notin {"unloaded", "live"} ~> at \in {"unloaded", "live"}
===============================================================================
