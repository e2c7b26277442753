----------------------------- MODULE DeferredWork -----------------------------
(***************************************************************************)
(* The modules whose init function leaves a callback with the kernel, and  *)
(* whose exit function has to take it back before the module's memory is   *)
(* freed: the two timers, tasklet, workqueue, worker and soft_irq.  They   *)
(* differ in what the callback leaves behind and in what exit waits for.   *)
(*                                                                         *)
(* The kernel calls a pending callback on another processor at any time,   *)
(* and never twice at once.                                                *)
(***************************************************************************)
EXTENDS Naturals

VARIABLE work
\* kind      which of the modules is loaded
\* stage     "out", "live", "exit" (in the exit function), "returned" from it,
\*           "freed" (so is the memory), "oops"
\* pending   the timer is armed, the item queued, the softirq raised
\* at        where the callback is: "idle", "body", or "tail", past its mod_timer
\* started   worker: kthread_worker_fn has set worker->task
\* runs      how often the callback was called, counted to 2
\* left      the exit function returned without having waited for what was there
\* stray     the callback or the worker touched the module after it was freed

WorkInit ==
  work = [kind |-> "none", stage |-> "out", pending |-> FALSE, at |-> "idle",
          started |-> TRUE, runs |-> 0, left |-> FALSE, stray |-> FALSE]

Loaded(kind, stage) == work.kind = kind /\ work.stage = stage
Stray == work.stray \/ work.stage = "freed"
Quiet == ~work.pending /\ work.at = "idle"
-------------------------------------------------------------------------------
(* The init functions *)

Load(kind) ==
  /\ work.stage = "out"
  /\ work' = [work EXCEPT !.kind = kind, !.stage = "live", !.pending = TRUE,
                          !.started = kind # "worker"]

module_lrtimer_init == Load("timer")
module_hrtimer_init == Load("hrtimer")
tasklet_my_init == Load("tasklet")
workqueue_my_init == Load("workqueue")
worker_my_init == Load("worker")
soft_irq_my_init == Load("softirq")
-------------------------------------------------------------------------------
(* The callbacks *)

kthread_worker_fn ==
  /\ work.kind = "worker" /\ ~work.started
  /\ work' = [work EXCEPT !.started = TRUE, !.stray = Stray]

\* The kernel takes the item off before it calls the function.
invoke ==
  /\ work.pending /\ work.at = "idle" /\ work.started
  /\ work' = [work EXCEPT !.pending = FALSE, !.at = "body", !.stray = Stray,
                          !.runs = IF @ = 2 THEN 2 ELSE @ + 1]

Callback(kind, from, to, again) ==
  /\ work.kind = kind /\ work.at = from
  /\ work' = [work EXCEPT !.at = to, !.pending = @ \/ again, !.stray = Stray]

timer_cb == Callback("timer", "body", "tail", TRUE)
timer_cb_returns == Callback("timer", "tail", "idle", FALSE)
\* HRTIMER_RESTART: the kernel arms the timer again when the callback is back.
my_hrtimer_callback == Callback("hrtimer", "body", "idle", TRUE)
my_handler == Callback("tasklet", "body", "idle", FALSE)
my_func_again == Callback("workqueue", "body", "idle", TRUE)
my_func == Callback("workqueue", "body", "idle", FALSE)
worker_my_func == Callback("worker", "body", "idle", FALSE)
hello_printk == Callback("softirq", "body", "idle", FALSE)
-------------------------------------------------------------------------------
(* The exit functions *)

Enter(kind) ==
  /\ Loaded(kind, "live")
  /\ work' = [work EXCEPT !.stage = "exit"]

Leave(pending, left) ==
  work' = [work EXCEPT !.stage = "returned", !.pending = pending, !.left = left]

\* del_timer disarms the timer and does not wait for the callback.
module_lrtimer_exit ==
  /\ Loaded("timer", "live")
  /\ Leave(FALSE, work.at # "idle")

module_hrtimer_exit == Enter("hrtimer")
try_to_cancel ==
  /\ Loaded("hrtimer", "exit")
  /\ Leave(FALSE, FALSE)
hrtimer_cancel ==
  /\ Loaded("hrtimer", "exit") /\ work.at = "idle"
  /\ Leave(FALSE, FALSE)

tasklet_my_exit == Enter("tasklet")
\* It waits until the tasklet was taken to be run, then until it has run.
tasklet_kill ==
  /\ Loaded("tasklet", "exit") /\ Quiet
  /\ Leave(FALSE, FALSE)

workqueue_my_exit == Enter("workqueue")
destroy_workqueue ==
  /\ Loaded("workqueue", "exit") /\ Quiet
  /\ Leave(FALSE, FALSE)

worker_my_exit == Enter("worker")
\* A worker that has not started yet has no task: the call warns and returns.
destroy_unstarted ==
  /\ Loaded("worker", "exit") /\ ~work.started
  /\ Leave(work.pending, TRUE)
stop_without_flush ==
  /\ Loaded("worker", "exit") /\ work.started /\ work.at = "idle"
  /\ \/ Leave(FALSE, FALSE)
     \/ work' = [work EXCEPT !.stage = "oops", !.pending = FALSE]
\* Flush, stop, and kfree(&my_worker) of what was never allocated, which the
\* allocator takes or oopses on.
kthread_destroy_worker ==
  /\ Loaded("worker", "exit") /\ work.started /\ Quiet
  /\ \/ Leave(FALSE, FALSE)
     \/ work' = [work EXCEPT !.stage = "oops"]

\* The softirq is raised once more, and its handler stays registered.
soft_irq_my_exit ==
  /\ Loaded("softirq", "live")
  /\ Leave(TRUE, TRUE)

free_module ==
  /\ work.stage = "returned"
  /\ work' = [work EXCEPT !.stage = "freed"]
-------------------------------------------------------------------------------
WorkLoad ==
  \/ module_lrtimer_init \/ module_hrtimer_init \/ tasklet_my_init
  \/ workqueue_my_init \/ worker_my_init \/ soft_irq_my_init

WorkRuns ==
  \/ kthread_worker_fn \/ invoke \/ timer_cb \/ timer_cb_returns \/ my_hrtimer_callback
  \/ my_handler \/ my_func \/ worker_my_func \/ hello_printk

WorkUnload ==
  \/ module_lrtimer_exit \/ module_hrtimer_exit \/ tasklet_my_exit
  \/ workqueue_my_exit \/ worker_my_exit \/ soft_irq_my_exit \/ free_module

WorkWaits ==
  \/ hrtimer_cancel \/ tasklet_kill \/ destroy_workqueue
  \/ destroy_unstarted \/ kthread_destroy_worker

WorkNext == WorkLoad \/ WorkRuns \/ WorkUnload \/ WorkWaits

WorkSpec == WorkInit /\ [][WorkNext]_work

\* Callbacks are called and return; an exit function that waits polls or is
\* woken often enough to see a moment in which it may go on.
WorkFairness == WF_work(WorkRuns) /\ SF_work(WorkWaits)
-------------------------------------------------------------------------------
\* An exit function that waits (hrtimer_cancel, tasklet_kill, destroy_workqueue,
\* kthread_destroy_worker) leaves nothing that could touch the freed module; a
\* stray access takes a timer callback running at del_timer, a worker that had
\* not started, or soft_irq.
NoStrayWork == work.stray => work.left

\* The item that init queued has run, once, when the module is unloaded: exit
\* waits for it and does not cancel it.
WorkDone ==
  /\ work.kind \in {"tasklet", "workqueue", "worker"}
  /\ work.stage \in {"returned", "freed", "oops"} /\ ~work.left
  => work.runs = 1

\* Every exit function returns, or oopses.
UnloadReturns == work.stage = "exit" ~> work.stage # "exit"
===============================================================================
