--------------------------------- MODULE WakeUp ---------------------------------
(***************************************************************************)
(* wake_up/simple.c: my_init puts itself on a wait queue, starts a thread  *)
(* that calls __wake_up, and sleeps with a timeout.                        *)
(*                                                                         *)
(* The wait queue entry `data' lives in my_init's frame and is never taken *)
(* off the queue.  The thread is scheduled within Latency jiffies, which   *)
(* is less than the timeout.                                               *)
(***************************************************************************)
EXTENDS Naturals

CONSTANTS
  Timeout,    \* the jiffies that my_init sleeps at most: 1000*3
  Latency     \* the jiffies after which a woken thread has run

ASSUME TimeAssumption == Timeout \in Nat \ {0} /\ Latency \in Nat /\ Latency < Timeout

VARIABLES
  init_pc,    \* where my_init is
  state,      \* its task state
  queue,      \* the entries on `head': {} or {"data"}
  frame,      \* is my_init's frame, and `data' in it, still there
  timer,      \* the jiffies its sleep has left
  thread,     \* where func_weakup is
  waiting,    \* the jiffies since it was woken
  fault       \* a walk of the queue met an entry that is gone

wakeVars == <<init_pc, state, queue, frame, timer, thread, waiting, fault>>

WakeInit ==
  /\ init_pc = "create"
  /\ state = "RUNNING"
  /\ queue = {}
  /\ frame = TRUE
  /\ timer = Timeout
  /\ thread = "none"
  /\ waiting = 0
  /\ fault = FALSE
-------------------------------------------------------------------------------
(* my_init *)

kthread_create ==
  /\ init_pc = "create"
  /\ thread' = "created"
  /\ init_pc' = "enqueue"
  /\ UNCHANGED <<state, queue, frame, timer, waiting, fault>>

add_wait_queue ==
  /\ init_pc = "enqueue"
  /\ queue' = {"data"}
  /\ init_pc' = "wake"
  /\ UNCHANGED <<state, frame, timer, thread, waiting, fault>>

wake_up_process ==
  /\ init_pc = "wake"
  /\ thread' = "runnable"
  /\ init_pc' = "set_state"
  /\ UNCHANGED <<state, queue, frame, timer, waiting, fault>>

return_at_once ==
  /\ init_pc = "set_state"
  /\ init_pc' = "return"
  /\ UNCHANGED <<state, queue, frame, timer, thread, waiting, fault>>
\* schedule_timeout_uninterruptible: first the state, then the sleep.
set_current_state ==
  /\ init_pc = "set_state"
  /\ state' = "UNINTERRUPTIBLE"
  /\ init_pc' = "sleep"
  /\ UNCHANGED <<queue, frame, timer, thread, waiting, fault>>

\* The task goes on when it is running again; the timer is deleted.
schedule_timeout ==
  /\ init_pc = "sleep" /\ state = "RUNNING"
  /\ init_pc' = "return"
  /\ UNCHANGED <<state, queue, frame, timer, thread, waiting, fault>>

my_init_returns ==
  /\ init_pc = "return"
  /\ frame' = FALSE
  /\ init_pc' = "done"
  /\ UNCHANGED <<state, queue, timer, thread, waiting, fault>>
-------------------------------------------------------------------------------
(* The clock: process_timeout wakes the sleeper when its time is up. *)

Asleep == init_pc = "sleep" /\ state = "UNINTERRUPTIBLE"

process_timeout == state' = IF Asleep /\ timer = 1 THEN "RUNNING" ELSE state

\* A woken thread does not wait longer than Latency.
tick ==
  /\ thread = "runnable" \/ Asleep
  /\ thread = "runnable" => waiting < Latency
  /\ Asleep => timer > 0
  /\ timer' = IF Asleep THEN timer - 1 ELSE timer
  /\ process_timeout
  /\ waiting' = IF thread = "runnable" THEN waiting + 1 ELSE waiting
  /\ UNCHANGED <<init_pc, queue, frame, thread, fault>>
-------------------------------------------------------------------------------
(* func_weakup.  A wake-up makes a sleeping task run; one that is running is  *)
(* left alone.                                                                *)

wake_up ==
  /\ thread = "runnable"
  /\ IF queue = {} \/ frame
     THEN /\ state' = IF queue = {} THEN state ELSE "RUNNING"
          /\ UNCHANGED fault
     ELSE fault' = TRUE /\ UNCHANGED state
  /\ thread' = "done"
  /\ UNCHANGED <<init_pc, queue, frame, timer, waiting>>

Main ==
  \/ kthread_create \/ add_wait_queue \/ wake_up_process
  \/ set_current_state \/ schedule_timeout \/ my_init_returns

WakeNext == Main \/ tick \/ wake_up

WakeSpec == WakeInit /\ [][WakeNext]_wakeVars

\* The processor, the clock and the scheduler go on.
FairWakeSpec == WakeSpec /\ WF_wakeVars(Main) /\ WF_wakeVars(tick) /\ WF_wakeVars(wake_up)
-------------------------------------------------------------------------------
WakeType ==
  /\ init_pc \in {"create", "enqueue", "wake", "set_state", "sleep", "return", "done"}
  /\ state \in {"RUNNING", "UNINTERRUPTIBLE"}
  /\ queue \subseteq {"data"}
  /\ timer \in 0 .. Timeout
  /\ thread \in {"none", "created", "runnable", "done"}
  /\ waiting \in 0 .. Latency
  /\ frame \in BOOLEAN /\ fault \in BOOLEAN

\* __wake_up never walks over an entry in a frame that is gone: my_init sleeps
\* long enough, although it leaves `data' on the queue when it returns.
NoDanglingWalk == ~fault

\* insmod comes back, whether the wake-up reached the sleeper or not.
InitReturns == init_pc = "create" ~> init_pc = "done"

\* func_weakup: without its __wake_up "schedule_timeout_uninterruptible" would
\* "wait the full time", so with it my_init returns before the timeout.
WokenBeforeTimeout == init_pc = "return" => timer > 0
===============================================================================
