------------------------------- MODULE UmhThread -------------------------------
(***************************************************************************)
(* umh/simple.c: a thread that runs a user mode helper every five seconds  *)
(* until it is signalled, by the exit function or by a user.               *)
(*                                                                         *)
(* A kernel thread ignores signals until allow_signal.  The exit function  *)
(* does not wait for the thread.                                           *)
(***************************************************************************)
VARIABLE umh
\* stage     "out", "live", "returned" from the exit function, "freed"
\* at        where slam_func is: "none" (no thread), "start", "test", "helper",
\*           "sleep", "done", or "fault" when it ran on in freed memory
\* sig       SIGKILL is pending
\* early     the exit function came before allow_signal
\* stale     it signalled a task that was gone

UmhInit ==
  umh = [stage |-> "out", at |-> "none", sig |-> FALSE, early |-> FALSE, stale |-> FALSE]

\* A kthread_run that fails leaves an error in slam_thread.
kthread_signal_example_init ==
  /\ umh.stage = "out"
  /\ \E at \in {"none", "start"} : umh' = [umh EXCEPT !.stage = "live", !.at = at]

\* A step of slam_func, which faults when its text is gone.
Slam(from, to, sig) ==
  /\ umh.at = from
  /\ umh' = [umh EXCEPT !.at = IF umh.stage = "freed" THEN "fault" ELSE to, !.sig = sig]

\* From here on a signal counts.
allow_signal == Slam("start", "test", FALSE)

signal_pending == Slam("test", IF umh.sig THEN "done" ELSE "helper", umh.sig)

\* UMH_WAIT_PROC: a signal does not end the wait for the helper.
run_umh_app == Slam("helper", "sleep", umh.sig)

\* The sleep ends with its timeout or with a signal, at once if that is pending.
slam_sleep == Slam("sleep", "test", umh.sig)

Listening == umh.at \in {"test", "helper", "sleep"}

\* kill -9 by a user.
killed ==
  /\ umh.stage = "live" /\ Listening
  /\ umh' = [umh EXCEPT !.sig = TRUE]

kthread_signal_example_exit ==
  /\ umh.stage = "live"
  /\ umh' = [umh EXCEPT !.stage = "returned", !.sig = @ \/ Listening,
                        !.early = umh.at = "start", !.stale = umh.at = "done"]

umh_free ==
  /\ umh.stage = "returned"
  /\ umh' = [umh EXCEPT !.stage = "freed"]

slam_func == allow_signal \/ signal_pending \/ run_umh_app \/ slam_sleep

UmhNext ==
  \/ kthread_signal_example_init \/ slam_func \/ killed
  \/ kthread_signal_example_exit \/ umh_free

UmhSpec == UmhInit /\ [][UmhNext]_umh

\* The thread is scheduled, the helper ends and the sleep times out.
UmhFairness == WF_umh(slam_func)
-------------------------------------------------------------------------------
\* A thread that was signalled, wherever the signal hit its loop, ends, if its
\* memory lasts that long.  It outlives the exit function for good only when that
\* came before allow_signal; and only a user can have ended it before.
SignalEnds ==
  /\ umh.sig ~> umh.at \in {"done", "fault"}
  /\ umh.stage = "returned" ~> umh.at \in {"none", "done", "fault"} \/ umh.early
  /\ [](umh.stale => umh.sig)
===============================================================================
