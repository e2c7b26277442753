-------------------------------- MODULE UdpSend --------------------------------
(***************************************************************************)
(* udp_send/version1: my_init opens a socket and starts a thread, send_udp *)
(* sends a packet every second until it is stopped or a send fails, and    *)
(* my_exit stops it.                                                       *)
(*                                                                         *)
(* kthreadtask is shared without a lock: my_init and the thread write it,  *)
(* my_exit reads it, once or twice as the compiler pleases.                *)
(***************************************************************************)
VARIABLE udp
\* stage     how far my_init or my_exit is: "out", "created", "bound", "connected",
\*           "allocated", "started", "live", "tested", "stopping", "returned", "freed", "oops"
\* task      kthreadtask: "NULL" or "thread"
\* sender    where send_udp is: "none", "ready" (not run yet), "test", "send", "sleep",
\*           "clear", "release", "exited", "never" (stopped before its first step)
\* stop      the thread's should-stop bit
\* tinfo     "none", "live", "freed"
\* failed    a kernel_sendmsg failed
\* fault     NULL, a task that is gone, freed memory or freed text was used

UdpInit ==
  udp = [stage |-> "out", task |-> "NULL", sender |-> "none", stop |-> FALSE,
         tinfo |-> "none", failed |-> FALSE, fault |-> FALSE]
-------------------------------------------------------------------------------
(* my_init.  Every label but create_error sets kthreadtask to NULL; none of   *)
(* them, and not the thread either, gives the socket back.                    *)

Fail(tinfo) == udp' = [udp EXCEPT !.stage = "out", !.task = "NULL", !.tinfo = tinfo]

\* A sock_create_kern that fails leaves nothing behind: the step is not taken.
sock_create_kern ==
  /\ udp.stage = "out"
  /\ udp' = [udp EXCEPT !.stage = "created"]

bind_to_device ==
  /\ udp.stage = "created"
  /\ udp' = [udp EXCEPT !.stage = "bound"] \/ Fail(udp.tinfo)

connect_to_addr ==
  /\ udp.stage = "bound"
  /\ udp' = [udp EXCEPT !.stage = "connected"] \/ Fail(udp.tinfo)

kmalloc ==
  /\ udp.stage = "connected"
  /\ udp' = [udp EXCEPT !.stage = "allocated", !.tinfo = "live"] \/ Fail(udp.tinfo)

\* The thread is created and woken before kthreadtask is assigned.
kthread_run ==
  /\ udp.stage = "allocated"
  /\ udp' = [udp EXCEPT !.stage = "started", !.sender = "ready"] \/ Fail("freed")

assign_kthreadtask ==
  /\ udp.stage = "started"
  /\ udp' = [udp EXCEPT !.stage = "live", !.task = "thread"]
-------------------------------------------------------------------------------
(* send_udp *)

Send(from, to) ==
  /\ udp.sender = from
  /\ udp' = [udp EXCEPT !.sender = to, !.fault = @ \/ udp.stage = "freed"]

first_run == Send("ready", "test")

kthread_should_stop == Send("test", IF udp.stop THEN "clear" ELSE "send")

kernel_sendmsg ==
  \/ Send("send", "sleep")
  \/ /\ udp.sender = "send"
     /\ udp' = [udp EXCEPT !.sender = "clear", !.failed = TRUE,
                           !.fault = @ \/ udp.stage = "freed"]

\* The sleep ends after a second, or with the wake-up of kthread_stop.
schedule_timeout_interruptible == Send("sleep", "test")

clear_kthreadtask ==
  /\ udp.sender = "clear"
  /\ udp' = [udp EXCEPT !.sender = "release", !.task = "NULL",
                        !.fault = @ \/ udp.stage = "freed"]

\* release_sock, kfree(tinfo) and the return.
release_tinfo ==
  /\ udp.sender = "release"
  /\ udp' = [udp EXCEPT !.sender = "exited", !.tinfo = "freed",
                        !.fault = @ \/ udp.stage = "freed" \/ udp.tinfo # "live"]
-------------------------------------------------------------------------------
(* my_exit *)

test_kthreadtask ==
  /\ udp.stage = "live"
  /\ udp' = [udp EXCEPT !.stage = IF udp.task = "NULL" THEN "returned" ELSE "tested"]

\* The argument is the pointer that was tested, or the one that is there now.
\* A thread that has not run yet will not call send_udp.
kthread_stop ==
  /\ udp.stage = "tested"
  /\ \E k \in {"thread", udp.task} :
       udp' = IF k = "NULL" \/ udp.sender = "exited"
              THEN [udp EXCEPT !.stage = "oops", !.fault = TRUE]
              ELSE [udp EXCEPT !.stage = "stopping", !.stop = TRUE,
                               !.sender = IF @ = "ready" THEN "never" ELSE @]

return_at_stop ==
  /\ udp.stage = "stopping"
  /\ udp' = [udp EXCEPT !.stage = "returned"]
wait_for_thread ==
  /\ udp.stage = "stopping" /\ udp.sender \in {"exited", "never"}
  /\ udp' = [udp EXCEPT !.stage = "returned"]

udp_free ==
  /\ udp.stage = "returned"
  /\ udp' = [udp EXCEPT !.stage = "freed"]
-------------------------------------------------------------------------------
UdpLoad ==
  \/ sock_create_kern \/ bind_to_device \/ connect_to_addr \/ kmalloc
  \/ kthread_run \/ assign_kthreadtask

send_udp ==
  \/ first_run \/ kthread_should_stop \/ kernel_sendmsg
  \/ schedule_timeout_interruptible \/ clear_kthreadtask \/ release_tinfo

UdpExit == kthread_stop \/ wait_for_thread

UdpNext == UdpLoad \/ send_udp \/ test_kthreadtask \/ UdpExit \/ udp_free

UdpSpec == UdpInit /\ [][UdpNext]_udp

\* The thread is scheduled and its sleeps end.
UdpFairness == WF_udp(send_udp) /\ WF_udp(UdpExit)
-------------------------------------------------------------------------------
\* As long as every packet goes out, nothing that is gone is used, whenever
\* my_exit comes, and tinfo is freed, once, unless the thread was stopped before
\* its first step.  It is the send that fails that makes kthreadtask stale.
SenderCleansUp ==
  ~udp.failed =>
    /\ ~udp.fault
    /\ udp.stage \in {"returned", "freed"} => (udp.tinfo = "live" <=> udp.sender = "never")

\* my_exit returns, also when its wake-up comes between the thread's test and
\* its sleep and is lost: the sleep has a timeout.
StopReturns == udp.stage \in {"tested", "stopping"} ~> udp.stage \in {"returned", "oops"}
===============================================================================
