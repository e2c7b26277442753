----------------------------- MODULE UnloadProofs -----------------------------
(***************************************************************************)
(* Proofs about the modules that hand something to the kernel, to a thread *)
(* or to a device and take it back when they leave: wake_up, for any       *)
(* timeout and any scheduling latency below it; the deferred work of the   *)
(* timers, tasklet, workqueue, worker and soft_irq; umh and udp_send; the  *)
(* two PCI drivers, for any number of probes, of interrupts of other       *)
(* devices and of BARs.                                                    *)
(***************************************************************************)
EXTENDS WakeUp, DeferredWork, UmhThread, UdpSend, PciHello, PciCodec, TLAPS

-------------------------------------------------------------------------------
(* wake_up *)

\* While func_weakup has not run my_init cannot have gone past its sleep: the
\* thread has waited at least as long as the sleep has lasted, which is at most
\* Latency, so the sleep has time left.
SleepInv ==
  /\ thread \in {"none", "created"} => init_pc \in {"create", "enqueue", "wake"}
  /\ thread = "runnable" => init_pc \in {"set_state", "sleep"}
  /\ thread = "runnable" /\ init_pc = "sleep" =>
       state = "UNINTERRUPTIBLE" /\ timer > 0 /\ Timeout - timer <= waiting

\* Before the sleep its whole time is left, and the frame goes when my_init returns.
FrameInv ==
  /\ init_pc \in {"create", "enqueue", "wake", "set_state"} => timer = Timeout
  /\ frame <=> init_pc # "done"

WakeInv == WakeType /\ SleepInv /\ FrameInv /\ NoDanglingWalk

\* Every step of my_init, of the clock and of func_weakup keeps the invariant.
LEMMA WakeStep ==
  ASSUME WakeInv, [WakeNext]_wakeVars PROVE WakeInv'
<1> USE TimeAssumption DEF WakeInv, WakeType, SleepInv, FrameInv, NoDanglingWalk
<1>1. CASE kthread_create
  BY <1>1 DEF kthread_create
<1>2. CASE add_wait_queue
  BY <1>2 DEF add_wait_queue
<1>3. CASE wake_up_process
  BY <1>3 DEF wake_up_process
<1>4. CASE set_current_state
  BY <1>4 DEF set_current_state
<1>5. CASE schedule_timeout
  BY <1>5 DEF schedule_timeout
<1>6. CASE my_init_returns
  BY <1>6, Zenon DEF my_init_returns
<1>7. CASE tick
  <2> USE <1>7 DEF tick, Asleep, process_timeout
  <2>1. WakeType'
    OBVIOUS
  <2>2. SleepInv'
    OBVIOUS
  <2>3. FrameInv' /\ NoDanglingWalk'
    OBVIOUS
  <2> QED BY <2>1, <2>2, <2>3
<1>8. CASE wake_up
  BY <1>8 DEF wake_up
<1>9. CASE UNCHANGED wakeVars
  BY <1>9 DEF wakeVars
<1> QED BY <1>1, <1>2, <1>3, <1>4, <1>5, <1>6, <1>7, <1>8, <1>9 DEF WakeNext, Main

\* __wake_up in func_weakup never meets an entry in a frame that is gone, although
\* my_init leaves `data' on the queue when it returns.
THEOREM WalksLiveEntries == WakeSpec => []NoDanglingWalk
<1>1. WakeInit => WakeInv
  <2> SUFFICES ASSUME WakeInit PROVE WakeInv
    OBVIOUS
  <2>0. timer \in 0 .. Timeout /\ waiting \in 0 .. Latency
    BY TimeAssumption DEF WakeInit
  <2>1. WakeType
    BY <2>0, Zenon DEF WakeInit, WakeType
  <2>2. SleepInv
    BY DEF WakeInit, SleepInv
  <2>3. FrameInv /\ NoDanglingWalk
    BY DEF WakeInit, FrameInv, NoDanglingWalk
  <2> QED BY <2>1, <2>2, <2>3 DEF WakeInv
<1>2. WakeInv /\ [WakeNext]_wakeVars => WakeInv'
  BY WakeStep
<1>3. WakeInv => NoDanglingWalk
  BY DEF WakeInv
<1> QED BY <1>1, <1>2, <1>3, PTL DEF WakeSpec

-------------------------------------------------------------------------------
(* timers, tasklet, workqueue, worker and soft_irq *)

Kinds == {"none", "timer", "hrtimer", "tasklet", "workqueue", "worker", "softirq"}
WorkType ==
  [kind : Kinds,
   stage : {"out", "live", "exit", "returned", "freed", "oops"},
   pending : BOOLEAN, at : {"idle", "body", "tail"}, started : BOOLEAN, runs : 0 .. 2,
   left : BOOLEAN, stray : BOOLEAN]

\* Nothing of the module is with the kernel: no callback is due or runs, and no
\* worker has yet to start.
AllQuiet == Quiet /\ work.started

\* Before init, and after an exit function that has waited, nothing is with the
\* kernel, so that what touches a freed module was left.
StrayInv ==
  /\ work.stage = "out" => AllQuiet
  /\ work.stage \in {"returned", "freed"} => work.left \/ AllQuiet
  /\ ~work.started => work.kind = "worker" /\ work.at = "idle"
  /\ work.stage \notin {"returned", "freed"} => ~work.left
  /\ work.stray => work.left

\* An item that is queued once, and not cancelled, is due until it is called.
OnceInv ==
  work.kind \in {"tasklet", "workqueue", "worker"} /\ ~work.left =>
    /\ work.stage # "out"
    /\ work.runs = (IF work.pending THEN 0 ELSE 1)
    /\ work.at # "idle" => ~work.pending
    /\ work.stage \in {"returned", "freed", "oops"} => Quiet

WorkInv ==
  /\ work \in WorkType /\ StrayInv /\ OnceInv
  /\ work.stage = "out" => work.runs = 0

LEMMA WorkStep ==
  ASSUME WorkInv, [WorkNext]_work PROVE WorkInv'
<1> USE DEF WorkInv, WorkType, StrayInv, OnceInv, AllQuiet, Quiet, Stray, Loaded
<1>0. ASSUME NEW kind \in Kinds, Load(kind) PROVE WorkInv'
  <2>1. /\ work.stage = "out" /\ Quiet /\ work.started /\ ~work.left /\ ~work.stray /\ work.runs = 0
        /\ work' = [work EXCEPT !.kind = kind, !.stage = "live", !.pending = TRUE,
                                !.started = kind # "worker"]
    BY <1>0 DEF Load
  <2>2. work' \in WorkType
    BY <2>1, Zenon
  <2> QED BY <2>1, <2>2
<1>1. CASE WorkLoad
  BY <1>0, <1>1 DEF WorkLoad, Kinds, module_lrtimer_init, module_hrtimer_init, tasklet_my_init,
     workqueue_my_init, worker_my_init, soft_irq_my_init
<1>2. CASE kthread_worker_fn
  BY <1>2, Zenon DEF kthread_worker_fn
<1>3. CASE invoke
  <2> DEFINE runs == IF work.runs = 2 THEN 2 ELSE work.runs + 1
  <2>1. runs \in 0 .. 2 /\ (work.runs = 0 => runs = 1)
    OBVIOUS
  <2> HIDE DEF runs
  <2>2. /\ work.pending /\ work.at = "idle" /\ work.started
        /\ work' = [work EXCEPT !.pending = FALSE, !.at = "body", !.stray = Stray, !.runs = runs]
    BY <1>3 DEF invoke, runs
  <2> QED BY <2>1, <2>2, Zenon
<1>4. ASSUME NEW kind, NEW from \in {"body", "tail"}, NEW to \in {"idle", "tail"},
             Callback(kind, from, to, FALSE)
      PROVE  WorkInv'
  <2>1. work' = [work EXCEPT !.at = to, !.stray = Stray] /\ work.at = from
    BY <1>4, Zenon DEF Callback
  <2> QED BY <2>1, Zenon
<1>5. ASSUME NEW kind \in {"timer", "hrtimer"}, NEW to \in {"idle", "tail"},
             Callback(kind, "body", to, TRUE)
      PROVE  WorkInv'
  BY <1>5, Zenon DEF Callback
<1>6. CASE WorkRuns
  BY <1>2, <1>3, <1>4, <1>5, <1>6, Zenon DEF WorkRuns, timer_cb, timer_cb_returns,
     my_hrtimer_callback, my_handler, my_func, worker_my_func, hello_printk
<1>7. CASE module_lrtimer_exit
  BY <1>7, Zenon DEF module_lrtimer_exit, Leave
<1>8. ASSUME NEW kind, Enter(kind) PROVE WorkInv'
  BY <1>8 DEF Enter
<1>9. CASE soft_irq_my_exit
  BY <1>9, Zenon DEF soft_irq_my_exit, Leave
<1>10. CASE free_module
  BY <1>10 DEF free_module
<1>11. CASE WorkUnload
  BY <1>7, <1>8, <1>9, <1>10, <1>11 DEF WorkUnload, module_hrtimer_exit,
     tasklet_my_exit, workqueue_my_exit, worker_my_exit
<1>12. CASE hrtimer_cancel
  BY <1>12, Zenon DEF hrtimer_cancel, Leave
<1>13. CASE tasklet_kill \/ destroy_workqueue
  BY <1>13, Zenon DEF tasklet_kill, destroy_workqueue, Leave
<1>14. CASE destroy_unstarted
  BY <1>14, Zenon DEF destroy_unstarted, Leave
<1>15. CASE kthread_destroy_worker
  BY <1>15, Zenon DEF kthread_destroy_worker, Leave
<1>16. CASE UNCHANGED work
  BY <1>16
<1> QED BY <1>1, <1>6, <1>11, <1>12, <1>13, <1>14, <1>15, <1>16 DEF WorkNext, WorkWaits

\* The invariant of the deferred work, for every kind of callback.
THEOREM WorkInvariant == WorkSpec => []WorkInv
<1>0. 0 \in 0 .. 2
  OBVIOUS
<1>1. WorkInit => WorkInv
  <2> SUFFICES ASSUME WorkInit PROVE WorkInv
    OBVIOUS
  <2>1. work \in WorkType
    BY <1>0, Zenon DEF WorkInit, WorkType, Kinds
  <2>2. StrayInv
    BY DEF WorkInit, StrayInv, AllQuiet, Quiet
  <2>3. OnceInv /\ work.runs = 0
    BY DEF WorkInit, OnceInv
  <2> QED BY <2>1, <2>2, <2>3 DEF WorkInv
<1>2. WorkInv /\ [WorkNext]_work => WorkInv'
  BY WorkStep
<1> QED BY <1>1, <1>2, PTL DEF WorkSpec

\* hrtimer_cancel, tasklet_kill, destroy_workqueue and kthread_destroy_worker of a
\* started worker leave nothing that touches the freed module.
THEOREM NoWorkInFreedModule == WorkSpec => []NoStrayWork
<1>1. WorkInv => NoStrayWork
  BY DEF WorkInv, StrayInv, NoStrayWork
<1> QED BY <1>1, WorkInvariant, PTL

\* The exit functions of tasklet, workqueue and worker do not cancel the item that
\* init queued: it has run, once.
THEOREM QueuedWorkRuns == WorkSpec => []WorkDone
<1>1. WorkInv => WorkDone
  BY DEF WorkInv, OnceInv, WorkDone, Quiet
<1> QED BY <1>1, WorkInvariant, PTL

-------------------------------------------------------------------------------
(* umh *)

\* Only a signal ends slam_func, and the exit function finds it ended only then.
UmhInv ==
  /\ umh \in [stage : {"out", "live", "returned", "freed"},
             at : {"none", "start", "test", "helper", "sleep", "done", "fault"},
             sig : BOOLEAN, early : BOOLEAN, stale : BOOLEAN]
  /\ umh.at = "done" => umh.sig
  /\ umh.stale => umh.at = "done" /\ umh.stage \in {"returned", "freed"}

LEMMA UmhStep ==
  ASSUME UmhInv, [UmhNext]_umh PROVE UmhInv'
<1> USE DEF UmhInv
<1>1. CASE kthread_signal_example_init
  BY <1>1, Zenon DEF kthread_signal_example_init
<1>2. CASE allow_signal
  BY <1>2, Zenon DEF allow_signal, Slam
<1>3. CASE signal_pending
  BY <1>3, Zenon DEF signal_pending, Slam
<1>4. CASE run_umh_app
  BY <1>4, Zenon DEF run_umh_app, Slam
<1>5. CASE slam_sleep
  BY <1>5, Zenon DEF slam_sleep, Slam
<1>6. CASE killed
  BY <1>6, Zenon DEF killed, Listening
<1>7. CASE kthread_signal_example_exit
  BY <1>7, Zenon DEF kthread_signal_example_exit, Listening
<1>8. CASE umh_free
  BY <1>8 DEF umh_free
<1>9. CASE UNCHANGED umh
  BY <1>9
<1> QED BY <1>1, <1>2, <1>3, <1>4, <1>5, <1>6, <1>7, <1>8, <1>9 DEF UmhNext, slam_func

\* The exit function of umh signals a task that is gone only when a signal of a
\* user has ended it: slam_func leaves its loop for no other reason.
THEOREM StaleOnlyIfKilled == UmhSpec => [](umh.stale => umh.sig)
<1>1. UmhInit => UmhInv
  BY DEF UmhInit, UmhInv
<1>2. UmhInv /\ [UmhNext]_umh => UmhInv'
  BY UmhStep
<1>3. UmhInv => (umh.stale => umh.sig)
  BY DEF UmhInv
<1> QED BY <1>1, <1>2, <1>3, PTL DEF UmhSpec

-------------------------------------------------------------------------------
(* udp_send *)

UdpType ==
  [stage : {"out", "created", "bound", "connected", "allocated", "started", "live", "tested",
            "stopping", "returned", "freed", "oops"},
   task : {"NULL", "thread"},
   sender : {"none", "ready", "test", "send", "sleep", "clear", "release", "exited", "never"},
   stop : BOOLEAN, tinfo : {"none", "live", "freed"}, failed : BOOLEAN, fault : BOOLEAN]

\* Where the thread can be at each stage, and what kthreadtask and tinfo are, while
\* no send has failed: it leaves its loop only when my_exit has told it to.
SenderInv ==
  /\ ~udp.fault /\ udp.stage # "oops"
  /\ udp.stage \in {"out", "created", "bound", "connected", "allocated"} =>
       udp.sender = "none" /\ udp.task = "NULL" /\ ~udp.stop
  /\ udp.stage = "allocated" => udp.tinfo = "live"
  /\ udp.stage \in {"started", "live", "tested"} =>
       /\ udp.sender \in {"ready", "test", "send", "sleep"} /\ udp.tinfo = "live" /\ ~udp.stop
       /\ udp.task = IF udp.stage = "started" THEN "NULL" ELSE "thread"
  /\ udp.stage = "stopping" => udp.sender \notin {"none", "ready"}
  /\ udp.stage \in {"returned", "freed"} => udp.sender \in {"exited", "never"}
  /\ udp.stage \in {"stopping", "returned", "freed"} =>
       udp.tinfo = IF udp.sender = "exited" THEN "freed" ELSE "live"

UdpInv == udp \in UdpType /\ (~udp.failed => SenderInv)

LEMMA UdpStep ==
  ASSUME UdpInv, [UdpNext]_udp PROVE UdpInv'
<1> USE DEF UdpInv, UdpType, SenderInv
<1>1. CASE sock_create_kern \/ bind_to_device \/ connect_to_addr
  <2>1. CASE sock_create_kern
    BY <2>1, Zenon DEF sock_create_kern, Fail
  <2>2. CASE bind_to_device
    BY <2>2, Zenon DEF bind_to_device, Fail
  <2>3. CASE connect_to_addr
    BY <2>3, Zenon DEF connect_to_addr, Fail
  <2> QED BY <1>1, <2>1, <2>2, <2>3
<1>2. CASE kmalloc
  BY <1>2, Zenon DEF kmalloc, Fail
<1>3. CASE kthread_run
  BY <1>3, Zenon DEF kthread_run, Fail
<1>4. CASE assign_kthreadtask
  BY <1>4, Zenon DEF assign_kthreadtask
<1>5. CASE first_run
  BY <1>5, Zenon DEF first_run, Send
<1>6. CASE kthread_should_stop
  BY <1>6, Zenon DEF kthread_should_stop, Send
<1>7. CASE kernel_sendmsg
  BY <1>7, Zenon DEF kernel_sendmsg, Send
<1>8. CASE schedule_timeout_interruptible
  BY <1>8, Zenon DEF schedule_timeout_interruptible, Send
<1>9. CASE clear_kthreadtask
  BY <1>9, Zenon DEF clear_kthreadtask
<1>10. CASE release_tinfo
  BY <1>10, Zenon DEF release_tinfo
<1>11. CASE test_kthreadtask
  BY <1>11 DEF test_kthreadtask
<1>12. CASE kthread_stop
  <2>1. CASE udp' = [udp EXCEPT !.stage = "oops", !.fault = TRUE] /\ udp.failed
    BY <2>1, Zenon
  <2>2. CASE /\ udp.stage = "tested" /\ udp.sender = "ready"
             /\ udp' = [udp EXCEPT !.stage = "stopping", !.stop = TRUE, !.sender = "never"]
    BY <2>2, Zenon
  <2>3. CASE /\ udp.stage = "tested" /\ udp.sender \notin {"ready", "exited"}
             /\ udp' = [udp EXCEPT !.stage = "stopping", !.stop = TRUE, !.sender = udp.sender]
    BY <2>3, Zenon
  <2> QED BY <1>12, <2>1, <2>2, <2>3 DEF kthread_stop
<1>13. CASE wait_for_thread
  BY <1>13 DEF wait_for_thread
<1>14. CASE udp_free
  BY <1>14 DEF udp_free
<1>15. CASE UNCHANGED udp
  BY <1>15
<1> QED BY <1>1, <1>2, <1>3, <1>4, <1>5, <1>6, <1>7, <1>8, <1>9, <1>10, <1>11, <1>12, <1>13,
           <1>14, <1>15 DEF UdpNext, UdpLoad, send_udp, UdpExit

\* While every packet goes out, send_udp and my_exit use nothing that is gone, and
\* tinfo is freed unless the thread was stopped before its first step.
THEOREM SenderAlwaysCleansUp == UdpSpec => []SenderCleansUp
<1>1. UdpInit => UdpInv
  BY DEF UdpInit, UdpInv, UdpType, SenderInv
<1>2. UdpInv /\ [UdpNext]_udp => UdpInv'
  BY UdpStep
<1>3. UdpInv => SenderCleansUp
  BY DEF UdpInv, UdpType, SenderInv, SenderCleansUp
<1> QED BY <1>1, <1>2, <1>3, PTL DEF UdpSpec
-------------------------------------------------------------------------------
(* pci *)

Places == {"unbound", "pci_enable_device", "pci_request_regions", "pci_ioremap_bar",
           "pci_read_config_byte", "devm_request_irq", "iowrite32", "outb", "outl", "bound",
           "out_iounmap", "out_unrequest", "out_disable", "out_free", "pci_release_regions",
           "pci_disable_device", "iounmap", "kfree", "free_irq"}

\* What the driver holds when probe or remove is about to take each step.
HeldAt(place) ==
  CASE place = "unbound" -> {}
    [] place \in {"pci_enable_device", "out_free"} -> {"info"}
    [] place \in {"pci_request_regions", "out_disable"} -> {"info", "enabled"}
    [] place \in {"pci_ioremap_bar", "out_unrequest"} -> {"info", "enabled", "regions"}
    [] place \in {"pci_read_config_byte", "devm_request_irq", "out_iounmap"} ->
         {"info", "enabled", "regions", "mapping"}
    [] place \in {"iowrite32", "outb", "outl", "bound", "pci_release_regions"} ->
         {"info", "enabled", "regions", "mapping", "irq"}
    [] place = "pci_disable_device" -> {"info", "enabled", "mapping", "irq"}
    [] place = "iounmap" -> {"info", "mapping", "irq"}
    [] place = "kfree" -> {"info", "irq"}
    [] place = "free_irq" -> {"irq"}

\* The line is up only between the two port writes of probe.
HelloInv ==
  /\ pc \in Places /\ held = HeldAt(pc)
  /\ line => pc = "outl" /\ threw_irq = 1

\* Probe's steps and where they lead, one by one.
LEMMA AcquireSteps ==
  ASSUME acquire
  PROVE  \/ /\ pc = "pci_enable_device"
            /\ \/ held' = held \cup {"enabled"} /\ pc' = "pci_request_regions"
               \/ held' = held /\ pc' = "out_free"
         \/ /\ pc = "pci_request_regions"
            /\ \/ held' = held \cup {"regions"} /\ pc' = "pci_ioremap_bar"
               \/ held' = held /\ pc' = "out_disable"
         \/ /\ pc = "pci_ioremap_bar"
            /\ \/ held' = held \cup {"mapping"} /\ pc' = "pci_read_config_byte"
               \/ held' = held /\ pc' = "out_unrequest"
         \/ /\ pc = "pci_read_config_byte"
            /\ \/ held' = held /\ pc' = "devm_request_irq"
               \/ held' = held /\ pc' = "out_iounmap"
         \/ /\ pc = "devm_request_irq"
            /\ \/ held' = held \cup {"irq"} /\ pc' = "iowrite32"
               \/ held' = held /\ pc' = "out_iounmap"
BY DEF acquire, on_failure, on_success

\* The steps that give back, on the way out of probe and in remove.
LEMMA ReleaseSteps ==
  ASSUME release
  PROVE  \/ pc = "out_iounmap" /\ held' = held \ {"mapping"} /\ pc' = "out_unrequest"
         \/ pc = "out_unrequest" /\ held' = held \ {"regions"} /\ pc' = "out_disable"
         \/ pc = "out_disable" /\ held' = held \ {"enabled"} /\ pc' = "out_free"
         \/ pc = "out_free" /\ held' = held \ {"info"} /\ pc' = "unbound"
         \/ pc = "pci_release_regions" /\ held' = held \ {"regions"} /\ pc' = "pci_disable_device"
         \/ pc = "pci_disable_device" /\ held' = held \ {"enabled"} /\ pc' = "iounmap"
         \/ pc = "iounmap" /\ held' = held \ {"mapping"} /\ pc' = "kfree"
         \/ pc = "kfree" /\ held' = held \ {"info"} /\ pc' = "free_irq"
BY DEF release, releases

LEMMA HelloStep ==
  ASSUME HelloInv, [Next]_vars PROVE HelloInv'
<1> USE DEF HelloInv, Places, HeldAt, device, counts
<1>1. CASE acquire
  BY <1>1, AcquireSteps DEF acquire
<1>2. CASE release
  BY <1>2, ReleaseSteps, Zenon DEF release
<1>3. CASE iowrite32
  BY <1>3 DEF iowrite32, hello_mmiowrite
<1>4. CASE outb
  <2>1. pc = "outb" /\ pc' = "outl" /\ UNCHANGED held
    BY <1>4 DEF outb
  <2>2. ~line
    BY <2>1
  <2>3. line' => threw_irq' = 1
    BY <1>4, <2>2, Zenon DEF outb, hello_iowrite
  <2> QED BY <2>1, <2>3
<1>5. CASE outl
  <2>1. pc = "outl" /\ pc' = "bound" /\ UNCHANGED held
    BY <1>5 DEF outl
  <2>2. ~line'
    <3>1. hello_iowrite(4, 1)
      BY <1>5 DEF outl
    <3>2. line' = (4 = 0 /\ 1 # 0)
      BY <3>1, Zenon DEF hello_iowrite, irq_line
    <3>3. ~(4 = 0 /\ 1 # 0)
      OBVIOUS
    <3> QED BY <3>2, <3>3, Zenon
  <2> QED BY <2>1, <2>2
<1>6. CASE devres_release
  BY <1>6 DEF devres_release
<1>7. CASE interrupt \/ inl
  <2>1. UNCHANGED <<pc, held, line, threw_irq>>
    BY <1>7 DEF interrupt, inl
  <2> QED BY <2>1
<1>8. CASE deassert
  <2>1. UNCHANGED <<pc, held>> /\ (~line' \/ UNCHANGED <<line, threw_irq>>)
    BY <1>8, Zenon DEF deassert, hello_iowrite, irq_line
  <2> QED BY <2>1
<1>9. CASE kzalloc
  BY <1>9 DEF kzalloc
<1>10. CASE hello_tic_remove \/ other_device
  <2>1. /\ UNCHANGED <<held, line, threw_irq>>
        /\ UNCHANGED pc \/ (pc = "bound" /\ pc' = "pci_release_regions")
    BY <1>10 DEF hello_tic_remove, other_device
  <2> QED BY <2>1
<1>11. CASE pci_hellodev_uninit \/ pci_hellodev_init
  BY <1>11 DEF pci_hellodev_uninit, pci_hellodev_init
<1>12. CASE qdev_pci_hellodev_reset
  BY <1>12 DEF qdev_pci_hellodev_reset
<1>13. CASE UNCHANGED vars
  BY <1>13 DEF vars
<1> QED BY <1>1, <1>2, <1>3, <1>4, <1>5, <1>6, <1>7, <1>8, <1>9, <1>10, <1>11, <1>12, <1>13
        DEF Next, Driver, Handler, World

\* Probe and remove hold at every step what the next one expects.
THEOREM HelloInvariant == Spec => []HelloInv
<1>1. Init => HelloInv
  BY DEF Init, HelloInv, Places, HeldAt
<1>2. HelloInv /\ [Next]_vars => HelloInv'
  BY HelloStep
<1> QED BY <1>1, <1>2, PTL DEF Spec

\* A raised interrupt line always finds hello_tic_handler registered and the status
\* register set, so that the handler takes the interrupt for its own.
THEOREM LineAlwaysAnswered == Spec => []LineAnswered
<1>1. HelloInv => LineAnswered
  BY DEF HelloInv, Places, HeldAt, LineAnswered
<1> QED BY <1>1, HelloInvariant, PTL

\* Every error path of hello_tic_probe, and hello_tic_remove with what the PCI core
\* does after it, gives back everything.
THEOREM AllReleased == Spec => []Released
<1>1. HelloInv => Released
  BY DEF HelloInv, Places, HeldAt, Released
<1> QED BY <1>1, HelloInvariant, PTL

-------------------------------------------------------------------------------
(* unknown *)

CodecType ==
  [at : {"out", "ready", "regions", "vectors", "irqs", "maps", "bound"},
   chrdev : SUBSET {"numbers", "cdev", "class", "nodes"}, i : Nat, regions : SUBSET BarSet,
   maps : SUBSET BarSet, vectors : 0 .. 2, irqs : SUBSET {0, 1}, enabled : BOOLEAN,
   nvec : {-1, 0, 1, 2}, bars : SUBSET BarSet, bad : BOOLEAN, failed : {"no", "early", "cleanup"}]

Below(n) == {b \in BarSet : b < n}

\* What device_init has at each of its stages.  bars[] may name more than what is
\* mapped, until the last loop has gone over all of it.
CodecInv ==
  /\ codec \in CodecType
  /\ codec.at \notin {"out", "ready"} => codec.failed = "no" /\ codec.enabled
  /\ codec.at \in {"regions", "maps"} => codec.i < Bars
  /\ codec.at = "regions" => codec.regions = Below(codec.i)
  /\ codec.at \in {"vectors", "irqs", "maps", "bound"} => codec.regions = BarSet
  /\ codec.at \in {"regions", "vectors", "irqs"} => codec.maps = {}
  /\ codec.at \in {"regions", "vectors"} => codec.irqs = {} /\ codec.vectors = 0
  /\ codec.at = "irqs" => \/ codec.i = 0 /\ codec.irqs = {}
                          \/ codec.i = 1 /\ codec.irqs = {0}
  /\ codec.at \in {"maps", "bound"} => codec.irqs = {0, 1} /\ codec.vectors = 2
  /\ codec.at = "maps" => codec.maps = Below(codec.i) /\ codec.maps \subseteq codec.bars
  /\ codec.at = "bound" => codec.maps = BarSet /\ codec.bars = BarSet
  /\ codec.at \in {"out", "ready"} /\ codec.failed # "early" =>
       /\ codec.regions = {} /\ codec.maps = {}
       /\ codec.failed = "no" => codec.irqs = {} /\ codec.vectors = 0 /\ ~codec.enabled
  /\ codec.bad => codec.failed = "cleanup"

\* A loop over the BARs has one more behind it after each round, and all at the end.
LEMMA NextBar ==
  ASSUME NEW i \in Nat, i < Bars
  PROVE  /\ i \in BarSet /\ Below(i + 1) = Below(i) \cup {i} /\ Below(0) = {}
         /\ i + 1 = Bars => Below(i + 1) = BarSet
         /\ i + 1 # Bars => i + 1 < Bars
BY CodecAssumption DEF Below, BarSet

LEMMA CodecStep ==
  ASSUME CodecInv, [CodecNext]_codec PROVE CodecInv'
<1>0. codec \in CodecType
  BY DEF CodecInv
<1>00. Below(0) = {} /\ 0 < Bars
  BY CodecAssumption DEF Below, BarSet
<1> USE CodecAssumption
<1>1. CASE mod_init
  <2>1. ASSUME NEW chrdev \in SUBSET {"numbers", "cdev", "class", "nodes"},
               NEW at \in {"out", "ready"}, NEW bars \in SUBSET BarSet, NEW nvec \in {-1, 0, 1, 2},
               codec' = [codec EXCEPT !.at = at, !.nvec = nvec, !.bars = bars, !.chrdev = chrdev]
        PROVE  CodecInv'
    <3>1. codec' \in CodecType
      BY <1>0, <2>1, Zenon DEF CodecType
    <3>2. /\ codec'.at = at /\ codec'.i = codec.i /\ codec'.regions = codec.regions
          /\ codec'.maps = codec.maps /\ codec'.vectors = codec.vectors /\ codec'.irqs = codec.irqs
          /\ codec'.enabled = codec.enabled /\ codec'.bad = codec.bad /\ codec'.failed = codec.failed
      BY <1>0, <2>1 DEF CodecType
    <3> QED BY <1>1, <2>1, <3>1, <3>2 DEF mod_init, CodecInv
  <2>2. CASE codec' = [codec EXCEPT !.at = "ready", !.nvec = 2, !.bars = {},
                                    !.chrdev = {"numbers", "cdev", "class", "nodes"}]
    BY <2>1, <2>2, Zenon
  <2>3. ASSUME NEW step \in DOMAIN left_by, codec' = [codec EXCEPT !.chrdev = left_by[step]]
        PROVE  CodecInv'
    <3>1. left_by[step] \in SUBSET {"numbers", "cdev", "class", "nodes"}
      BY DEF left_by
    <3>2. codec' = [codec EXCEPT !.at = "out", !.nvec = codec.nvec, !.bars = codec.bars,
                                 !.chrdev = left_by[step]]
      BY <1>0, <1>1, <2>3, Zenon DEF mod_init, CodecType
    <3>3. codec.nvec \in {-1, 0, 1, 2} /\ codec.bars \in SUBSET BarSet
      BY <1>0 DEF CodecType
    <3> QED BY <2>1, <3>1, <3>2, <3>3, Zenon
  <2> QED BY <1>1, <2>2, <2>3 DEF mod_init
<1>2. CASE mod_exit
  BY <1>2, Zenon DEF mod_exit, CodecType, CodecInv
<1>3. CASE pci_enable_device
  <2>1. /\ codec.at = "ready" /\ codec.failed = "no"
        /\ codec' = [codec EXCEPT !.at = "regions", !.i = 0, !.enabled = TRUE]
    BY <1>3 DEF pci_enable_device
  <2>2. /\ codec' \in CodecType /\ codec'.at = "regions" /\ codec'.i = 0 /\ codec'.enabled
        /\ codec'.regions = {} /\ codec'.maps = {} /\ codec'.vectors = 0 /\ codec'.irqs = {}
        /\ codec'.bad = codec.bad /\ codec'.failed = "no"
    BY <1>0, <2>1, Zenon DEF CodecType, CodecInv
  <2>3. 0 < Bars /\ Below(0) = {}
    BY DEF Below, BarSet
  <2> QED BY <2>1, <2>2, <2>3 DEF CodecInv
<1>4. CASE pci_request_region
  <2>1. ASSUME codec.at = "regions", codec.i + 1 = Bars,
               codec' = [codec EXCEPT !.regions = codec.regions \cup {codec.i},
                                        !.i = codec.i + 1, !.at = "vectors"]
        PROVE  CodecInv'
    <3>1. codec.i \in BarSet /\ codec.regions \cup {codec.i} \in SUBSET BarSet
      BY <1>0, <2>1, NextBar DEF CodecType, CodecInv
    <3>4. codec.regions \cup {codec.i} = BarSet
      BY <1>0, <2>1, NextBar DEF CodecType, CodecInv
    <3>2. codec' \in CodecType
      BY <1>0, <2>1, <3>1, Zenon DEF CodecType
    <3>3. /\ codec'.at = "vectors" /\ codec'.i = codec.i + 1
          /\ codec'.regions = codec.regions \cup {codec.i} /\ codec'.maps = codec.maps
          /\ codec'.vectors = codec.vectors /\ codec'.irqs = codec.irqs
          /\ codec'.enabled = codec.enabled /\ codec'.bars = codec.bars
          /\ codec'.bad = codec.bad /\ codec'.failed = codec.failed
      BY <1>0, <2>1 DEF CodecType
    <3> QED BY <1>0, <2>1, <3>1, <3>2, <3>3, <3>4, NextBar DEF CodecType, CodecInv
  <2>2. ASSUME codec.at = "regions", codec.i + 1 # Bars,
               codec' = [codec EXCEPT !.regions = codec.regions \cup {codec.i},
                                        !.i = codec.i + 1, !.at = "regions"]
        PROVE  CodecInv'
    <3>1. codec.i \in BarSet /\ codec.regions \cup {codec.i} \in SUBSET BarSet
      BY <1>0, <2>2, NextBar DEF CodecType, CodecInv
    <3>4. codec.i + 1 < Bars /\ codec.regions \cup {codec.i} = Below(codec.i + 1)
      BY <1>0, <2>2, NextBar DEF CodecType, CodecInv
    <3>2. codec' \in CodecType
      BY <1>0, <2>2, <3>1, codec.i + 1 \in Nat, Zenon DEF CodecType
    <3>3. /\ codec'.at = "regions" /\ codec'.i = codec.i + 1
          /\ codec'.regions = codec.regions \cup {codec.i} /\ codec'.maps = codec.maps
          /\ codec'.vectors = codec.vectors /\ codec'.irqs = codec.irqs
          /\ codec'.enabled = codec.enabled /\ codec'.bars = codec.bars
          /\ codec'.bad = codec.bad /\ codec'.failed = codec.failed
      BY <1>0, <2>2 DEF CodecType
    <3> QED BY <1>0, <2>2, <3>1, <3>2, <3>3, <3>4, NextBar DEF CodecType, CodecInv
  <2>3. ASSUME codec.at = "regions",
               codec' = [codec EXCEPT !.at = "ready", !.failed = "early"]
        PROVE  CodecInv'
    <3>2. codec' \in CodecType
      BY <1>0, <2>3, Zenon DEF CodecType
    <3>3. /\ codec'.at = "ready" /\ codec'.i = codec.i
          /\ codec'.regions = codec.regions /\ codec'.maps = codec.maps
          /\ codec'.vectors = codec.vectors /\ codec'.irqs = codec.irqs
          /\ codec'.enabled = codec.enabled /\ codec'.bars = codec.bars
          /\ codec'.bad = codec.bad /\ codec'.failed = "early"
      BY <1>0, <2>3 DEF CodecType
    <3> QED BY <1>0, <2>3, <3>2, <3>3 DEF CodecType, CodecInv
  <2> QED BY <1>4, <2>1, <2>2, <2>3, Zenon DEF pci_request_region, Round
<1>5. CASE pci_alloc_irq_vectors
  <2> PICK n \in {-1} \cup 1 .. codec.nvec :
        codec' = [codec EXCEPT !.nvec = n, !.vectors = IF n = -1 THEN 0 ELSE n,
                               !.at = "irqs", !.i = 0]
    BY <1>5, Zenon DEF pci_alloc_irq_vectors
  <2>1. n \in {-1, 0, 1, 2} /\ (IF n = -1 THEN 0 ELSE n) \in 0 .. 2 /\ codec.at = "vectors"
    BY <1>0, <1>5 DEF CodecType, pci_alloc_irq_vectors
  <2>2. /\ codec' \in CodecType /\ codec'.at = "irqs" /\ codec'.i = 0 /\ codec'.irqs = codec.irqs
        /\ codec'.regions = codec.regions /\ codec'.maps = codec.maps
        /\ codec'.enabled = codec.enabled /\ codec'.bad = codec.bad /\ codec'.failed = codec.failed
    BY <1>0, <2>1, Zenon DEF CodecType
  <2> QED BY <2>1, <2>2 DEF CodecInv
<1>6. CASE request_irq
  <2>1. ASSUME codec.at = "irqs", codec.i = 0,
               codec' = [codec EXCEPT !.irqs = codec.irqs \cup {codec.i}, !.i = 1,
                                        !.at = "irqs"]
        PROVE  CodecInv'
    <3>1. codec.irqs \cup {codec.i} = {0}
      BY <1>0, <2>1 DEF CodecType, CodecInv
    <3>2. codec' \in CodecType
      BY <1>0, <2>1, <3>1, Zenon DEF CodecType
    <3>3. /\ codec'.at = "irqs" /\ codec'.i = 1 /\ codec'.regions = codec.regions
          /\ codec'.maps = codec.maps /\ codec'.vectors = codec.vectors
          /\ codec'.irqs = codec.irqs \cup {codec.i} /\ codec'.enabled = codec.enabled
          /\ codec'.bars = codec.bars /\ codec'.bad = codec.bad
          /\ codec'.failed = codec.failed
      BY <1>0, <2>1 DEF CodecType
    <3> QED BY <1>0, <2>1, <3>1, <3>2, <3>3 DEF CodecType, CodecInv
  <2>2. ASSUME codec.at = "irqs", codec.i = 1, codec.i < codec.vectors,
               codec' = [codec EXCEPT !.irqs = codec.irqs \cup {codec.i}, !.i = 0,
                                        !.at = "maps"]
        PROVE  CodecInv'
    <3>1. codec.irqs \cup {codec.i} = {0, 1} /\ codec.vectors = 2
      BY <1>0, <2>2, <1>00 DEF CodecType, CodecInv
    <3>2. codec' \in CodecType
      BY <1>0, <2>2, <3>1 DEF CodecType
    <3>3. /\ codec'.at = "maps" /\ codec'.i = 0 /\ codec'.regions = codec.regions
          /\ codec'.maps = codec.maps /\ codec'.vectors = codec.vectors
          /\ codec'.irqs = codec.irqs \cup {codec.i} /\ codec'.enabled = codec.enabled
          /\ codec'.bars = codec.bars /\ codec'.bad = codec.bad
          /\ codec'.failed = codec.failed
      BY <1>0, <2>2 DEF CodecType
    <3> QED BY <1>0, <2>2, <3>1, <3>2, <3>3, <1>00 DEF CodecType, CodecInv
  <2>3. ASSUME codec.at = "irqs",
               codec' = [codec EXCEPT !.maps = {}, !.bars = codec.bars,
                                        !.bad = codec.bad \/ ~(codec.bars \subseteq codec.maps),
                                        !.at = "ready", !.failed = "cleanup",
                                        !.irqs = codec.irqs, !.regions = {}]
        PROVE  CodecInv'
    <3>2. codec' \in CodecType
      BY <1>0, <2>3, Zenon DEF CodecType
    <3>3. /\ codec'.at = "ready" /\ codec'.i = codec.i /\ codec'.regions = {}
          /\ codec'.maps = {} /\ codec'.vectors = codec.vectors
          /\ codec'.irqs = codec.irqs /\ codec'.enabled = codec.enabled
          /\ codec'.bars = codec.bars
          /\ codec'.bad = (codec.bad \/ ~(codec.bars \subseteq codec.maps))
          /\ codec'.failed = "cleanup"
      BY <1>0, <2>3 DEF CodecType
    <3> QED BY <1>0, <2>3, <3>2, <3>3, Zenon DEF CodecType, CodecInv
  <2>4. codec.at = "irqs" => codec.i \in {0, 1}
    BY DEF CodecInv
  <2>5. CASE has_number(codec.i) /\ codec.i = 0 /\ ~cleanup(codec.irqs, codec.bars)
    BY <1>6, <2>1, <2>5 DEF request_irq, has_number
  <2>6. CASE has_number(codec.i) /\ codec.i = 1 /\ ~cleanup(codec.irqs, codec.bars)
    BY <1>6, <2>2, <2>6 DEF request_irq, has_number
  <2>7. CASE cleanup(codec.irqs, codec.bars)
    BY <1>6, <2>3, <2>7 DEF request_irq, cleanup, Unmap
  <2> QED BY <1>6, <2>4, <2>5, <2>6, <2>7 DEF request_irq
<1>7. CASE pci_iomap
  <2>1. ASSUME codec.at = "maps", codec.i + 1 = Bars,
               codec' = [codec EXCEPT !.maps = codec.maps \cup {codec.i},
                                        !.bars = codec.bars \cup {codec.i},
                                        !.i = codec.i + 1, !.at = "bound"]
        PROVE  CodecInv'
    <3>1. codec.i \in BarSet /\ codec.maps \cup {codec.i} \in SUBSET BarSet
          /\ codec.bars \cup {codec.i} \in SUBSET BarSet
      BY <1>0, <2>1, NextBar DEF CodecType, CodecInv
    <3>4. codec.maps \cup {codec.i} = BarSet
      BY <1>0, <2>1, NextBar DEF CodecType, CodecInv
    <3>2. codec' \in CodecType
      BY <1>0, <2>1, <3>1, Zenon DEF CodecType
    <3>3. /\ codec'.at = "bound" /\ codec'.i = codec.i + 1
          /\ codec'.regions = codec.regions /\ codec'.maps = codec.maps \cup {codec.i}
          /\ codec'.vectors = codec.vectors /\ codec'.irqs = codec.irqs
          /\ codec'.enabled = codec.enabled /\ codec'.bars = codec.bars \cup {codec.i}
          /\ codec'.bad = codec.bad /\ codec'.failed = codec.failed
      BY <1>0, <2>1 DEF CodecType
    <3> QED BY <1>0, <2>1, <3>1, <3>2, <3>3, <3>4, NextBar DEF CodecType, CodecInv
  <2>2. ASSUME codec.at = "maps", codec.i + 1 # Bars,
               codec' = [codec EXCEPT !.maps = codec.maps \cup {codec.i},
                                        !.bars = codec.bars \cup {codec.i},
                                        !.i = codec.i + 1, !.at = "maps"]
        PROVE  CodecInv'
    <3>1. codec.i \in BarSet /\ codec.maps \cup {codec.i} \in SUBSET BarSet
          /\ codec.bars \cup {codec.i} \in SUBSET BarSet
      BY <1>0, <2>2, NextBar DEF CodecType, CodecInv
    <3>4. codec.i + 1 < Bars /\ codec.maps \cup {codec.i} = Below(codec.i + 1)
      BY <1>0, <2>2, NextBar DEF CodecType, CodecInv
    <3>2. codec' \in CodecType
      BY <1>0, <2>2, <3>1, codec.i + 1 \in Nat DEF CodecType
    <3>3. /\ codec'.at = "maps" /\ codec'.i = codec.i + 1
          /\ codec'.regions = codec.regions /\ codec'.maps = codec.maps \cup {codec.i}
          /\ codec'.vectors = codec.vectors /\ codec'.irqs = codec.irqs
          /\ codec'.enabled = codec.enabled /\ codec'.bars = codec.bars \cup {codec.i}
          /\ codec'.bad = codec.bad /\ codec'.failed = codec.failed
      BY <1>0, <2>2 DEF CodecType
    <3> QED BY <1>0, <2>2, <3>1, <3>2, <3>3, <3>4, NextBar DEF CodecType, CodecInv
  <2>3. ASSUME codec.at = "maps",
               codec' = [codec EXCEPT !.maps = {}, !.bars = codec.bars \ {codec.i},
                                        !.bad = codec.bad \/ ~(codec.bars \ {codec.i} \subseteq codec.maps),
                                        !.at = "ready", !.failed = "cleanup",
                                        !.irqs = codec.irqs, !.regions = {}]
        PROVE  CodecInv'
    <3>1. codec.bars \ {codec.i} \in SUBSET BarSet
          /\ (codec.bad \/ ~(codec.bars \ {codec.i} \subseteq codec.maps)) \in BOOLEAN
      BY <1>0, <2>3 DEF CodecType, CodecInv
    <3>2. codec' \in CodecType
      BY <1>0, <2>3, <3>1 DEF CodecType
    <3>3. /\ codec'.at = "ready" /\ codec'.i = codec.i /\ codec'.regions = {}
          /\ codec'.maps = {} /\ codec'.vectors = codec.vectors
          /\ codec'.irqs = codec.irqs /\ codec'.enabled = codec.enabled
          /\ codec'.bars = codec.bars \ {codec.i}
          /\ codec'.bad = (codec.bad \/ ~(codec.bars \ {codec.i} \subseteq codec.maps))
          /\ codec'.failed = "cleanup"
      BY <1>0, <2>3 DEF CodecType
    <3> QED BY <1>0, <2>3, <3>1, <3>2, <3>3, Zenon DEF CodecType, CodecInv
  <2> QED BY <1>7, <2>1, <2>2, <2>3, Zenon DEF pci_iomap, Round, cleanup, Unmap
<1>8. CASE device_deinit
  <2>1. ASSUME codec.at = "bound",
               codec' = [codec EXCEPT !.maps = {}, !.bars = codec.bars,
                                        !.bad = codec.bad \/ ~(codec.bars \subseteq codec.maps),
                                        !.at = "ready", !.irqs = {}, !.vectors = 0,
                                        !.regions = {}, !.enabled = FALSE]
        PROVE  CodecInv'
    <3>1. codec.bars \in SUBSET BarSet /\ (codec.bad \/ ~(codec.bars \subseteq codec.maps)) \in BOOLEAN
      BY <1>0, <2>1 DEF CodecType, CodecInv
    <3>4. codec.bars \subseteq codec.maps
      BY <1>0, <2>1 DEF CodecType, CodecInv
    <3>2. codec' \in CodecType
      BY <1>0, <2>1, <3>1, 0 \in 0 .. 2, Zenon DEF CodecType
    <3>3. /\ codec'.at = "ready" /\ codec'.i = codec.i /\ codec'.regions = {}
          /\ codec'.maps = {} /\ codec'.vectors = 0 /\ codec'.irqs = {}
          /\ codec'.enabled = FALSE /\ codec'.bars = codec.bars
          /\ codec'.bad = (codec.bad \/ ~(codec.bars \subseteq codec.maps))
          /\ codec'.failed = codec.failed
      BY <1>0, <2>1 DEF CodecType
    <3> QED BY <1>0, <2>1, <3>1, <3>2, <3>3, <3>4, Zenon DEF CodecType, CodecInv
  <2> QED BY <1>8, <2>1 DEF device_deinit, Unmap
<1>9. CASE UNCHANGED codec
  BY <1>9 DEF CodecInv
<1> QED BY <1>1, <1>2, <1>3, <1>4, <1>5, <1>6, <1>7, <1>8, <1>9 DEF CodecNext, device_init

\* device_init that succeeds has everything, one that fails through its label keeps
\* no region and no mapping, and device_deinit gives back all.
THEOREM CodecAlwaysReleases == CodecSpec => []CodecReleases
<1>1. CodecInit => CodecInv
  BY CodecAssumption DEF CodecInit, CodecInv, CodecType
<1>2. CodecInv /\ [CodecNext]_codec => CodecInv'
  BY CodecStep
<1>3. CodecInv => CodecReleases
  BY DEF CodecInv, CodecType, CodecReleases
<1> QED BY <1>1, <1>2, <1>3, PTL DEF CodecSpec
===============================================================================
