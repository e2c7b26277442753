------------------------------- MODULE MCUnload -------------------------------
(***************************************************************************)
(* The small modules that hand something to the kernel or to a thread and  *)
(* then leave their init or exit function, one of them per behaviour.      *)
(***************************************************************************)
EXTENDS WakeUp, DeferredWork, UmhThread, UdpSend

VARIABLE loaded   \* the module that this behaviour loads

Others(unchanged) == UNCHANGED <<loaded, unchanged>>

WakeUpStep(A) == loaded = "wake_up" /\ A /\ Others(<<work, umh, udp>>)
WorkStep(A) == loaded = "deferred" /\ A /\ Others(<<wakeVars, umh, udp>>)
UmhStep(A) == loaded = "umh" /\ A /\ Others(<<wakeVars, work, udp>>)
UdpStep(A) == loaded = "udp_send" /\ A /\ Others(<<wakeVars, work, umh>>)

MCInit ==
  /\ loaded \in {"wake_up", "deferred", "umh", "udp_send"}
  /\ WakeInit /\ WorkInit /\ UmhInit /\ UdpInit

MCNext == WakeUpStep(WakeNext) \/ WorkStep(WorkNext) \/ UmhStep(UmhNext) \/ UdpStep(UdpNext)

MCVars == <<loaded, wakeVars, work, umh, udp>>

\* Each module's own fairness.  Only wake_up's asks for a step before the module
\* is loaded.
MCSpec ==
  /\ MCInit /\ [][MCNext]_MCVars
  /\ WF_MCVars(WakeUpStep(Main)) /\ WF_MCVars(WakeUpStep(tick)) /\ WF_MCVars(WakeUpStep(wake_up))
  /\ WorkFairness /\ UmhFairness /\ UdpFairness

\* insmod of wake_up comes back, every exit function of the deferred modules and
\* that of udp_send return, and umh's thread ends when it is signalled.
WaitsEnd ==
  /\ loaded = "wake_up" => InitReturns
  /\ UnloadReturns /\ SignalEnds /\ StopReturns
===============================================================================
