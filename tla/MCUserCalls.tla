------------------------------ MODULE MCUserCalls ------------------------------
(***************************************************************************)
(* The modules that programs call, through a device, a socket or a file,   *)
(* each with the callers it comes with; one of them per behaviour.         *)
(***************************************************************************)
EXTENDS MutexDevice, IoctlMmap, Netlink, Notifier

VARIABLE called   \* the module that is called in this behaviour

MutexStep(A) == called = "mutex" /\ A /\ UNCHANGED <<called, mmapVars, netlinkVars, notifierVars>>
MmapStep(A) == called = "ioctl_mmap" /\ A /\ UNCHANGED <<called, vars, netlinkVars, notifierVars>>
NetlinkStep(A) == called = "netlink" /\ A /\ UNCHANGED <<called, vars, mmapVars, notifierVars>>
NotifierStep(A) == called = "notifier" /\ A /\ UNCHANGED <<called, vars, mmapVars, netlinkVars>>

MCInit ==
  /\ called \in {"mutex", "ioctl_mmap", "netlink", "notifier"}
  /\ Init /\ MmapInit /\ NetlinkInit /\ NotifierInit

MCNext ==
  \/ MutexStep(Next) \/ MmapStep(MmapNext)
  \/ NetlinkStep(NetlinkNext) \/ NotifierStep(NotifierNext)

\* Each module's own fairness, which asks for nothing before a call is made.
MCSpec ==
  /\ MCInit /\ [][MCNext]_<<called, vars, mmapVars, netlinkVars, notifierVars>>
  /\ \A t \in Threads : SF_vars(Step(t))
  /\ NetlinkFairness /\ NotifierFairness

\* Reads and writes of the mutex device return, user.c does unless a message was
\* lost, and writers and subscribers of the notifier are never held up for good.
CallersReturn == CallsReturn /\ UserReturns /\ NotifierReturns
===============================================================================
