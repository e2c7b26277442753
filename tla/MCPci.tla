--------------------------------- MODULE MCPci ---------------------------------
(***************************************************************************)
(* The two PCI drivers, one of them per behaviour.                         *)
(***************************************************************************)
EXTENDS PciHello, PciCodec

VARIABLE driver   \* the driver of this behaviour

HelloStep(A) == driver = "pci" /\ A /\ UNCHANGED <<driver, codec>>
CodecStep(A) == driver = "unknown" /\ A /\ UNCHANGED <<driver, vars>>

MCInit == driver \in {"pci", "unknown"} /\ Init /\ CodecInit

MCNext == HelloStep(Next) \/ CodecStep(CodecNext)

\* The fairness of PciHello, whose actions wait for a probe.
MCSpec ==
  MCInit /\ [][MCNext]_<<driver, vars, codec>> /\ WF_vars(Driver) /\ WF_vars(Handler)
===============================================================================
