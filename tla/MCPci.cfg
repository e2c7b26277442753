\* pci: two probes, so that one meets what another left, and two foreign interrupts.
SPECIFICATION MCSpec
CONSTANTS
  MaxBinds = 2
  MaxShared = 2
  Bars = 4
CHECK_DEADLOCK FALSE
INVARIANTS LineAnswered Released CodecReleases
PROPERTIES Calm
