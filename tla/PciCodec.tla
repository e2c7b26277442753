-------------------------------- MODULE PciCodec --------------------------------
(***************************************************************************)
(* pci/unknown/simple.c: a driver that asks for regions, two interrupts    *)
(* and mappings one after the other, may fail at each, and keeps what it   *)
(* got in static variables that outlive a device's removal.                *)
(*                                                                         *)
(* External: the PCI core.  It calls device_init and device_deinit in      *)
(* turn, and a vector beyond those that it grants has no interrupt number. *)
(* A device_init that has failed is not tried again: what a second attempt *)
(* finds depends on how the core sees the interrupts that were left.       *)
(***************************************************************************)
EXTENDS Integers

CONSTANT Bars     \* PCIE_BARS

ASSUME CodecAssumption == Bars \in Nat \ {0}

VARIABLE codec
\* at        "out", "ready" (mod_init has returned), in device_init "regions",
\*           "vectors", "irqs" and "maps", and "bound"
\* chrdev    what mod_init has registered
\* i         the loop's i
\* regions   the regions that are requested, and maps those that are mapped
\* vectors   the interrupt vectors that are allocated, and irqs those requested
\* enabled   pci_enable_device was called and not undone
\* nvec      msi_vec_num
\* bars      the entries of bars[] that are not NULL
\* bad       a mapping was taken away that was not there
\* failed    device_init has failed: "no", "early" (by return), "cleanup"

BarSet == 0 .. Bars - 1

CodecInit ==
  codec = [at |-> "out", chrdev |-> {}, i |-> 0, regions |-> {}, maps |-> {}, vectors |-> 0,
           irqs |-> {}, enabled |-> FALSE, nvec |-> 2, bars |-> {}, bad |-> FALSE, failed |-> "no"]
-------------------------------------------------------------------------------
(* mod_init and mod_exit *)

\* What a failing step of mod_init leaves: free_cdev does not take the cdev out of
\* the map, and the device_destroy of the last one name no node that exists.
left_by ==
  [alloc_chrdev_region |-> {}, cdev_alloc |-> {}, cdev_add |-> {},
   class_create |-> {"cdev"}, pci_register_driver |-> {"cdev", "class", "nodes"}]

\* The image of a module loaded again is a fresh one.
mod_init ==
  /\ codec.at = "out" /\ codec.chrdev = {}
  /\ \/ codec' = [codec EXCEPT !.at = "ready", !.nvec = 2, !.bars = {},
                               !.chrdev = {"numbers", "cdev", "class", "nodes"}]
     \/ \E step \in DOMAIN left_by : codec' = [codec EXCEPT !.chrdev = left_by[step]]

\* pci_unregister_driver has removed the device.
mod_exit ==
  /\ codec.at = "ready"
  /\ codec' = [codec EXCEPT !.at = "out", !.chrdev = {}]
-------------------------------------------------------------------------------
(* device_init *)

\* A pci_enable_device that fails leaves nothing behind: the step is not taken.
pci_enable_device ==
  /\ codec.at = "ready" /\ codec.failed = "no"
  /\ codec' = [codec EXCEPT !.at = "regions", !.i = 0, !.enabled = TRUE]

\* The loop's next round, or what follows the loop.
Round(then) == IF codec.i + 1 = Bars THEN then ELSE codec.at

\* A region that is taken ends device_init, which keeps the others.
pci_request_region ==
  /\ codec.at = "regions"
  /\ \/ codec' = [codec EXCEPT !.regions = @ \cup {codec.i}, !.i = @ + 1, !.at = Round("vectors")]
     \/ codec' = [codec EXCEPT !.at = "ready", !.failed = "early"]

\* The number granted, or the error, is the number to ask for next time.
pci_alloc_irq_vectors ==
  /\ codec.at = "vectors"
  /\ \E n \in {-1} \cup 1 .. codec.nvec :
       codec' = [codec EXCEPT !.nvec = n, !.vectors = IF n = -1 THEN 0 ELSE n,
                              !.at = "irqs", !.i = 0]

\* Take away the mappings that bars[] names.
Unmap(bars) == [codec EXCEPT !.maps = {}, !.bars = bars, !.bad = @ \/ ~(bars \subseteq codec.maps)]

cleanup_keeps_regions(irqs, bars) ==
  codec' = [Unmap(bars) EXCEPT !.at = "ready", !.failed = "cleanup", !.irqs = irqs]
\* The label: the mappings and all regions.  The interrupts, the vectors and the
\* enabled device stay.
cleanup(irqs, bars) ==
  codec' = [Unmap(bars) EXCEPT !.at = "ready", !.failed = "cleanup", !.irqs = irqs, !.regions = {}]

has_number(n) == n < codec.vectors

\* request_irq for interrupt i: without a number it fails, otherwise it may.
request_irq ==
  /\ codec.at = "irqs"
  /\ \/ /\ has_number(codec.i)
        /\ codec' = [codec EXCEPT !.irqs = @ \cup {codec.i}, !.i = 1 - @,
                                  !.at = IF codec.i = 1 THEN "maps" ELSE @]
     \/ cleanup(codec.irqs, codec.bars)

\* The entry of a mapping that fails is NULL, and is not unmapped.
pci_iomap ==
  /\ codec.at = "maps"
  /\ \/ codec' = [codec EXCEPT !.maps = @ \cup {codec.i}, !.bars = @ \cup {codec.i},
                               !.i = @ + 1, !.at = Round("bound")]
     \/ cleanup(codec.irqs, codec.bars \ {codec.i})

device_init ==
  \/ pci_enable_device \/ pci_request_region \/ pci_alloc_irq_vectors
  \/ request_irq \/ pci_iomap

\* bars[] keeps its pointers.
device_deinit ==
  /\ codec.at = "bound"
  /\ codec' = [Unmap(codec.bars) EXCEPT !.at = "ready", !.irqs = {}, !.vectors = 0,
                                        !.regions = {}, !.enabled = FALSE]
-------------------------------------------------------------------------------
CodecNext == mod_init \/ mod_exit \/ device_init \/ device_deinit

CodecSpec == CodecInit /\ [][CodecNext]_codec
-------------------------------------------------------------------------------
\* A device that is bound has everything, and one that is not has nothing as long
\* as device_init has not failed, however often it was bound.  A failure that
\* goes through the label gives back the regions and mappings.  A mapping is
\* taken away twice only in a failure after an earlier binding (bars[] is stale).
CodecReleases ==
  /\ codec.at = "bound" => /\ codec.regions = BarSet /\ codec.maps = BarSet
                           /\ codec.irqs = {0, 1} /\ codec.vectors = 2 /\ codec.enabled
  /\ codec.at \in {"out", "ready"} /\ codec.failed # "early" =>
       /\ codec.regions = {} /\ codec.maps = {}
       /\ codec.failed = "no" => codec.irqs = {} /\ codec.vectors = 0 /\ ~codec.enabled
  /\ codec.bad => codec.failed = "cleanup"
===============================================================================
