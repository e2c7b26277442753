-------------------------------- MODULE PciHello --------------------------------
(***************************************************************************)
(* pci/my_pci_device.c, a device emulated by QEMU, and pci/driver_pci.c,   *)
(* its driver: the registers and the interrupt line on one side, probe,    *)
(* interrupt handler and remove on the other.                              *)
(*                                                                         *)
(* External: the interrupt controller, which may or may not remember an    *)
(* interrupt whose line was lowered again; other devices on the shared     *)
(* line; the PCI core, which calls probe and remove one after the other,   *)
(* and releases the devm interrupt after remove, when its handler has      *)
(* returned; QEMU, which may refuse an access of a size the device does    *)
(* not declare.                                                            *)
(***************************************************************************)
EXTENDS Naturals

CONSTANTS
  MaxBinds,     \* bound on the calls of probe
  MaxShared     \* bound on the interrupts of other devices

ASSUME PciAssumption == MaxBinds \in Nat /\ MaxShared \in Nat

VARIABLES
  plugged,      \* is the device there
  threw_irq,    \* its interrupt status, 0 or 1
  id,           \* its writable id, 0x1337 at first
  line,         \* is its interrupt line raised
  pending,      \* has the processor an interrupt to handle
  ram,          \* low memory, the target of the device's DMA: "intact" or "random"
  pc,           \* where probe or remove is
  held,         \* what the driver holds
  handler,      \* where hello_tic_handler is
  binds, shared

device == <<plugged, threw_irq, id>>
counts == <<binds, shared>>
vars == <<plugged, threw_irq, id, line, pending, ram, pc, held, handler, binds, shared>>

Init ==
  /\ plugged = TRUE /\ threw_irq = 0 /\ id = 4919
  /\ line = FALSE /\ pending = FALSE
  /\ ram = "intact"
  /\ pc = "unbound" /\ held = {} /\ handler = "none"
  /\ binds = 0 /\ shared = 0
-------------------------------------------------------------------------------
(* The device *)

\* pci_irq_assert and pci_irq_deassert on every write, then what the register does.
irq_line(addr, value) == line' = (addr = 0 /\ value # 0)

hello_iowrite(addr, value) ==
  /\ irq_line(addr, value)
  /\ pending' \in {pending, TRUE}
  /\ threw_irq' = IF addr = 0 THEN (IF value # 0 THEN 1 ELSE 0) ELSE threw_irq
  /\ ram' = IF addr = 4 THEN "random" ELSE ram
  /\ UNCHANGED <<plugged, id>>

hello_ioread(addr) == IF addr = 0 THEN threw_irq ELSE 0

hello_mmiowrite(addr, value) ==
  /\ id' = IF addr = 4 THEN value ELSE id
  /\ UNCHANGED <<plugged, threw_irq, line, pending, ram>>

\* Unplugging takes an unbound device away, plugging it in makes a new one.
pci_hellodev_uninit ==
  /\ plugged /\ pc = "unbound"
  /\ plugged' = FALSE
  /\ UNCHANGED <<threw_irq, id, line, pending, ram, pc, held, handler, counts>>

pci_hellodev_init ==
  /\ ~plugged
  /\ plugged' = TRUE /\ threw_irq' = 0 /\ id' = 4919
  /\ line' = FALSE
  /\ UNCHANGED <<pending, ram, pc, held, handler, counts>>

\* A reboot of the guest: the PCI core lowers the line, the device's own reset
\* leaves its registers as they are.
qdev_pci_hellodev_reset ==
  /\ line' = FALSE /\ pending' = FALSE /\ ram' = "intact"
  /\ pc' = "unbound" /\ held' = {} /\ handler' = "none"
  /\ UNCHANGED <<device, counts>>
-------------------------------------------------------------------------------
(* hello_tic_probe *)

kzalloc ==
  /\ pc = "unbound" /\ plugged /\ binds < MaxBinds
  /\ binds' = binds + 1
  /\ \/ held' = {"info"} /\ pc' = "pci_enable_device"
     \/ UNCHANGED <<held, pc>>
  /\ UNCHANGED <<device, line, pending, ram, handler, shared>>

\* The steps that can fail: what each acquires, what follows, where it jumps to.
forgets_regions ==
  [pci_enable_device    |-> "out_free",
   pci_request_regions  |-> "out_disable",
   pci_ioremap_bar      |-> "out_disable",
   pci_read_config_byte |-> "out_iounmap",
   devm_request_irq     |-> "out_iounmap"]
on_failure ==
  [pci_enable_device    |-> "out_free",
   pci_request_regions  |-> "out_disable",
   pci_ioremap_bar      |-> "out_unrequest",
   pci_read_config_byte |-> "out_iounmap",
   devm_request_irq     |-> "out_iounmap"]

on_success ==
  [pci_enable_device    |-> <<{"enabled"}, "pci_request_regions">>,
   pci_request_regions  |-> <<{"regions"}, "pci_ioremap_bar">>,
   pci_ioremap_bar      |-> <<{"mapping"}, "pci_read_config_byte">>,
   pci_read_config_byte |-> <<{}, "devm_request_irq">>,
   devm_request_irq     |-> <<{"irq"}, "iowrite32">>]

acquire ==
  /\ pc \in DOMAIN on_failure
  /\ \/ held' = held \cup on_success[pc][1] /\ pc' = on_success[pc][2]
     \/ pc' = on_failure[pc] /\ UNCHANGED held
  /\ UNCHANGED <<device, line, pending, ram, handler, counts>>

\* The steps that release, on the way out of probe and in remove.
releases ==
  [out_iounmap   |-> <<"mapping", "out_unrequest">>,
   out_unrequest |-> <<"regions", "out_disable">>,
   out_disable   |-> <<"enabled", "out_free">>,
   out_free      |-> <<"info", "unbound">>,
   pci_release_regions |-> <<"regions", "pci_disable_device">>,
   pci_disable_device  |-> <<"enabled", "iounmap">>,
   iounmap             |-> <<"mapping", "kfree">>,
   kfree               |-> <<"info", "free_irq">>]

release ==
  /\ pc \in DOMAIN releases
  /\ held' = held \ {releases[pc][1]}
  /\ pc' = releases[pc][2]
  /\ UNCHANGED <<device, line, pending, ram, handler, counts>>

iowrite32 ==
  /\ pc = "iowrite32" /\ pc' = "outb"
  /\ hello_mmiowrite(4, 2)
  /\ UNCHANGED <<held, handler, counts>>

\* A byte written to a device that declares accesses of four.
outb ==
  /\ pc = "outb" /\ pc' = "outl"
  /\ \/ hello_iowrite(0, 1)
     \/ UNCHANGED <<device, line, pending, ram>>
  /\ UNCHANGED <<held, handler, counts>>

no_dma ==
  /\ pc = "outl" /\ pc' = "bound"
  /\ UNCHANGED <<device, line, pending, ram, held, handler, counts>>
\* The DMA; probe then returns 0.
outl ==
  /\ pc = "outl" /\ pc' = "bound"
  /\ hello_iowrite(4, 1)
  /\ UNCHANGED <<held, handler, counts>>
-------------------------------------------------------------------------------
(* hello_tic_remove, and what the PCI core does after it *)

hello_tic_remove ==
  /\ pc = "bound" /\ pc' = "pci_release_regions"
  /\ UNCHANGED <<device, line, pending, ram, held, handler, counts>>

devres_release ==
  /\ pc = "free_irq" /\ handler = "none"
  /\ pc' = "unbound" /\ held' = held \ {"irq"} /\ pending' = FALSE
  /\ UNCHANGED <<device, line, ram, handler, counts>>
-------------------------------------------------------------------------------
(* hello_tic_handler *)

interrupt ==
  /\ "irq" \in held /\ handler = "none" /\ (pending \/ line)
  /\ handler' = "inl" /\ pending' = FALSE
  /\ UNCHANGED <<device, line, ram, pc, held, counts>>

acks_always == handler' = "outl"
\* "is it our device throwing an interrupt ?"
is_ours == handler' = IF hello_ioread(0) # 0 THEN "outl" ELSE "none"

\* Once info has been freed the port may be that of something else, and what
\* the handler does there does not concern this device.
inl ==
  /\ handler = "inl"
  /\ is_ours \/ ("info" \notin held /\ handler' = "none")
  /\ UNCHANGED <<device, line, pending, ram, pc, held, counts>>

deassert ==
  /\ handler = "outl" /\ handler' = "none"
  /\ \/ hello_iowrite(0, 0)
     \/ "info" \notin held /\ UNCHANGED <<device, line, pending, ram>>
  /\ UNCHANGED <<pc, held, counts>>

\* Another device raises the shared line.
other_device ==
  /\ "irq" \in held /\ shared < MaxShared
  /\ shared' = shared + 1 /\ pending' = TRUE
  /\ UNCHANGED <<device, line, ram, pc, held, handler, binds>>
-------------------------------------------------------------------------------
Driver ==
  \/ acquire \/ release \/ iowrite32 \/ outb \/ outl \/ devres_release

Handler == interrupt \/ inl \/ deassert

World ==
  \/ kzalloc \/ hello_tic_remove \/ other_device
  \/ pci_hellodev_uninit \/ pci_hellodev_init \/ qdev_pci_hellodev_reset

Next == Driver \/ Handler \/ World

Spec == Init /\ [][Next]_vars

\* The processors run probe, remove and the interrupt handler to their ends.
FairSpec == Spec /\ WF_vars(Driver) /\ WF_vars(Handler)
-------------------------------------------------------------------------------
TypeOK ==
  /\ plugged \in BOOLEAN /\ threw_irq \in {0, 1} /\ id \in {2, 4919}
  /\ line \in BOOLEAN /\ pending \in BOOLEAN /\ ram \in {"intact", "random"}
  /\ pc \in {"unbound", "iowrite32", "outb", "outl", "bound", "free_irq"}
              \cup DOMAIN on_failure \cup DOMAIN releases
  /\ held \subseteq {"info", "enabled", "regions", "mapping", "irq"}
  /\ handler \in {"none", "inl", "outl"}
  /\ binds \in 0 .. MaxBinds /\ shared \in 0 .. MaxShared

\* A raised line has a handler behind it, which will find the interrupt to be its
\* device's and take it back.  remove itself takes no interrupt back: it relies
\* on the DMA write at the end of probe, which lowers the line whether or not the
\* handler has run.
LineAnswered == line => "irq" \in held /\ threw_irq = 1

\* A probe that fails, wherever it fails, and a remove give back everything.
Released == pc = "unbound" => held = {}

\* Interrupts stop: the write that takes one back can cause another, which the
\* handler leaves alone.
Calm == <>[](handler = "none" /\ ~line)
===============================================================================
