# TLA+ models and proofs of the LKM kernel modules

The repository is a collection of small Linux kernel modules, each the demonstration of one
kernel facility: a file system, a block device, a character device behind a mutex, function
hooks, RCU, wait queues, timers and deferred work, netlink, notifier chains, shared pages, two PCI
drivers, and about a dozen that keep no state. The modules do not call one another, except in `notifier` (publisher and subscriber) and
`EXPORT_SYMBOL`. Some come with a counterpart: `pci` with the emulated device, `mutex`, `netlink`
and `ioctl_mmap` with a user program, `simplefs` with `mkfs.c`. What they have in common is their
surroundings: the init function acquires resources one at a time, handlers run on several
processors at once, and the exit function takes everything down under whoever is still inside.

This directory holds the specifications (`*.tla`), the TLC configurations (`*.cfg`), and
`PROJECT.json`, which maps definitions to source lines and lists runs, mutants, findings,
hazards and theorems.

    tlc -workers 2 -config RcuFoo.cfg RcuFoo       # a run: a cfg and its module
    tlapm SimplefsProofs.tla                       # a proof module

## Inventory

| part | state | what is hard about it | modelled in |
| --- | --- | --- | --- |
| `simplefs` | super block, inode store, data blocks; their buffers; in-memory inodes; three mutexes | create takes the mutexes piecemeal, waits can be interrupted, the disk lags behind the buffers | `Simplefs*` |
| `simplefs/mkfs.c` | the volume it writes | the free map | `SimplefsLayout` |
| `mutex` | one buffer, one mutex | overlapping copies | `MutexDevice`, `AtomicBuffer` |
| `ftrace` | an array of hooks, ftrace's filters and registrations | rollback, recursion, tasks inside a hook | `FtraceHook` |
| `RCU` | a pointer, a list, four threads | readers against reclamation | `RcuFoo` |
| `block_device` | the disk's memory, requests in flight, init's resources | concurrent requests, the end of the device, failing init | `BlockDevice` |
| `wake_up` | a wait queue entry on the stack, a thread, a timer | wake-up before sleep | `WakeUp` |
| `timer`, `tasklet`, `workqueue`, `worker`, `soft_irq` | a callback the kernel holds | the callback against the exit function | `DeferredWork` |
| `umh` | a thread that runs a helper until it is signalled | where the signal hits the loop | `UmhThread` |
| `udp_send` | a socket, a thread, a shared task pointer | the thread ending by itself while exit stops it | `UdpSend` |
| `notifier` | a chain of callbacks, a message per write | walks against modules that come and go | `Notifier` |
| `netlink` | a kernel socket, a fixed port, the answer in flight | lost messages, answers of several programs | `Netlink` |
| `ioctl_mmap` | a page, a count of mappings | mappings that outlive files, lost updates | `IoctlMmap` |
| `pci` | device registers, interrupt line, driver resources | interrupts against probe and remove | `PciHello` |
| `pci/unknown` | regions, vectors, interrupts, mappings, a static `bars[]` | failures half way, pointers that go stale | `PciCodec` |
| `char_device`, `debugfs`, `sysfs`, `misc_device`, `netdev`, `netfilter`, `pernet`, `LSM`, `EXPORT_SYMBOL`, `idr`, `proc_fs`, `process_list` | none, or one integer, or the kernel's own | single calls that log | not modelled, see the last section |

The hazards, each at its line and with the properties that would catch it, are in
`PROJECT.json`.

## How the models are built

One action stands for one handler, or for one step of a handler where another thread, an
interrupt or a crash can come in between. `pc`, `at`, `mod` name the place. Actions and variables
have the names of the C functions and variables. Kernel facilities (mutexes, grace periods,
ftrace's matching of filters, the block layer, the interrupt controller) are not in the
repository; they are modelled by what the code relies on, and marked external in the map. An operator that stands in front of a
definition and is listed under `mutants` in `PROJECT.json` is that definition with a plausible
bug, under which the property named there fails.

Small modules that answer the same question share a run. `MCUnload`, `MCUserCalls` and `MCPci`
extend several components, whose variables are disjoint, and choose in the initial state which
one a behaviour is about; the others do not move. That is sound because these kernel modules do
not interact, and it leaves each component's behaviours as they are. Each component keeps its own
fairness. The type invariants (`TypeOK`, `DiskTypeOK`) document the state and are not listed in runs, where
they say little. Those of `Simplefs`, `MutexDevice`, `FtraceHook`, `RcuFoo` and `WakeUp` (`WakeType`) are part of the
inductive invariants that are proved.

## simplefs

`SimplefsLayout` is the on-disk format, the arithmetic of the free map and the volume of
`mkfs.c`. The map is a `uint64_t`, represented as the set of its one bits; the mask `1 << i` is
computed in an `int`, so its shift count wraps and its sign bit is extended (`ShiftMask`).

`Simplefs` is `simple.c`. Its state is the three mutexes, the buffers of the blocks (`sb`,
`istore`, `blk`), the same blocks on the disk (`dsb`, `distore`, `dblk`), the in-memory inodes
(`icache`, by path), and the place and locals of each task. Its actions are the steps of
`simplefs_create_fs_object` (create and mkdir), `simplefs_write`, `simplefs_lookup` with
`simplefs_iget`, the dropping of an inode, mount and unmount, the flusher, reclaim of buffers
that were never marked dirty, and crashes. A mutex acquisition and what directly follows it are
one step, as are the last action under a mutex and its release. `SimplefsNamespace` says what
the names on the disk promise: a tree that grows by one complete object at a time and never
loses or changes one.

| run | properties | shows |
| --- | --- | --- |
| `simplefs_signals` | `NoLockLeak`, `DistinctInodes`, `BlocksOwned` | on a nearly full volume of `mkfs.c`, with signals at every wait and crashes: no mutex stays behind, numbers are unique, no two inodes added to that volume share a block |
| `simplefs_crash` | `NoOops`, `CacheCoherent`, `BlocksIsolated`, `AckedDurable`, `DiskConsistent`, `SuperBlockMonotone`, `NamespaceRefined` | without signals, on a volume whose used blocks are marked as used, with a crash possible at every step: a create that returned 0 survives, no name dangles, data stays in its file, and the disk implements `SimplefsNamespace` |
| `simplefs_live` | `CallsReturn` | every call returns |
| `simplefs_mkfs` (violation) | `OneInodePerBlock` | the first object created on the volume of `mkfs.c` shares a block with the root directory, because `write_superblock` clears the bit of block 5 only |

`simplefs_crash` is run without signals, and that matters: a create whose `simplefs_inode_add` is
interrupted goes on and returns 0 without having stored an inode, and a later lookup then
dereferences NULL; an interrupted save leaves memory and store apart. With signalled tasks TLC
refutes `NoOops` and `CacheCoherent`. What the run shows is that, within its bounds, crashes
and interleavings alone do no such thing. It uses a correctly marked volume because of the
finding of `simplefs_mkfs`.

Bounds: two tasks, two names, paths of length two, eight objects, four cells in a block, writes
of two cells. Two tasks are enough for a mutex to be contended, two levels for a create inside a
directory. The volumes of the passing runs have two free blocks left, so that two creates race
and a third meets `-ENOSPC`. In `simplefs_signals` an `int` has seven bits and the free blocks
are the one of the sign bit and the one whose shift count wraps; elsewhere it has eight, and the
last block is that of the sign bit. Tasks are symmetric in the safety runs. A block reaches the
disk as a whole. Fairness (`simplefs_live` only): strong for each task's steps, since the
scheduler is fair and a kernel mutex is handed to its waiters in turn; no crash, and no signals.

`simplefs_read` and `simplefs_iterate` change no state. They are operators on a block, and the
properties about contents and names (`BlocksIsolated`, `DiskConsistent`, `NamespaceRefined`) are
stated of what these two return, from the buffers or from the disk.

Left out: failing disk reads; directories with more children than a block has records
(`simple.c:383` appends without a test), which `BlockCells` keeps from happening.

## mutex

`MutexDevice` is the driver's init, exit, open, close, read and write, with the threads of
`poc.c` as callers. Copies move one cell per step, so an unprotected copy could be torn.
`AtomicBuffer` is a buffer whose reads and writes are instantaneous. The refinement mapping
lets a call take effect when it gets the mutex.

Checked in run `user_calls` (`AtomicDevice`, `CallersReturn`): two threads, a buffer of three
cells, transfers of one cell and of all three, so that short and whole transfers overlap in both
ways. Fairness is strong on each thread's steps inside a call, since a kernel mutex is handed to
its waiters. The file position is left out because no handler reads it.

## ftrace

`FtraceHook` is `fh_init` with `fh_install_hooks` and its error label, `fh_exit`, and tasks that
enter hooked functions, run `fh_ftrace_thunk`, the hook and the original. Every step of the
installation can fail; errors of the removal, which the code only logs, are left out. An ops
registered with an empty filter matches every function.

Run `ftrace_hooks` (`NothingLeft`, `FilteredWhileRegistered`, `OriginalKnown`,
`RunsOnce`, `LoaderReturns`): two hooks, as in `demo_hooks`, and two tasks. Fairness: insmod and
rmmod go on; tasks may stop anywhere.

`fh_exit` does not wait for tasks inside a hook. The model keeps these (`stale`): what such a
task does after the module's text is freed is a fault, and the properties are stated of all
other tasks.

## RCU

`RcuFoo` has both readers, both updaters, the callbacks of `call_rcu`, and the init and exit
functions. A grace period ends when the read sections open at its start have closed. Every
allocation is an object of its own, so reuse of memory hides no use after free.

Run `rcu` (`ReadsSafe`, `RetiredOnce`, `NoLeak`, `Finishes`): two rounds in
each thread, as in the code. Fairness is weak on each thread and on callbacks. Threads return, so a final state without successors is expected and deadlock is not checked.

Assumed, because the code leaves it to `msleep` and to the user: init is through before a
thread first uses the pointer, and the module is unloaded when its threads have returned and its callbacks have run.
`kthread_stop` on the returned threads is not modelled.

## block_device

`BlockDevice` is `myblock_driver_init` with its error paths, `queue_rq` with `do_request`
segment by segment, and `myblock_driver_exit`. The segments of a request are given by where they end
(`cuts`). The block layer keeps requests within the
capacity of the disk; `blk_cleanup_queue` waits for those in flight.

| run | properties | shows |
| --- | --- | --- |
| `block_requests` | `NeverBug`, `Transferred`, `ServedWhileHeld`, `FailureUndone` | a request moves all its data, also up to the last sector, and a request that no other disturbs gets exactly its own |
| `block_exit` (violation) | `CleanedUp` | the exit function, under the comment "Don't forget to cleanup everything", never frees the tag set |

Bounds: two requests, three sectors, requests of one segment of one sector and of two segments,
of which the largest fills the device. No liveness is claimed, and the module stays unloaded
after its exit: deadlock is not checked. Errors of `register_blkdev` and `alloc_disk`, which the
code does not test, are left out. `FailureUndone` takes the code at its word that a failing
`blk_mq_init_sq_queue` returns NULL; a kernel whose function returns an error pointer never takes
that branch.

## Leaving: wake_up, deferred work, umh, udp_send

These modules hand something to the kernel or to a thread and then leave their init or exit
function. One run, `unload` (`MCUnload`), sets each of them against its own exit at every moment.

`WakeUp` has `my_init`, the thread and the clock. `my_init` leaves its wait queue entry on the
queue when it returns. Assumed: the thread is scheduled before the timeout of three seconds
(`Latency < Timeout`); a later one would walk over the dead entry.

`DeferredWork` is one record, `work`, for `timer` (both versions), `tasklet`, `workqueue`,
`worker` and `soft_irq`. They share the life of a callback, pending, running, past its
`mod_timer`, and differ in what init queues, what the callback leaves behind and what exit waits
for. The memory of the module is freed when the exit function has returned.

`UmhThread` is the loop of `slam_func`, with signals from the exit function and from users.
A signal before `allow_signal` is ignored; a wait for the helper is not cut short.

`UdpSend` is version 1: `my_init` with its error labels, the thread, `my_exit`. The task pointer is
shared without a lock. `my_exit` tests and uses it, and the compiler may read it once or twice:
both are outcomes of the model.

| property | says |
| --- | --- |
| `NoDanglingWalk` | no wake-up walks over an entry whose frame is gone |
| `NoStrayWork` | what touches a freed module is only what its exit function does not wait for: a callback running at `del_timer`, a worker that had not started, a softirq. The exit functions that cancel or flush leave nothing, also when the callback arms itself again meanwhile |
| `WorkDone` | an exit that flushes has let the queued item run, once |
| `SenderCleansUp` | as long as packets go out, `my_exit` may come at any moment: nothing that is gone is used, and `tinfo` is freed, once, unless the thread was stopped before its first step |
| `WaitsEnd` | insmod of `wake_up` returns, every exit function returns, a signalled thread ends |

`wake_up_lost` (violation, `WokenBeforeTimeout`): a thread that runs before `my_init` has set its
state wakes a running task, and `my_init` sleeps the full time although `__wake_up` is called.

Bounds: 16 jiffies instead of 3000 (the only comparisons are against the two limits), and `runs`,
the calls of a callback, is counted to two. The other components are finite as they are.
Fairness: processor, clock, threads and callbacks go on; strong for an exit function that waits
for a moment without a running callback, because it polls or is woken by the end of one. The
modules stay out once they are out, so deadlock is not checked.

## Called by programs: mutex, notifier, netlink, ioctl_mmap

Run `user_calls` (`MCUserCalls`), with two callers of each kind, loading and unloading. Two are
enough for one call to overlap another, and for a subscriber to leave while another stays.

`Notifier` composes `publisher.c` with any number of modules built from `subscriber.c`. External
are the chain's semaphore, which is fair to its waiters, so that a writer who waits keeps later
readers out, and the pin that the users of an exported symbol put on the publisher. A write
allocates its message, walks the chain a callback at a time, and frees the message.

`Netlink` composes the kernel side with `user.c`. The port is fixed, so a second program fails to
bind. Request and answer can each be lost; the program then waits until its user ends it.

`IoctlMmap` is the device with the processes of `test.c`: they write the cells, show them, map the
page, add to a cell (a load and a store) and show again, in any interleaving. The vma `open` is not
called for the mapping that `mmap` makes, so `mmap_remap` counts it. The node is there before the
page. Mappings of one process are bounded by `MaxMaps` = 2, its own and a duplicate.

| property | says |
| --- | --- |
| `AtomicDevice` | the mutex device implements `AtomicBuffer` |
| `CallsLoaded`, `EachOnce` | a write calls only loaded modules; it calls each subscriber that stays registered, and none twice |
| `OwnAnswer` | the answer a program gets is to its own request, and is missing only when it was lost |
| `MappingsCounted` | `counter` is the number of mappings, and while there is one the page stays |
| `TestShows` | alone, `test.c` shows what it wrote and then the sum; next to others only what is explained by lost or foreign updates |
| `CallersReturn` | every call returns, unless one of its netlink messages was lost, and the publisher can be unloaded |

Fairness: every program that is inside a call goes on, and whoever is first in line for the
chain's semaphore gets it. Nobody is forced to make a call, so deadlock is not checked.

## pci

`PciHello` composes the emulated device (`my_pci_device.c`) with its driver (`driver_pci.c`):
registers, interrupt line, DMA, plugging and reset; probe with its error labels, the interrupt
handler, remove, and the release of the devm interrupt after it. Every I/O write pulses the
line; whether the interrupt controller remembers a pulse is left open, and so is whether QEMU
lets the byte written by `outb` through to a device that declares four-byte accesses. Other
devices share the line.

`PciCodec` is `pci/unknown`: `mod_init`, `device_init` step by step with a failure at each, the
label `cleanup`, `device_deinit`. `bars[]` is static and outlives a removal.

Run `pci` (`LineAnswered`, `Released`, `Calm` of the first; `CodecReleases` of the second): two
probes and two foreign interrupts, so that a probe meets what an earlier one, or a reboot, left in
the device; four BARs. Fairness is weak on probe and remove, and on the handler. `LineAnswered`
holds for a reason that is not in the driver's text: it is the write starting the DMA, marked as
broken in a comment, whose pulse takes down an interrupt that nobody has handled before remove can
free the handler. Between `kfree(info)` and the release of the interrupt the handler may read
freed memory; the model contains that window with both of its outcomes. `CodecReleases` says
exactly what the second driver's failures give back and what they leave: a failure that goes
through the label frees regions and mappings, and a mapping is taken away twice only in a failure
after an earlier binding.

## What is proved

The theorems hold for every value of the constants that satisfies the named assumptions of the
modules; TLC evaluates these assumptions in every run.

*simplefs* (`SimplefsProofs`), from `LayoutAssumption`, `TaskAssumption`, `NameAssumption`, `ImageAssumption`: any tasks, names, sizes and any volume
whose inode numbers are those of `mkfs.c` and of earlier creates.

- `TypeCorrect`: `TypeOK` with `JobInv`: a create that reaches `simplefs_inode_add` has a mode
  and a block.
- `LocksHeld`, `NoLeak`: `LockInv` says at which places each mutex is held. `sb_lock` may be
  released by another task's interrupted wait, hence only an implication for it. It follows
  that the second wait of `simplefs_inode_add` never waits, so its early return with the first
  mutex held is dead code, and no call leaves a mutex behind.
- `InodeNumbersUnique`: `NumberInv` ties the slots of the store, in memory and on the disk, to
  the numbers computed from the count, and says that a create's count is still that of the super
  block while it holds `dir_lock`.
- `BlocksNeverShared`: `BlockInv(n)` speaks of all copies of an inode numbered from n on (store,
  disk, memory, and the one being made), because any of them can become the stored one after a
  crash or a save: none of their blocks is free, and equal blocks mean the same inode, number and
  mode. The theorem takes the inodes created since the volume was formatted; the crash proofs
  below take all of them. Only what the mask
  arithmetic does to the map is used, for any width.
- `SuperBlockNeverForgets`: the action property, from the same invariants.

*simplefs, crashes* (`SimplefsCrashSteps`, the invariant and the steps of the calls;
`SimplefsCrashProofs`, the kernel's steps and the theorems): all that `simplefs_crash` checks, for any
tasks, names, sizes and depth of the tree, any interleaving with the flusher, reclaim, evictions and
remounts, and a crash anywhere. `IgetFindsInode`, `CacheAlwaysCoherent`, `ReadsIsolated`,
`DiskAlwaysConsistent`, `AckedAlwaysDurable`, and `NamespaceImplemented`, the refinement of
`SimplefsNamespace`. Two hypotheses (`Sound`) come with them, and each is needed:

- `Signalled = {}`: no wait is interrupted. With signals a create can leave a record whose inode was
  never stored, see `simplefs_crash` above.
- `WellFormed(Image)`: the volume mounted first has its used blocks marked as used, each with one
  owner, and its records name one existing inode each. The volume that `mkfs.c` writes is *not* one,
  because of its free map: that is the finding of `simplefs_mkfs`, and these theorems say what the
  driver does once the map is right. `FormattedAssumption` in `MCSimplefs` has TLC evaluate both
  facts: the volume of `simplefs_crash` satisfies the hypothesis and that of `mkfs.c` does not.

None of the properties is inductive. The invariant `CrashInv` adds why they hold:

- `CountInv`, `StoreInv`: the disk is behind the buffers by at most the one inode that the holder of
  `dir_lock` is adding, and what it has in that slot is empty.
- `ContentInv`: a file's block, in both copies, holds that file's data only; a directory's block is
  written through; a free block is zero in both copies, so a new inode starts empty.
- `RecordInv`: a record that its directory counts names an inode that is stored, not one still being
  added; no other record names it, and none in the directory has its name. This is the
  order in which `simplefs_create_fs_object` writes: inode, record, and only then the count.
- `CacheInv`: an in-memory inode is a stored one, equal to it except in the count while a task is
  saving it, it belongs to one path, and a path below the root was reached through a record.
- `CallInv`: what a call relies on at each place: its directory stays in memory, the name it creates
  is still new and the directory has room, the record it is looking up is still there, and a create
  past its record finds that record behind the last one counted.
- `ApartInv`: the VFS's lock on the directory keeps creates in it apart.

Because a crash puts the disk in place of the buffers, most of the work is in showing that each step
leaves the disk, too, in a state from which the invariant holds after a mount. `AckedAlwaysDurable`
and `NamespaceImplemented` follow from what each step does to the tree on the disk: the save of the
parent's count adds one entry, every other step none.

*mutex* (`UserCallProofs`), from `DeviceAssumption`: `MutualExclusion`; `DeviceIsAtomic`, the
refinement of `AtomicBuffer`, for any threads, buffer and lengths; `PocNeverTorn`, the claim of
`poc.c`: if all calls pass the whole buffer, a read returns a single value (a theorem only; no
run is configured for it). The invariant
`CopyInv` says how far each copy is and that what it has moved agrees on both sides, and that
files are open only once the mutex is set up.

*ftrace* (`FtraceBlockProofs`), from `CountAssumption`: `AllOrNothing`, `NeverUnfiltered`,
`OriginalBeforeHook` and `NoRecursion`, for an array of any length and any tasks. `LoaderInv`
derives from the loader's place and index which hooks are registered and which filters are set;
`TaskInv` says that a task is inside at most the hook of its own function.

*RCU* (`RcuFooProofs`), from `RcuAssumption`: `ReadersAreSafe`, `FreedOnce` and `LastVersionsFreed`,
for any number of rounds. `ReadsSafe` is not inductive: that a reader's object is still in the heap
depends on why nobody frees it. The invariant numbers the versions. `HeapInv` says exactly what is
allocated, by owner: what is published, what an updater has made, what it is about to retire, what
a callback holds. `Protected` says of a reader's object that it is published, or not yet handed to
a grace period, or that its grace period waits for this reader. `CallbackInv` and `VersionInv` keep
the versions apart, `SeenInv` bounds what a reader has printed by what it holds. One lemma per
action.

*notifier and netlink* (`UserCallProofs`), for any number of subscribers, writers and programs:
`NoCallIntoUnloaded`, `EveryoneCalledOnce`, `AnswersNeverMix`. `ChainInv`: the chain has exactly the
modules between register and unregister, without repetition. `WriteInv`: during a walk a write has
called the part of the chain that it has passed, and those it still owes a call are registered.
`NetlinkInv` says that the program past `bind` is the one that has the port.

*ioctl_mmap* (`IoctlMmapProofs`), from `MmapAssumption`, for any finite set of processes, any number
of cells and of mappings: `MappingsAlwaysCounted` and `TestAlwaysShows`. `PlaceInv` says what a
process has open and mapped at each place of `test.c`; `counter` is then the cardinality of a set
that every step changes by at most the mappings of one process. `TestShows` speaks of the moment
when a display is complete, the invariant `ContentInv` of all moments before it: what a process has
shown so far, what it has loaded and not yet stored, and the page itself are *good* for it, which
means its own values, and in the touched cell one increment for some of the processes that are
through with theirs, exactly its own if it crossed nobody. `MeetInv` is why another process cannot
undo this: processes that run together have crossed, and one that is spoiled spoils all it meets.

*wake_up, deferred work, umh, udp_send* (`UnloadProofs`). From `TimeAssumption`: `WalksLiveEntries`,
for any timeout and any smaller latency; `SleepInv` bounds what has passed of the sleep by how long
the thread has waited. `NoWorkInFreedModule` and `QueuedWorkRuns`: `StrayInv` says that an exit
function that waits leaves nothing with the kernel, `OnceInv` that an item is due until it is called.
`StaleOnlyIfKilled` (no run states it): the exit function of umh signals a task that is gone only if
a user's signal has ended it. `SenderAlwaysCleansUp`: while no send has failed, the thread leaves its
loop only when `my_exit` has told it to.

*block_device* (`FtraceBlockProofs`), from `BlockAssumption`: `RequestsServedWhileHeld`,
`FailuresUndone`, `BugNeverReached` and `DataTransferred`, for any capacity, tags and requests cut in
any way. `StageInv` gives the resources held at each stage, and says that requests are there only
between `add_disk` and `blk_cleanup_queue`. `RequestInv` says that position and byte count have kept
step with the segments, so that the length is never cut, and that a request alone on its sectors has
moved what lies before its offset.

*pci* (`UnloadProofs`), from `PciAssumption` and `CodecAssumption`, for any number of bindings, of shared
interrupts and of BARs: `LineAlwaysAnswered`, `AllReleased`, `CodecAlwaysReleases`. `HelloInv` gives
what is held at each step of probe and remove, and says that the line is up only between the two port
writes. `CodecInv` does so for `device_init`, and bounds what the static `bars[]` may still name.

Only model-checked: liveness, which is outside the prover's reach (`CallsReturn`, `LoaderReturns`,
`Finishes`, `WaitsEnd`, `CallersReturn`, `Calm`). The other properties of the passing runs are all
stated by theorems.


## Not modelled

- `char_device`, `misc_device`: registration and its undoing, by one thread in a fixed order; the
  file operations keep no state.
- `debugfs`, `sysfs`: one integer each, stored or added to by one statement; a model would restate
  the assignment.
- `netdev`, `netfilter`, `pernet`, `LSM`: handlers that log, or give a verdict on each packet
  alone; what state there is belongs to the kernel.
- `EXPORT_SYMBOL`, `idr`, `proc_fs`, `process_list`: straight-line code that runs once or shows a
  constant.
- `RCU`: unloading while the threads run, and `kthread_stop` on threads that have returned. The code
  does not guard against either; what it does then depends on memory that is already reused.
- `udp_send` version 2: ten packets sent by init, without a thread.
- `ioctl_mmap`: `lseek`, and positions that `test.c` does not reach.
- `pci/unknown`: the file operations, which read and write registers of a device that is not in the
  repository, handlers that wake queues nobody waits on, and a second `device_init` after a failed
  one.
- simplefs: failing disk reads (`BUG_ON`), and full directories.

Hazards that the code has and no property covers are in `PROJECT.json` with the reason: an
interrupted `simplefs_inode_add`, tasks inside a hook at `fh_exit`, the shared interrupt after
`kfree(info)`, and `rcu_test_exit` with running threads. In each the code takes no precaution and
nothing in the repository says that it does.
