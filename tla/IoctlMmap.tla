------------------------------- MODULE IoctlMmap -------------------------------
(***************************************************************************)
(* ioctl_mmap/: a device with one page of integers that is read, written   *)
(* and mapped, and the processes of test.c, which fill it, show it, add to *)
(* one integer through a mapping and show it again.                        *)
(*                                                                         *)
(* An open file or a mapping pins the module.  The node is there before    *)
(* the page: a copy to or from NULL moves nothing and is not noticed, a    *)
(* page fault oopses.  A process whose open fails goes on all the same.    *)
(* Not modelled: lseek, and positions beyond what test.c reaches.          *)
(***************************************************************************)
EXTENDS Integers, FiniteSets

CONSTANTS
  Procs,      \* the processes that run test.c, each of them once
  Cells,      \* the integers that it writes: 10
  Touched,    \* the one that it adds to: 7
  Increment,  \* what it adds: 200
  MaxMaps     \* bound: the mappings of a process, its own and those it duplicates

ASSUME MmapAssumption ==
  /\ IsFiniteSet(Procs) /\ Cells \in Nat \ {0} /\ Touched \in 0 .. Cells - 1
  /\ Increment \in Int /\ MaxMaps \in Nat \ {0}

VARIABLES
  page,       \* data: a function of the cells, or NoPage before and after its time
  mmapdev,    \* how far _mmap_init is: "out", "node", "live"
  counter,    \* counter
  proc,       \* each process: phase, the function main is in, 1 to 4, or 0 before and
              \* 5 after it; at, where in it; pos, the file position, which is also the loop's i; reg, the
              \* mapped[7] it loaded; shown, what it prints; maps, its mappings
  spoiled,    \* processes for which a call on NULL was lost, or the page was freed
  crossed     \* processes that did not run alone

mmapVars == <<page, mmapdev, counter, proc, spoiled, crossed>>

Cell0 == 0 .. Cells - 1
NoPage == <<>>
Blank == [c \in Cell0 |-> -1]
main == <<"create_data", "display_data", "mmap_data", "display_data">>
Running == {p \in Procs : proc[p].phase \in 1 .. 4}
At(p, function, at) == p \in Running /\ main[proc[p].phase] = function /\ proc[p].at = at

MmapInit ==
  /\ page = NoPage /\ mmapdev = "out" /\ counter = 0
  /\ proc = [p \in Procs |-> [phase |-> 0, at |-> "open", pos |-> 0, reg |-> 0,
                              shown |-> Blank, maps |-> 0]]
  /\ spoiled = {} /\ crossed = {}
-------------------------------------------------------------------------------
(* _mmap_init and _mmap_exit *)

mmap_device_create ==
  /\ mmapdev = "out"
  /\ mmapdev' = "node"
  /\ UNCHANGED <<page, counter, proc, spoiled, crossed>>

vmalloc ==
  /\ mmapdev = "node"
  /\ mmapdev' = "live" /\ page' = [c \in Cell0 |-> 0]
  /\ UNCHANGED <<counter, proc, spoiled, crossed>>

_mmap_exit ==
  /\ mmapdev = "live" /\ \A p \in Running : proc[p].at = "open" /\ proc[p].maps = 0
  /\ mmapdev' = "out" /\ page' = NoPage
  /\ spoiled' = spoiled \cup Running
  /\ UNCHANGED <<counter, proc, crossed>>
-------------------------------------------------------------------------------
(* The file operations, as test.c calls them *)

\* main, with its first open.  Who meets a spoiled process is spoiled.
create_data(p) ==
  /\ proc[p].phase = 0 /\ mmapdev # "out"
  /\ proc' = [proc EXCEPT ![p].phase = 1, ![p].at = "io"]
  /\ spoiled' = IF Running \cap spoiled = {} THEN spoiled ELSE spoiled \cup {p}
  /\ crossed' = IF Running = {} THEN crossed ELSE crossed \cup Running \cup {p}
  /\ UNCHANGED <<page, mmapdev, counter>>

mmap_open(p) ==
  /\ mmapdev # "out" /\ p \in Running /\ proc[p].at = "open"
  /\ proc' = [proc EXCEPT ![p].at = "io", ![p].shown = Blank]
  /\ UNCHANGED <<page, mmapdev, counter, spoiled, crossed>>

\* display_data shows nothing; mmap_data uses MAP_FAILED and is killed.
open_fails(p) ==
  /\ mmapdev = "out" /\ p \in Running /\ proc[p].at = "open"
  /\ proc' = [proc EXCEPT ![p].phase = IF At(p, "mmap_data", "open") THEN 5 ELSE @ + 1,
                          ![p].shown = Blank]
  /\ UNCHANGED <<page, mmapdev, counter, spoiled, crossed>>

\* One call of the loop over the cells, after which the position is one further.
Transfer(p, function, shown) ==
  /\ At(p, function, "io")
  /\ proc' = [proc EXCEPT ![p].at = IF proc[p].pos + 1 = Cells THEN "close" ELSE "io",
                          ![p].pos = @ + 1, ![p].shown = shown]
  /\ spoiled' = IF page = NoPage THEN spoiled \cup Running ELSE spoiled
  /\ UNCHANGED <<mmapdev, counter, crossed>>

mmap_write(p) ==
  /\ Transfer(p, "create_data", proc[p].shown)
  /\ page' = IF page = NoPage THEN page ELSE [page EXCEPT ![proc[p].pos] = proc[p].pos]

Show(p, c) ==
  IF page = NoPage THEN proc[p].shown ELSE [proc[p].shown EXCEPT ![proc[p].pos] = page[c]]

read_after_advance(p) ==
  Transfer(p, "display_data", Show(p, (proc[p].pos + 1) % Cells)) /\ UNCHANGED page
mmap_read(p) ==
  Transfer(p, "display_data", Show(p, proc[p].pos)) /\ UNCHANGED page

mmap_release(p) ==
  /\ p \in Running /\ proc[p].at = "close"
  /\ proc' = [proc EXCEPT ![p].at = "open", ![p].phase = @ + 1, ![p].pos = 0]
  /\ UNCHANGED <<page, mmapdev, counter, spoiled, crossed>>
-------------------------------------------------------------------------------
(* The mapping *)

Mapping(p, n, at) ==
  /\ proc' = [proc EXCEPT ![p].maps = @ + n, ![p].at = at]
  /\ counter' = counter + n
  /\ UNCHANGED <<page, mmapdev, spoiled, crossed>>

remap_uncounted(p) ==
  /\ At(p, "mmap_data", "io")
  /\ proc' = [proc EXCEPT ![p].maps = 1, ![p].at = "fault"]
  /\ UNCHANGED <<page, mmapdev, counter, spoiled, crossed>>
\* The kernel does not call vma_ops.open for the mapping that mmap makes.
mmap_remap(p) == At(p, "mmap_data", "io") /\ Mapping(p, 1, "fault")

\* A fork, or a mapping that is split, and its end.
mmap_vma_open(p) == proc[p].maps \in 1 .. MaxMaps - 1 /\ Mapping(p, 1, proc[p].at)
mmap_vma_close(p) == proc[p].maps > 1 /\ Mapping(p, -1, proc[p].at)

\* get_page of no page at all: the process dies, its mappings and file with it.
mmap_vm_fault(p) ==
  /\ At(p, "mmap_data", "fault")
  /\ IF page # NoPage
     THEN proc' = [proc EXCEPT ![p].at = "load"] /\ UNCHANGED counter
     ELSE /\ proc' = [proc EXCEPT ![p].at = "open", ![p].phase = 5, ![p].maps = 0]
          /\ counter' = counter - proc[p].maps
  /\ UNCHANGED <<page, mmapdev, spoiled, crossed>>

\* mapped[7] += 200 is a load and a store.
load(p) ==
  /\ At(p, "mmap_data", "load")
  /\ proc' = [proc EXCEPT ![p].at = "store", ![p].reg = page[Touched]]
  /\ UNCHANGED <<page, mmapdev, counter, spoiled, crossed>>

store(p) ==
  /\ At(p, "mmap_data", "store")
  /\ page' = [page EXCEPT ![Touched] = proc[p].reg + Increment]
  /\ proc' = [proc EXCEPT ![p].at = "unmap", ![p].reg = 0]
  /\ UNCHANGED <<mmapdev, counter, spoiled, crossed>>

munmap(p) == At(p, "mmap_data", "unmap") /\ proc[p].maps = 1 /\ Mapping(p, -1, "close")
-------------------------------------------------------------------------------
MmapNext ==
  \/ mmap_device_create \/ vmalloc \/ _mmap_exit
  \/ \E p \in Procs :
       \/ create_data(p) \/ mmap_open(p) \/ open_fails(p) \/ mmap_write(p) \/ mmap_read(p)
       \/ mmap_release(p) \/ mmap_remap(p) \/ mmap_vma_open(p) \/ mmap_vma_close(p)
       \/ mmap_vm_fault(p) \/ load(p) \/ store(p) \/ munmap(p)

MmapSpec == MmapInit /\ [][MmapNext]_mmapVars
-------------------------------------------------------------------------------
\* The mappings that there are, those of a process numbered from 1.
Mappings == {m \in Procs \X (1 .. MaxMaps) : m[2] <= proc[m[1]].maps}

\* counter is the number of mappings there are, and as long as there is one the
\* page stays: the module is not unloaded under a mapping whose file is closed.
MappingsCounted ==
  /\ counter = Cardinality(Mappings)
  /\ counter > 0 => mmapdev # "out"

\* What test.c shows.  Run alone, the first display has what was created and the
\* second the sum in mapped[7].  Next to others, which may overwrite or lose
\* sums, that cell still has its own value and at most one increment of each.
TestShows ==
  \A p \in Procs \ spoiled :
    At(p, "display_data", "close") =>
      /\ \A c \in Cell0 \ {Touched} : proc[p].shown[c] = c
      /\ \E k \in 0 .. Cardinality(Procs) :
           /\ proc[p].shown[Touched] = Touched + k * Increment
           /\ p \notin crossed => k = (IF proc[p].phase = 4 THEN 1 ELSE 0)
===============================================================================
