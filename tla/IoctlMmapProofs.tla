---------------------------- MODULE IoctlMmapProofs ----------------------------
(***************************************************************************)
(* The device of ioctl_mmap/ and the processes of test.c: mappings are     *)
(* counted, and what the processes show, for any number of them.           *)
(***************************************************************************)
EXTENDS IoctlMmap, FiniteSetTheorems, TLAPS

Phases == 0 .. 5
Mapped == {"fault", "load", "store", "unmap"}
Places == {"open", "io", "close"} \cup Mapped
Positions == 0 .. Cells
Pages == [Cell0 -> Int]
MapCounts == 0 .. MaxMaps

ProcType ==
  [phase : Phases, at : Places, pos : Positions, reg : Int, shown : Pages, maps : MapCounts]

MmapType ==
  /\ mmapdev \in {"out", "node", "live"} /\ counter \in Int
  /\ proc \in [Procs -> ProcType]
  /\ spoiled \subseteq Procs /\ crossed \subseteq Procs
  /\ IF mmapdev = "live" THEN page \in Pages ELSE page = NoPage

\* Where a process with record r is: an open file pins the module, and only
\* mmap_data has mappings.
Place(r, dev) ==
  /\ r.at # "open" => r.phase \in 1 .. 4 /\ dev # "out"
  /\ r.maps > 0 <=> r.at \in Mapped
  /\ r.at \in Mapped => r.phase = 3
  /\ r.at \in {"load", "store"} => dev = "live"
  /\ r.phase = 1 => r.at # "open"
  /\ r.phase # 3 => /\ r.at = "open" => r.pos = 0
                    /\ r.at = "io" => r.pos < Cells
                    /\ r.at = "close" => r.pos = Cells
  /\ r.phase = 3 => r.pos = 0

PlaceInv == \A p \in Procs : Place(proc[p], mmapdev)

\* A spoiled process spoils those it meets; whoever has met nobody is alone.
MeetInv ==
  /\ \A p \in Procs : proc[p].phase = 0 => p \notin spoiled /\ p \notin crossed
  /\ \A p, q \in Running : p \in spoiled => q \in spoiled
  /\ \A p, q \in Running : p # q => p \in crossed

\* The processes that have added to mapped[7], or are through without.
Through(r) == r.phase > 3 \/ (r.phase = 3 /\ r.at \in {"unmap", "close"})
Stored == {p \in Procs : Through(proc[p])}

\* v is what p may find in mapped[7], stored being the processes that are through
\* with it and met those that did not run alone.
Fits(p, v, stored, met) ==
  \E k \in 0 .. Cardinality(stored) :
    /\ v = Touched + k * Increment
    /\ p \notin met => k = (IF p \in stored THEN 1 ELSE 0)

\* The first n integers of f are what p may find there.
Good(p, f, n, stored, met) ==
  \A c \in Cell0 : c < n => IF c = Touched THEN Fits(p, f[c], stored, met) ELSE f[c] = c

\* What process p with record r has seen of the page f.
Content(p, r, f, dev, stored, met) ==
  /\ r.phase = 1 /\ r.pos > 0 => dev = "live" /\ Good(p, f, r.pos, stored, met)
  /\ r.phase > 1 => dev = "live" /\ Good(p, f, Cells, stored, met)
  /\ r.phase \in {2, 4} /\ r.at # "open" => Good(p, r.shown, r.pos, stored, met)
  /\ r.at = "store" => Fits(p, r.reg, stored, met)

ContentInv == \A p \in Running \ spoiled : Content(p, proc[p], page, mmapdev, Stored, crossed)

MmapInv == MmapType /\ PlaceInv /\ MeetInv /\ counter = Cardinality(Mappings) /\ ContentInv

\* What a step makes of the process that takes it; the others stay.
Becomes(p, phase, at, pos, reg, shown, maps) ==
  /\ proc' \in [Procs -> ProcType]
  /\ \A q \in Procs : q # p => proc'[q] = proc[q]
  /\ proc'[p].phase = phase /\ proc'[p].at = at /\ proc'[p].pos = pos
  /\ proc'[p].reg = reg /\ proc'[p].shown = shown /\ proc'[p].maps = maps
  /\ Place(proc'[p], mmapdev)
  /\ mmapdev' = mmapdev /\ counter' = counter + (maps - proc[p].maps)

\* All but create_data: the process is running, and meets nobody new.
Goes(p, phase, at, pos, reg, shown, maps) ==
  /\ Becomes(p, phase, at, pos, reg, shown, maps)
  /\ p \in Running /\ phase # 0 /\ crossed' = crossed

LEMMA PageThere == ASSUME MmapType PROVE (page = NoPage) <=> (mmapdev # "live")
<1>1. Cells - 1 \in Nat /\ 0 \in Cell0
  BY MmapAssumption DEF Cell0
<1>2. ASSUME page \in Pages PROVE page # NoPage
  BY <1>1, <1>2 DEF NoPage, Pages
<1> QED BY <1>2 DEF MmapType

\* The values of the fields.
LEMMA Typed ==
  ASSUME MmapType, PlaceInv, NEW p \in Procs
  PROVE  /\ proc \in [Procs -> ProcType] /\ proc[p] \in ProcType /\ Place(proc[p], mmapdev)
         /\ proc[p].phase \in 0 .. 5 /\ proc[p].pos \in 0 .. Cells /\ proc[p].maps \in 0 .. MaxMaps
         /\ proc[p].shown \in Pages /\ proc[p].reg \in Int /\ counter \in Int
         /\ Blank \in Pages /\ Cells \in Nat \ {0} /\ MaxMaps \in Nat \ {0}
         /\ 0 \in Positions /\ 0 \in MapCounts /\ 1 \in MapCounts /\ 1 \in Phases /\ 5 \in Phases
         /\ \A at \in {"open", "io", "close", "fault", "load", "store", "unmap"} : at \in Places
<1>1. proc[p] \in ProcType /\ Place(proc[p], mmapdev)
  BY DEF MmapType, PlaceInv
<1> QED BY <1>1, MmapAssumption
        DEF MmapType, ProcType, Phases, Places, Mapped, Positions, Pages, MapCounts, Blank

LEMMA CreateStep ==
  ASSUME MmapType, PlaceInv, NEW p \in Procs, create_data(p)
  PROVE  /\ proc[p].phase = 0 /\ proc[p].pos = 0
         /\ Becomes(p, 1, "io", 0, proc[p].reg, proc[p].shown, proc[p].maps)
         /\ spoiled' = (IF Running \cap spoiled = {} THEN spoiled ELSE spoiled \cup {p})
         /\ crossed' = (IF Running = {} THEN crossed ELSE crossed \cup Running \cup {p})
         /\ UNCHANGED page
<1>1. proc[p].phase = 0 /\ proc[p].pos = 0 /\ proc[p].maps = 0 /\ mmapdev # "out"
  BY Typed DEF create_data, Place, Mapped
<1>2. proc' \in [Procs -> ProcType]
  BY Typed DEF create_data, ProcType
<1>3. Becomes(p, 1, "io", 0, proc[p].reg, proc[p].shown, proc[p].maps)
  BY <1>1, <1>2, Typed DEF Becomes, create_data, ProcType, Place, Mapped
<1> QED BY <1>1, <1>3 DEF create_data

LEMMA OpenStep ==
  ASSUME MmapType, PlaceInv, NEW p \in Procs, mmap_open(p)
  PROVE  /\ proc[p].phase \in 2 .. 4 /\ proc[p].at = "open" /\ proc[p].pos = 0
         /\ Goes(p, proc[p].phase, "io", 0, proc[p].reg, Blank, proc[p].maps)
         /\ UNCHANGED <<page, spoiled>>
<1>1. /\ proc[p].phase \in 2 .. 4 /\ proc[p].at = "open" /\ proc[p].pos = 0 /\ proc[p].maps = 0
      /\ mmapdev # "out" /\ p \in Running
  BY Typed DEF mmap_open, Running, Place, Mapped
<1>2. proc' \in [Procs -> ProcType]
  BY Typed DEF mmap_open, ProcType
<1>3. Becomes(p, proc[p].phase, "io", 0, proc[p].reg, Blank, proc[p].maps)
  BY <1>1, <1>2, Typed DEF Becomes, mmap_open, ProcType, Place, Mapped
<1> QED BY <1>1, <1>3 DEF mmap_open, Goes

LEMMA FailStep ==
  ASSUME MmapType, PlaceInv, NEW p \in Procs, open_fails(p)
  PROVE  /\ proc[p].phase \in 2 .. 4 /\ mmapdev = "out"
         /\ \E n \in 3 .. 5 : Goes(p, n, "open", proc[p].pos, proc[p].reg, Blank, proc[p].maps)
         /\ UNCHANGED <<page, spoiled>>
<1>1. /\ proc[p].phase \in 2 .. 4 /\ proc[p].at = "open" /\ proc[p].pos = 0 /\ proc[p].maps = 0
      /\ mmapdev = "out" /\ p \in Running
  BY Typed DEF open_fails, Running, Place, Mapped
<1> DEFINE n == IF At(p, "mmap_data", "open") THEN 5 ELSE proc[p].phase + 1
<1>2. n \in 3 .. 5 /\ n \in Phases
  BY <1>1 DEF Phases
<1>3. proc' = [proc EXCEPT ![p].phase = n, ![p].shown = Blank]
  BY Typed DEF open_fails, ProcType
<1> HIDE DEF n
<1>4. proc' \in [Procs -> ProcType]
  BY <1>2, <1>3, Typed DEF ProcType
<1>5. Becomes(p, n, "open", proc[p].pos, proc[p].reg, Blank, proc[p].maps)
  BY <1>1, <1>2, <1>3, <1>4, Typed DEF Becomes, ProcType, Place, Mapped, open_fails
<1> QED BY <1>1, <1>2, <1>5 DEF open_fails, Goes

LEMMA TransferStep ==
  ASSUME MmapType, PlaceInv, NEW p \in Procs, NEW function, NEW shown \in Pages,
         function \in {"create_data", "display_data"}, Transfer(p, function, shown)
  PROVE  /\ proc[p].phase \in (IF function = "create_data" THEN {1} ELSE {2, 4}) /\ proc[p].at = "io"
         /\ proc[p].pos \in Cell0
         /\ \E at \in {"close", "io"} :
              Goes(p, proc[p].phase, at, proc[p].pos + 1, proc[p].reg, shown, proc[p].maps)
         /\ spoiled' = (IF mmapdev = "live" THEN spoiled ELSE spoiled \cup Running)
<1>1. /\ proc[p].phase \in (IF function = "create_data" THEN {1} ELSE {2, 4}) /\ p \in Running
      /\ proc[p].at = "io"
  BY DEF Transfer, At, Running, main
<1>2. /\ proc[p].pos \in Cell0 /\ proc[p].pos + 1 \in Positions /\ proc[p].maps = 0
      /\ proc[p].phase \in {1, 2, 4} /\ mmapdev # "out"
  BY <1>1, Typed DEF Place, Mapped, Positions, Cell0
<1> DEFINE at == IF proc[p].pos + 1 = Cells THEN "close" ELSE "io"
<1>3. at \in {"close", "io"} /\ at \in Places /\ (at = "close" <=> proc[p].pos + 1 = Cells)
  BY Typed
<1>4. proc' = [proc EXCEPT ![p].at = at, ![p].pos = proc[p].pos + 1, ![p].shown = shown]
  BY Typed DEF Transfer, ProcType
<1> HIDE DEF at
<1>5. proc' \in [Procs -> ProcType]
  BY <1>2, <1>3, <1>4, Typed DEF ProcType
<1>6. Place([phase |-> proc[p].phase, at |-> at, pos |-> proc[p].pos + 1, maps |-> 0], mmapdev)
  BY <1>2, <1>3, Typed DEF Place, Mapped, Cell0
<1>7. Becomes(p, proc[p].phase, at, proc[p].pos + 1, proc[p].reg, shown, proc[p].maps)
  BY <1>2, <1>4, <1>5, <1>6, Typed DEF Becomes, ProcType, Place, Transfer
<1> QED BY <1>1, <1>2, <1>3, <1>7, PageThere DEF Transfer, Goes

LEMMA ReleaseStep ==
  ASSUME MmapType, PlaceInv, NEW p \in Procs, mmap_release(p)
  PROVE  /\ proc[p].phase \in 1 .. 4 /\ proc[p].at = "close" /\ (proc[p].phase = 1 => proc[p].pos = Cells)
         /\ Goes(p, proc[p].phase + 1, "open", 0, proc[p].reg, proc[p].shown, proc[p].maps)
         /\ UNCHANGED <<page, spoiled>>
<1>1. /\ proc[p].phase \in 1 .. 4 /\ proc[p].at = "close" /\ (proc[p].phase = 1 => proc[p].pos = Cells)
      /\ proc[p].maps = 0 /\ p \in Running /\ proc[p].phase + 1 \in Phases
  BY Typed DEF mmap_release, Running, Place, Mapped, Phases
<1>2. proc' \in [Procs -> ProcType]
  BY <1>1, Typed DEF mmap_release, ProcType
<1>3. Becomes(p, proc[p].phase + 1, "open", 0, proc[p].reg, proc[p].shown, proc[p].maps)
  BY <1>1, <1>2, Typed DEF Becomes, mmap_release, ProcType, Place, Mapped
<1> QED BY <1>1, <1>3 DEF mmap_release, Goes

\* Steps of mmap_data: the phase stays 3, the page and what was met too.
Maps(p, at, reg, maps) ==
  /\ proc[p].phase = 3
  /\ Goes(p, 3, at, 0, reg, proc[p].shown, maps) /\ UNCHANGED spoiled

LEMMA MappingStep ==
  ASSUME MmapType, PlaceInv, NEW p \in Procs, NEW n \in {1, -1}, NEW at \in Places, Mapping(p, n, at),
         proc[p].phase = 3, mmapdev # "out", proc[p].maps + n \in MapCounts,
         proc[p].maps + n > 0 <=> at \in Mapped, at \in {"load", "store"} => mmapdev = "live"
  PROVE  Maps(p, at, proc[p].reg, proc[p].maps + n) /\ UNCHANGED page
<1>1. proc' \in [Procs -> ProcType]
  BY Typed DEF Mapping, ProcType
<1>2. proc[p].pos = 0
  BY Typed DEF Place
<1>3. counter + n = counter + ((proc[p].maps + n) - proc[p].maps)
  BY Typed
<1>4. Becomes(p, 3, at, 0, proc[p].reg, proc[p].shown, proc[p].maps + n)
  BY <1>1, <1>2, <1>3, Typed DEF Becomes, Mapping, ProcType, Place
<1> QED BY <1>4 DEF Mapping, Goes, Maps, Running

LEMMA RemapStep ==
  ASSUME MmapType, PlaceInv, NEW p \in Procs,
         mmap_remap(p) \/ mmap_vma_open(p) \/ mmap_vma_close(p) \/ munmap(p)
  PROVE  /\ UNCHANGED page
         /\ \E at \in Places, n \in MapCounts :
              /\ Maps(p, at, proc[p].reg, n)
              /\ at = proc[p].at \/ <<proc[p].at, at>> \in {<<"io", "fault">>, <<"unmap", "close">>}
<1>1. CASE mmap_remap(p)
  <2>1. proc[p].phase = 3 /\ proc[p].at = "io" /\ proc[p].maps = 0 /\ mmapdev # "out"
    BY <1>1, Typed DEF mmap_remap, At, Running, main, Place, Mapped
  <2>2. Maps(p, "fault", proc[p].reg, proc[p].maps + 1) /\ UNCHANGED page
    BY <1>1, <2>1, Typed, MappingStep DEF mmap_remap, Mapped
  <2> QED BY <2>1, <2>2, Typed
<1>2. CASE mmap_vma_open(p)
  <2>1. /\ proc[p].phase = 3 /\ proc[p].at \in Mapped /\ mmapdev # "out" /\ proc[p].at \in Places
        /\ proc[p].maps + 1 \in MapCounts /\ proc[p].maps > 0
    BY <1>2, Typed DEF mmap_vma_open, Place, Mapped, Places, MapCounts
  <2>2. Maps(p, proc[p].at, proc[p].reg, proc[p].maps + 1) /\ UNCHANGED page
    BY <1>2, <2>1, Typed, MappingStep DEF mmap_vma_open, Place
  <2> QED BY <2>1, <2>2
<1>3. CASE mmap_vma_close(p)
  <2>1. /\ proc[p].phase = 3 /\ proc[p].at \in Mapped /\ mmapdev # "out" /\ proc[p].at \in Places
        /\ proc[p].maps + (-1) \in MapCounts /\ proc[p].maps + (-1) > 0
    BY <1>3, Typed DEF mmap_vma_close, Place, Mapped, Places, MapCounts
  <2>2. Maps(p, proc[p].at, proc[p].reg, proc[p].maps + (-1)) /\ UNCHANGED page
    BY <1>3, <2>1, Typed, MappingStep DEF mmap_vma_close, Place
  <2> QED BY <2>1, <2>2
<1>4. CASE munmap(p)
  <2>1. proc[p].phase = 3 /\ proc[p].at = "unmap" /\ proc[p].maps + (-1) = 0 /\ mmapdev # "out"
    BY <1>4, Typed DEF munmap, At, Running, main, Place, Mapped
  <2>2. Maps(p, "close", proc[p].reg, proc[p].maps + (-1)) /\ UNCHANGED page
    BY <1>4, <2>1, Typed, MappingStep DEF munmap, Mapped
  <2> QED BY <2>1, <2>2, Typed
<1> QED BY <1>1, <1>2, <1>3, <1>4

LEMMA FaultStep ==
  ASSUME MmapType, PlaceInv, NEW p \in Procs, mmap_vm_fault(p)
  PROVE  /\ proc[p].phase = 3 /\ proc[p].at = "fault"
         /\ IF mmapdev = "live" THEN Maps(p, "load", proc[p].reg, proc[p].maps)
                                ELSE Goes(p, 5, "open", 0, proc[p].reg, proc[p].shown, 0)
         /\ UNCHANGED <<page, spoiled>>
<1>1. proc[p].phase = 3 /\ proc[p].at = "fault" /\ proc[p].pos = 0 /\ p \in Running
  BY Typed DEF mmap_vm_fault, At, Running, main, Place, Mapped
<1>2. CASE mmapdev = "live"
  <2>1. proc' = [proc EXCEPT ![p].at = "load"] /\ UNCHANGED counter
    BY <1>2, PageThere DEF mmap_vm_fault
  <2>2. proc' \in [Procs -> ProcType]
    BY <2>1, Typed DEF ProcType
  <2>3. Becomes(p, 3, "load", 0, proc[p].reg, proc[p].shown, proc[p].maps)
    BY <1>1, <1>2, <2>1, <2>2, Typed DEF Becomes, ProcType, Place, Mapped, mmap_vm_fault
  <2> QED BY <1>1, <1>2, <2>3 DEF Maps, Goes, mmap_vm_fault
<1>3. CASE mmapdev # "live"
  <2>1. /\ proc' = [proc EXCEPT ![p].at = "open", ![p].phase = 5, ![p].maps = 0]
        /\ counter' = counter - proc[p].maps
    BY <1>3, PageThere DEF mmap_vm_fault
  <2>2. proc' \in [Procs -> ProcType]
    BY <2>1, Typed DEF ProcType
  <2>3. Becomes(p, 5, "open", 0, proc[p].reg, proc[p].shown, 0)
    BY <1>1, <2>1, <2>2, Typed DEF Becomes, ProcType, Place, Mapped, mmap_vm_fault
  <2> QED BY <1>1, <1>3, <2>3 DEF Goes, mmap_vm_fault
<1> QED BY <1>2, <1>3

LEMMA LoadStep ==
  ASSUME MmapType, PlaceInv, NEW p \in Procs, load(p)
  PROVE  proc[p].at = "load" /\ Maps(p, "store", page[Touched], proc[p].maps) /\ UNCHANGED page
<1>1. proc[p].phase = 3 /\ proc[p].at = "load" /\ proc[p].pos = 0 /\ p \in Running /\ mmapdev = "live"
  BY Typed DEF load, At, Running, main, Place, Mapped
<1>2. page[Touched] \in Int
  BY <1>1, MmapAssumption DEF MmapType, Pages, Cell0
<1>3. proc' \in [Procs -> ProcType]
  BY <1>2, Typed DEF load, ProcType
<1>4. Becomes(p, 3, "store", 0, page[Touched], proc[p].shown, proc[p].maps)
  BY <1>1, <1>2, <1>3, Typed DEF Becomes, load, ProcType, Place, Mapped
<1> QED BY <1>1, <1>4 DEF load, Maps, Goes

LEMMA StoreStep ==
  ASSUME MmapType, PlaceInv, NEW p \in Procs, store(p)
  PROVE  /\ proc[p].at = "store" /\ mmapdev = "live" /\ Maps(p, "unmap", 0, proc[p].maps)
         /\ page \in Pages /\ Touched \in Cell0 /\ page' \in Pages
         /\ page' = [page EXCEPT ![Touched] = proc[p].reg + Increment]
<1>1. proc[p].phase = 3 /\ proc[p].at = "store" /\ proc[p].pos = 0 /\ p \in Running /\ mmapdev = "live"
  BY Typed DEF store, At, Running, main, Place, Mapped
<1>2. proc' \in [Procs -> ProcType]
  BY Typed DEF store, ProcType
<1>3. Becomes(p, 3, "unmap", 0, 0, proc[p].shown, proc[p].maps)
  BY <1>1, <1>2, Typed DEF Becomes, store, ProcType, Place, Mapped
<1>4. page \in Pages /\ Touched \in Cell0 /\ page' \in Pages
  BY <1>1, Typed, MmapAssumption DEF store, MmapType, Pages, Cell0
<1> QED BY <1>1, <1>3, <1>4 DEF store, Maps, Goes

LEMMA WriteStep ==
  ASSUME MmapType, PlaceInv, NEW p \in Procs, mmap_write(p)
  PROVE  /\ Transfer(p, "create_data", proc[p].shown) /\ proc[p].shown \in Pages
         /\ IF mmapdev = "live"
            THEN page' = [page EXCEPT ![proc[p].pos] = proc[p].pos] /\ page \in Pages /\ page' \in Pages
            ELSE page' = page
<1>1. Transfer(p, "create_data", proc[p].shown) /\ proc[p].shown \in Pages
  BY Typed DEF mmap_write
<1>2. proc[p].pos \in Cell0 /\ proc[p].pos \in Int
  BY <1>1, Typed, TransferStep DEF Cell0
<1>3. ASSUME mmapdev = "live" PROVE page \in Pages /\ page' = [page EXCEPT ![proc[p].pos] = proc[p].pos]
  BY <1>3, PageThere DEF mmap_write, MmapType
<1>4. ASSUME mmapdev = "live" PROVE page' \in Pages
  BY <1>2, <1>3, <1>4 DEF Pages
<1> QED BY <1>1, <1>3, <1>4, PageThere DEF mmap_write

LEMMA ReadStep ==
  ASSUME MmapType, PlaceInv, NEW p \in Procs, mmap_read(p)
  PROVE  /\ Transfer(p, "display_data", Show(p, proc[p].pos)) /\ UNCHANGED page
         /\ Show(p, proc[p].pos) \in Pages
<1>1. proc[p].phase \in {2, 4} /\ proc[p].at = "io"
  BY DEF mmap_read, Transfer, At, Running, main
<1>2. proc[p].pos \in Cell0
  BY <1>1, Typed DEF Place, Cell0
<1>3. Show(p, proc[p].pos) \in Pages
  BY <1>2, Typed, PageThere DEF Show, MmapType, Pages
<1> QED BY <1>3 DEF mmap_read

\* What every step of a process has in common.
Steps(p) ==
  /\ proc' \in [Procs -> ProcType]
  /\ \A q \in Procs : q # p => proc'[q] = proc[q]
  /\ Place(proc'[p], mmapdev)
  /\ mmapdev' = mmapdev /\ counter' = counter + (proc'[p].maps - proc[p].maps)
  /\ IF mmapdev = "live" THEN page' \in Pages ELSE page' = page

Continues(p) ==
  /\ p \in Running /\ proc'[p].phase # 0 /\ crossed' = crossed
  /\ spoiled' = spoiled \/ spoiled' = spoiled \cup Running

LEMMA CommonStep ==
  ASSUME MmapType, PlaceInv, NEW p \in Procs,
         \/ mmap_open(p) \/ open_fails(p) \/ mmap_write(p) \/ mmap_read(p) \/ mmap_release(p)
         \/ mmap_remap(p) \/ mmap_vma_open(p) \/ mmap_vma_close(p) \/ munmap(p)
         \/ mmap_vm_fault(p) \/ load(p) \/ store(p)
  PROVE  Steps(p) /\ Continues(p)
<1> USE DEF Steps, Continues, Goes, Becomes, MmapType
<1>1. CASE mmap_open(p)
  BY <1>1, OpenStep
<1>2. CASE open_fails(p)
  BY <1>2, FailStep
<1>3. CASE mmap_write(p)
  BY <1>3, WriteStep, TransferStep
<1>4. CASE mmap_read(p)
  BY <1>4, ReadStep, TransferStep
<1>5. CASE mmap_release(p)
  BY <1>5, ReleaseStep
<1>6. CASE mmap_remap(p) \/ mmap_vma_open(p) \/ mmap_vma_close(p) \/ munmap(p)
  BY <1>6, RemapStep DEF Maps
<1>7. CASE mmap_vm_fault(p)
  BY <1>7, FaultStep DEF Maps
<1>8. CASE load(p)
  BY <1>8, LoadStep DEF Maps
<1>9. CASE store(p)
  BY <1>9, StoreStep DEF Maps
<1> QED BY <1>1, <1>2, <1>3, <1>4, <1>5, <1>6, <1>7, <1>8, <1>9

\* Type, places and what was met.
LEMMA PlaceStep ==
  ASSUME MmapType, PlaceInv, MeetInv, [MmapNext]_mmapVars
  PROVE  MmapType' /\ PlaceInv' /\ MeetInv'
<1>1. CASE mmap_device_create
  BY <1>1 DEF mmap_device_create, MmapType, PlaceInv, Place, MeetInv, Running
<1>2. CASE vmalloc
  BY <1>2 DEF vmalloc, MmapType, Pages, PlaceInv, Place, MeetInv, Running
<1>3. CASE _mmap_exit
  <2>1. MmapType' /\ MeetInv'
    BY <1>3 DEF _mmap_exit, MmapType, MeetInv, Running
  <2>2. ASSUME NEW p \in Procs PROVE Place(proc[p], "out")
    BY <1>3, Typed DEF _mmap_exit, Place, Mapped, Running
  <2> QED BY <1>3, <2>1, <2>2 DEF _mmap_exit, PlaceInv
<1>4. ASSUME NEW p \in Procs, create_data(p) PROVE MmapType' /\ PlaceInv' /\ MeetInv'
  <2>1. MmapType' /\ PlaceInv'
    BY <1>4, CreateStep, Typed DEF Becomes, MmapType, PlaceInv, Running
  <2>2. Running' = Running \cup {p} /\ p \notin Running
    BY <1>4, CreateStep DEF Becomes, Running
  <2>3. \A q \in Procs : proc'[q].phase = 0 => proc[q].phase = 0 /\ q # p /\ q \notin Running
    BY <1>4, CreateStep DEF Becomes, Running
  <2> QED BY <1>4, <2>1, <2>2, <2>3, CreateStep DEF MeetInv
<1>5. ASSUME NEW p \in Procs, Steps(p), Continues(p) PROVE MmapType' /\ PlaceInv' /\ MeetInv'
  <2>1. MmapType' /\ PlaceInv'
    <3>1. counter' \in Int
      BY <1>5, Typed DEF Steps, ProcType, MapCounts
    <3> QED BY <1>5, <3>1 DEF Steps, Continues, MmapType, PlaceInv, Running
  <2>2. Running' \subseteq Running
    BY <1>5 DEF Steps, Continues, Running
  <2>3. \A q \in Procs : proc'[q].phase = 0 => proc[q].phase = 0 /\ q \notin Running
    BY <1>5 DEF Steps, Continues, Running
  <2> QED BY <1>5, <2>1, <2>2, <2>3 DEF Continues, MeetInv
<1>6. CASE UNCHANGED mmapVars
  BY <1>6 DEF mmapVars, MmapType, PlaceInv, MeetInv, Running
<1> QED BY <1>1, <1>2, <1>3, <1>4, <1>5, <1>6, CommonStep DEF MmapNext

LEMMA MappingsFinite == IsFiniteSet(Mappings)
<1>1. IsFiniteSet(1 .. MaxMaps)
  BY FS_Interval, MmapAssumption
<1>2. IsFiniteSet(Procs \X (1 .. MaxMaps))
  BY <1>1, FS_Product, MmapAssumption
<1>3. Mappings \in SUBSET (Procs \X (1 .. MaxMaps))
  BY DEF Mappings
<1> QED BY <1>2, <1>3, FS_Subset

\* The first n mappings of p.
LEMMA OwnMappings ==
  ASSUME NEW p, NEW n \in Nat
  PROVE  IsFiniteSet({<<p, k>> : k \in 1 .. n}) /\ Cardinality({<<p, k>> : k \in 1 .. n}) = n
<1> DEFINE Own == {<<p, k>> : k \in 1 .. n}
           f == [k \in 1 .. n |-> <<p, k>>]
<1>1. f \in Bijection(1 .. n, Own)
  BY DEF Bijection, Injection, Surjection, IsInjective
<1>2. ExistsBijection(1 .. n, Own)
  BY <1>1 DEF ExistsBijection
<1> QED BY <1>2, FS_CountingElements, FS_NatBijection

\* When p goes from n mappings to another number, that many are there more or less.
LEMMA MappingsChange ==
  ASSUME MmapType, MmapType', NEW p \in Procs, \A q \in Procs : q # p => proc'[q] = proc[q]
  PROVE  Cardinality(Mappings') = Cardinality(Mappings) + (proc'[p].maps - proc[p].maps)
<1> DEFINE n == proc[p].maps
           m == proc'[p].maps
           Own(k) == {<<p, i>> : i \in 1 .. k}
           Rest == {x \in Mappings : x[1] # p}
<1>1. n \in 0 .. MaxMaps /\ m \in 0 .. MaxMaps /\ MaxMaps \in Nat
  BY MmapAssumption DEF MmapType, ProcType, MapCounts
<1>2. Mappings = Rest \cup Own(n) /\ Rest \cap Own(n) = {}
  BY <1>1 DEF Mappings
<1>3. Mappings' = Rest \cup Own(m) /\ Rest \cap Own(m) = {}
  BY <1>1 DEF Mappings
<1>4. IsFiniteSet(Rest)
  BY MappingsFinite, FS_Subset
<1>5. ASSUME NEW k \in Nat, Rest \cap Own(k) = {} PROVE Cardinality(Rest \cup Own(k)) = Cardinality(Rest) + k
  <2>1. IsFiniteSet(Own(k)) /\ Cardinality(Own(k)) = k
    BY OwnMappings
  <2> HIDE DEF Rest, Own
  <2>2. Cardinality(Rest \cup Own(k)) = Cardinality(Rest) + Cardinality(Own(k)) - Cardinality({})
    BY <1>4, <1>5, <2>1, FS_Union
  <2> QED BY <1>4, <2>1, <2>2, FS_EmptySet, FS_CardinalityType
<1>6. n \in Nat /\ m \in Nat /\ Cardinality(Rest) \in Nat
  BY <1>1, <1>4, FS_CardinalityType
<1> HIDE DEF n, m, Own, Rest
<1>7. Cardinality(Mappings) = Cardinality(Rest) + n /\ Cardinality(Mappings') = Cardinality(Rest) + m
  BY <1>2, <1>3, <1>5, <1>6
<1>8. Cardinality(Mappings') = Cardinality(Mappings) + (m - n)
  BY <1>6, <1>7
<1> QED BY <1>8 DEF n, m

LEMMA CountStep ==
  ASSUME MmapType, MmapType', PlaceInv, counter = Cardinality(Mappings), [MmapNext]_mmapVars
  PROVE  counter' = Cardinality(Mappings')
<1>1. CASE mmap_device_create \/ vmalloc \/ _mmap_exit \/ UNCHANGED mmapVars
  BY <1>1 DEF mmap_device_create, vmalloc, _mmap_exit, mmapVars, Mappings
<1>2. ASSUME NEW p \in Procs, create_data(p) PROVE counter' = Cardinality(Mappings')
  BY <1>2, CreateStep, MappingsChange DEF Becomes
<1>3. ASSUME NEW p \in Procs, Steps(p) PROVE counter' = Cardinality(Mappings')
  BY <1>3, MappingsChange DEF Steps
<1> QED BY <1>1, <1>2, <1>3, CommonStep DEF MmapNext

\* Time passing makes nothing wrong: others store, and meet.
LEMMA FitsLater ==
  ASSUME NEW p \in Procs, NEW v, NEW S \in SUBSET Procs, NEW T \in SUBSET Procs, S \subseteq T,
         p \in T <=> p \in S, NEW met, NEW met2, met \subseteq met2, Fits(p, v, S, met)
  PROVE  Fits(p, v, T, met2)
<1>1. IsFiniteSet(S) /\ IsFiniteSet(T)
  BY FS_Subset, MmapAssumption
<1>2. Cardinality(S) \in Nat /\ Cardinality(T) \in Nat /\ Cardinality(S) <= Cardinality(T)
  BY <1>1, FS_CardinalityType, FS_Subset
<1>3. PICK k \in 0 .. Cardinality(S) : /\ v = Touched + k * Increment
                                       /\ p \notin met => k = (IF p \in S THEN 1 ELSE 0)
  BY DEF Fits
<1>4. k \in 0 .. Cardinality(T) /\ (p \notin met2 => k = (IF p \in T THEN 1 ELSE 0))
  BY <1>2, <1>3
<1> QED BY <1>3, <1>4 DEF Fits

LEMMA GoodLater ==
  ASSUME NEW p \in Procs, NEW f, NEW n, NEW S \in SUBSET Procs, NEW T \in SUBSET Procs, S \subseteq T,
         p \in T <=> p \in S, NEW met, NEW met2, met \subseteq met2, Good(p, f, n, S, met)
  PROVE  Good(p, f, n, T, met2)
<1> SUFFICES ASSUME NEW c \in Cell0, c < n
             PROVE  IF c = Touched THEN Fits(p, f[c], T, met2) ELSE f[c] = c
  BY DEF Good
<1>1. CASE c = Touched
  <2>1. Fits(p, f[c], S, met)
    BY <1>1 DEF Good
  <2> QED BY <1>1, <2>1, FitsLater
<1>2. CASE c # Touched
  BY <1>2 DEF Good
<1> QED BY <1>1, <1>2

LEMMA ContentLater ==
  ASSUME NEW p \in Procs, NEW r, NEW f, NEW dev, NEW S \in SUBSET Procs, NEW T \in SUBSET Procs,
         S \subseteq T, p \in T <=> p \in S, NEW met, NEW met2, met \subseteq met2,
         Content(p, r, f, dev, S, met)
  PROVE  Content(p, r, f, dev, T, met2)
<1>1. ASSUME NEW g, NEW n, Good(p, g, n, S, met) PROVE Good(p, g, n, T, met2)
  BY <1>1, GoodLater
<1>2. ASSUME NEW v, Fits(p, v, S, met) PROVE Fits(p, v, T, met2)
  BY <1>2, FitsLater
<1> QED BY <1>1, <1>2 DEF Content

\* What create_data writes, and what a store adds.
LEMMA FitsNone ==
  ASSUME NEW p, NEW S \in SUBSET Procs, NEW met, p \notin S \/ p \in met
  PROVE  Fits(p, Touched, S, met)
<1>1. IsFiniteSet(S)
  BY FS_Subset, MmapAssumption
<1>2. Cardinality(S) \in Nat
  BY <1>1, FS_CardinalityType
<1>3. 0 \in 0 .. Cardinality(S) /\ Touched = Touched + 0 * Increment
  BY <1>2, MmapAssumption
<1> QED BY <1>3 DEF Fits

LEMMA FitsMore ==
  ASSUME NEW p \in Procs, NEW q, NEW S \in SUBSET Procs, NEW met, NEW v, Fits(p, v, S, met),
         p \notin S, q = p \/ q \in met
  PROVE  Fits(q, v + Increment, S \cup {p}, met)
<1>1. IsFiniteSet(S)
  BY FS_Subset, MmapAssumption
<1>2. Cardinality(S) \in Nat /\ Cardinality(S \cup {p}) = Cardinality(S) + 1
  BY <1>1, FS_CardinalityType, FS_AddElement
<1>3. PICK k \in 0 .. Cardinality(S) : /\ v = Touched + k * Increment
                                       /\ p \notin met => k = (IF p \in S THEN 1 ELSE 0)
  BY DEF Fits
<1>4. k + 1 \in 0 .. Cardinality(S \cup {p}) /\ (q \notin met => k + 1 = 1)
  BY <1>2, <1>3
<1>5. v + Increment = Touched + (k + 1) * Increment
  <2>1. k \in Int /\ Touched \in Int /\ Increment \in Int
    BY <1>2, MmapAssumption
  <2> QED BY <1>3, <2>1
<1> QED BY <1>4, <1>5 DEF Fits

\* One cell that is set to what p may find there: one of the first n, or the next.
LEMMA GoodSet ==
  ASSUME NEW p, NEW f \in Pages, NEW n \in 0 .. Cells, NEW i \in Cell0, NEW v, NEW S, NEW met,
         n > 0 => Good(p, f, n, S, met), IF i = Touched THEN Fits(p, v, S, met) ELSE v = i
  PROVE  /\ Good(p, [f EXCEPT ![i] = v], n, S, met)
         /\ n = i => Good(p, [f EXCEPT ![i] = v], i + 1, S, met)
<1> DEFINE g == [f EXCEPT ![i] = v]
<1>1. ASSUME NEW c \in Cell0, c < n \/ c = i
      PROVE  IF c = Touched THEN Fits(p, g[c], S, met) ELSE g[c] = c
  <2>1. CASE c = i
    BY <2>1 DEF Pages
  <2>2. CASE c # i
    <3>1. c < n /\ n > 0 /\ g[c] = f[c]
      BY <1>1, <2>2, MmapAssumption DEF Pages, Cell0
    <3> QED BY <3>1 DEF Good
  <2> QED BY <2>1, <2>2
<1> HIDE DEF g
<1>2. \A c \in Cell0 : c < i + 1 /\ n = i => c < n \/ c = i
  BY MmapAssumption DEF Cell0
<1>3. Good(p, g, n, S, met)
  BY <1>1 DEF Good
<1>4. n = i => Good(p, g, i + 1, S, met)
  BY <1>1, <1>2 DEF Good
<1> QED BY <1>3, <1>4 DEF g

\* A process whose record and page stay as they are, and whoever else stores.
LEMMA ContentKept ==
  ASSUME ContentInv, NEW q \in Running \ spoiled, proc'[q] = proc[q], page' = page,
         mmapdev' = mmapdev, Stored' = Stored, crossed \subseteq crossed'
  PROVE  Content(q, proc'[q], page', mmapdev', Stored', crossed')
<1>1. Content(q, proc[q], page, mmapdev, Stored, crossed) /\ q \in Procs /\ Stored \in SUBSET Procs
  BY DEF ContentInv, Running, Stored
<1> QED BY <1>1, ContentLater

\* The steps that leave the page as it is and after which the same processes are
\* through: only what p has seen itself is to be looked at.
LEMMA ContentOwn ==
  ASSUME MmapType, MmapType', PlaceInv, MeetInv, ContentInv, NEW p \in Procs, Steps(p), Continues(p),
         page' = page, Through(proc'[p]) <=> Through(proc[p]), NEW q \in Running' \ spoiled',
         Content(p, proc[p], page, mmapdev, Stored, crossed) =>
           Content(p, proc'[p], page, mmapdev, Stored, crossed)
  PROVE  Content(q, proc'[q], page', mmapdev', Stored', crossed')
<1>1. Stored' = Stored
  BY DEF Steps, Stored
<1>2. q \in Running \ spoiled
  BY DEF Steps, Continues, Running
<1>3. CASE q # p
  BY <1>1, <1>2, <1>3, ContentKept DEF Steps, Continues, Running
<1>4. CASE q = p
  BY <1>1, <1>2, <1>4 DEF Steps, Continues, ContentInv
<1> QED BY <1>3, <1>4

\* A page that goes away takes everybody's results with it.
LEMMA ContentLost ==
  ASSUME MeetInv, ContentInv, NEW p \in Procs, Steps(p), Continues(p), proc[p].phase > 1,
         mmapdev # "live", NEW q \in Running' \ spoiled'
  PROVE  FALSE
<1>1. p \in spoiled
  BY DEF Continues, ContentInv, Content
<1>2. q \in Running
  BY DEF Steps, Continues, Running
<1> QED BY <1>1, <1>2 DEF MeetInv, Continues

LEMMA ContentWrite ==
  ASSUME MmapType, MmapType', PlaceInv, MeetInv, ContentInv, NEW p \in Procs, mmap_write(p),
         NEW q \in Running' \ spoiled'
  PROVE  Content(q, proc'[q], page', mmapdev', Stored', crossed')
<1> DEFINE i == proc[p].pos
<1>1. /\ Steps(p) /\ Continues(p) /\ proc[p].phase = 1 /\ proc'[p].phase = 1 /\ i \in Cell0
      /\ proc'[p].pos = i + 1 /\ proc'[p].at # "store" /\ Stored \in SUBSET Procs
      /\ spoiled' = (IF mmapdev = "live" THEN spoiled ELSE spoiled \cup Running)
  BY CommonStep, WriteStep, TransferStep DEF Goes, Becomes, Stored
<1>2. Stored' = Stored /\ p \notin Stored /\ Running' = Running
  BY <1>1 DEF Steps, Stored, Through, Running
<1>3. /\ mmapdev = "live" /\ q \in Running \ spoiled /\ q \in Procs
      /\ Content(q, proc[q], page, mmapdev, Stored, crossed)
  BY <1>1, <1>2 DEF ContentInv, Running
<1>4. page \in Pages /\ page' = [page EXCEPT ![i] = i]
  BY <1>3, WriteStep
<1>5. i \in 0 .. Cells /\ Cells \in 0 .. Cells /\ proc[q].pos \in 0 .. Cells
  BY <1>3, Typed
<1>6. i = Touched => Fits(q, i, Stored, crossed)
  <2>1. q \notin Stored \/ q \in crossed
    BY <1>1, <1>2, <1>3 DEF MeetInv, Continues
  <2>2. Fits(q, Touched, Stored, crossed)
    BY <1>1, <2>1, FitsNone
  <2> QED BY <2>2
<1> HIDE DEF i
<1>7. CASE q # p
  <2>1. ASSUME NEW n \in 0 .. Cells, Good(q, page, n, Stored, crossed) PROVE Good(q, page', n, Stored, crossed)
    BY <1>1, <1>4, <1>6, <2>1, GoodSet
  <2> QED BY <1>1, <1>2, <1>3, <1>5, <1>7, <2>1 DEF Content, Steps, Continues
<1>8. CASE q = p
  <2>1. i > 0 => Good(q, page, i, Stored, crossed)
    BY <1>1, <1>3, <1>8 DEF Content, i
  <2>2. Good(q, page', i + 1, Stored, crossed)
    BY <1>1, <1>4, <1>5, <1>6, <2>1, GoodSet
  <2> QED BY <1>1, <1>2, <1>3, <1>8, <2>2 DEF Content, Steps, Continues
<1> QED BY <1>7, <1>8

LEMMA ContentRead ==
  ASSUME MmapType, MmapType', PlaceInv, MeetInv, ContentInv, NEW p \in Procs, mmap_read(p),
         NEW q \in Running' \ spoiled'
  PROVE  Content(q, proc'[q], page', mmapdev', Stored', crossed')
<1> DEFINE i == proc[p].pos
           f == proc[p].shown
           v == page[i]
<1>1. /\ Steps(p) /\ Continues(p) /\ proc[p].phase \in {2, 4} /\ proc'[p].phase = proc[p].phase
      /\ proc[p].at # "open" /\ i \in Cell0 /\ f \in Pages /\ i \in 0 .. Cells
      /\ proc'[p].pos = i + 1 /\ proc'[p].at # "store" /\ page' = page /\ proc'[p].shown = Show(p, i)
  BY CommonStep, ReadStep, TransferStep, Typed DEF Goes, Becomes
<1>2. mmapdev = "live"
  BY <1>1, ContentLost
<1>3. proc'[p].shown = [f EXCEPT ![i] = v]
  BY <1>1, <1>2, PageThere DEF Show
<1>4. ASSUME Content(p, proc[p], page, mmapdev, Stored, crossed)
      PROVE  Content(p, proc'[p], page, mmapdev, Stored, crossed)
  <2>1. Good(p, page, Cells, Stored, crossed) /\ Good(p, f, i, Stored, crossed)
    BY <1>1, <1>4 DEF Content
  <2>2. IF i = Touched THEN Fits(p, v, Stored, crossed) ELSE v = i
    BY <1>1, <2>1, MmapAssumption DEF Good, Cell0
  <2> HIDE DEF i, f, v
  <2>3. Good(p, [f EXCEPT ![i] = v], i + 1, Stored, crossed)
    BY <1>1, <2>1, <2>2, GoodSet
  <2> QED BY <1>1, <1>2, <1>3, <2>1, <2>3 DEF Content
<1>5. Through(proc'[p]) <=> Through(proc[p])
  BY <1>1 DEF Through
<1> QED BY <1>1, <1>4, <1>5, ContentOwn

LEMMA ContentStore ==
  ASSUME MmapType, MmapType', PlaceInv, MeetInv, ContentInv, NEW p \in Procs, store(p),
         NEW q \in Running' \ spoiled'
  PROVE  Content(q, proc'[q], page', mmapdev', Stored', crossed')
<1>1. /\ Steps(p) /\ Continues(p) /\ proc[p].at = "store" /\ proc'[p].at = "unmap" /\ spoiled' = spoiled
      /\ proc[p].phase = 3 /\ proc'[p].phase = 3 /\ mmapdev = "live" /\ page \in Pages /\ Touched \in Cell0
      /\ page' = [page EXCEPT ![Touched] = proc[p].reg + Increment]
  BY CommonStep, StoreStep DEF Maps, Goes, Becomes
<1>2. /\ Stored' = Stored \cup {p} /\ Stored \in SUBSET Procs /\ Stored' \in SUBSET Procs
      /\ p \notin Stored /\ Running' = Running
  BY <1>1 DEF Steps, Stored, Through, Running
<1>3. p \in Running \ spoiled /\ q \in Running \ spoiled /\ p \in Procs /\ q \in Procs
  BY <1>1, <1>2 DEF Continues, MeetInv, Running
<1>4. /\ Content(q, proc[q], page, mmapdev, Stored, crossed) /\ Fits(p, proc[p].reg, Stored, crossed)
      /\ proc[p].phase > 1
  BY <1>1, <1>3 DEF ContentInv, Content
<1>5. Fits(q, proc[p].reg + Increment, Stored', crossed)
  BY <1>2, <1>3, <1>4, FitsMore DEF MeetInv
<1>6. Cells \in 0 .. Cells /\ Cells > 0 /\ proc[q].pos \in 0 .. Cells
  BY <1>3, Typed
<1>7. CASE q # p
  <2>1. Content(q, proc[q], page, mmapdev, Stored', crossed)
    BY <1>2, <1>3, <1>4, <1>7, ContentLater
  <2>2. ASSUME NEW n \in 0 .. Cells, Good(q, page, n, Stored', crossed)
        PROVE  Good(q, page', n, Stored', crossed)
    BY <1>1, <1>5, <2>2, GoodSet
  <2> QED BY <1>1, <1>3, <1>6, <1>7, <2>1, <2>2 DEF Content, Steps, Continues
<1>8. CASE q = p
  <2>1. Good(p, page, Cells, Stored, crossed)
    BY <1>1, <1>4, <1>8 DEF Content
  <2>2. \A c \in Cell0 : c < Cells /\ c # Touched => page'[c] = c
    BY <1>1, <2>1 DEF Good, Pages
  <2>3. Good(p, page', Cells, Stored', crossed)
    BY <1>1, <1>5, <1>8, <2>2 DEF Good, Pages
  <2> QED BY <1>1, <1>8, <2>3 DEF Content, Steps, Continues
<1> QED BY <1>7, <1>8

LEMMA ContentCreate ==
  ASSUME MmapType, MmapType', PlaceInv, MeetInv, ContentInv, NEW p \in Procs, create_data(p),
         NEW q \in Running' \ spoiled'
  PROVE  Content(q, proc'[q], page', mmapdev', Stored', crossed')
<1>1. Stored' = Stored
  BY CreateStep DEF Becomes, Stored, Through
<1>2. CASE q # p
  <2>1. q \in Running \ spoiled /\ crossed \subseteq crossed'
    BY <1>2, CreateStep DEF Becomes, Running
  <2> QED BY <1>1, <1>2, <2>1, CreateStep, ContentKept DEF Becomes, Running
<1>3. CASE q = p
  BY <1>3, CreateStep DEF Becomes, Content
<1> QED BY <1>2, <1>3

LEMMA ContentOpen ==
  ASSUME MmapType, MmapType', PlaceInv, MeetInv, ContentInv, NEW p \in Procs, mmap_open(p),
         NEW q \in Running' \ spoiled'
  PROVE  Content(q, proc'[q], page', mmapdev', Stored', crossed')
<1>1. Good(p, Blank, 0, Stored, crossed)
  BY MmapAssumption DEF Good, Cell0
<1>2. /\ page' = page /\ proc[p].phase \in 2 .. 4 /\ proc'[p].phase = proc[p].phase
      /\ proc[p].at = "open" /\ proc'[p].at = "io" /\ proc'[p].pos = 0 /\ proc'[p].shown = Blank
  BY OpenStep DEF Goes, Becomes
<1>3. Content(p, proc[p], page, mmapdev, Stored, crossed) =>
        Content(p, proc'[p], page, mmapdev, Stored, crossed)
  BY <1>1, <1>2 DEF Content
<1>4. Through(proc'[p]) <=> Through(proc[p])
  BY <1>2 DEF Through
<1> QED BY <1>2, <1>3, <1>4, CommonStep, ContentOwn

LEMMA ContentRelease ==
  ASSUME MmapType, MmapType', PlaceInv, MeetInv, ContentInv, NEW p \in Procs, mmap_release(p),
         NEW q \in Running' \ spoiled'
  PROVE  Content(q, proc'[q], page', mmapdev', Stored', crossed')
<1>1. /\ page' = page /\ proc[p].phase \in 1 .. 4 /\ proc'[p].phase = proc[p].phase + 1
      /\ proc[p].at = "close" /\ proc'[p].at = "open"
      /\ proc[p].phase = 1 => proc[p].pos = Cells /\ Cells > 0
  BY ReleaseStep, MmapAssumption DEF Goes, Becomes
<1>2. Content(p, proc[p], page, mmapdev, Stored, crossed) =>
        Content(p, proc'[p], page, mmapdev, Stored, crossed)
  BY <1>1 DEF Content
<1>3. Through(proc'[p]) <=> Through(proc[p])
  BY <1>1 DEF Through
<1> QED BY <1>1, <1>2, <1>3, CommonStep, ContentOwn

LEMMA ContentMaps ==
  ASSUME MmapType, MmapType', PlaceInv, MeetInv, ContentInv, NEW p \in Procs, Steps(p), Continues(p),
         NEW q \in Running' \ spoiled',
         NEW at, NEW maps, NEW reg, Maps(p, at, reg, maps), page' = page,
         at = "store" => proc[p].at = "store" /\ reg = proc[p].reg,
         at \in {"unmap", "close"} <=> proc[p].at \in {"unmap", "close"}
  PROVE  Content(q, proc'[q], page', mmapdev', Stored', crossed')
<1>1. /\ proc[p].phase = 3 /\ proc'[p].phase = 3 /\ proc'[p].at = at /\ proc'[p].reg = reg
  BY DEF Maps, Goes, Becomes
<1>2. Content(p, proc[p], page, mmapdev, Stored, crossed) =>
        Content(p, proc'[p], page, mmapdev, Stored, crossed)
  BY <1>1 DEF Content
<1>3. Through(proc'[p]) <=> Through(proc[p])
  BY <1>1 DEF Through
<1> QED BY <1>2, <1>3, ContentOwn

LEMMA ContentLoad ==
  ASSUME MmapType, MmapType', PlaceInv, MeetInv, ContentInv, NEW p \in Procs, load(p),
         NEW q \in Running' \ spoiled'
  PROVE  Content(q, proc'[q], page', mmapdev', Stored', crossed')
<1>1. ASSUME Good(p, page, Cells, Stored, crossed) PROVE Fits(p, page[Touched], Stored, crossed)
  BY <1>1, MmapAssumption DEF Good, Cell0
<1>2. /\ Steps(p) /\ Continues(p) /\ page' = page /\ proc[p].phase = 3 /\ proc'[p].phase = 3
      /\ proc[p].at = "load" /\ proc'[p].at = "store" /\ proc'[p].reg = page[Touched]
  BY LoadStep, CommonStep DEF Maps, Goes, Becomes
<1>3. Content(p, proc[p], page, mmapdev, Stored, crossed) =>
        Content(p, proc'[p], page, mmapdev, Stored, crossed)
  BY <1>1, <1>2 DEF Content
<1>4. Through(proc'[p]) <=> Through(proc[p])
  BY <1>2 DEF Through
<1> QED BY <1>2, <1>3, <1>4, ContentOwn

LEMMA ContentRemap ==
  ASSUME MmapType, MmapType', PlaceInv, MeetInv, ContentInv, NEW p \in Procs,
         mmap_remap(p) \/ mmap_vma_open(p) \/ mmap_vma_close(p) \/ munmap(p) \/ mmap_vm_fault(p),
         NEW q \in Running' \ spoiled'
  PROVE  Content(q, proc'[q], page', mmapdev', Stored', crossed')
<1>1. Steps(p) /\ Continues(p)
  BY CommonStep
<1>2. CASE mmap_remap(p) \/ mmap_vma_open(p) \/ mmap_vma_close(p) \/ munmap(p)
  <2>1. PICK at \in Places, n \in MapCounts :
          /\ Maps(p, at, proc[p].reg, n)
          /\ at = proc[p].at \/ <<proc[p].at, at>> \in {<<"io", "fault">>, <<"unmap", "close">>}
    BY <1>2, RemapStep
  <2>2. page' = page
    BY <1>2, RemapStep
  <2> QED BY <1>1, <2>1, <2>2, ContentMaps
<1>3. CASE mmap_vm_fault(p)
  <2>1. page' = page /\ proc[p].at = "fault" /\ proc[p].phase > 1
    BY <1>3, FaultStep
  <2>2. CASE mmapdev = "live"
    BY <1>1, <1>3, <2>1, <2>2, FaultStep, ContentMaps
  <2>3. CASE mmapdev # "live"
    BY <1>1, <2>1, <2>3, ContentLost
  <2> QED BY <2>2, <2>3
<1> QED BY <1>2, <1>3

LEMMA ContentStep ==
  ASSUME MmapType, MmapType', PlaceInv, MeetInv, ContentInv, [MmapNext]_mmapVars,
         NEW q \in Running' \ spoiled'
  PROVE  Content(q, proc'[q], page', mmapdev', Stored', crossed')
<1>1. CASE mmap_device_create \/ vmalloc
  <2>1. q \in Running \ spoiled /\ q \in Procs /\ mmapdev # "live" /\ proc' = proc
    BY <1>1 DEF mmap_device_create, vmalloc, Running
  <2>2. proc[q].phase = 1 /\ ~(proc[q].pos > 0) /\ proc[q].at # "store"
    BY <2>1, Typed DEF ContentInv, Content, Place, Running
  <2> QED BY <2>1, <2>2 DEF Content
<1>2. CASE _mmap_exit
  BY <1>2 DEF _mmap_exit, Running
<1>3. CASE UNCHANGED mmapVars
  <2>1. q \in Running \ spoiled /\ Stored' = Stored
    BY <1>3 DEF mmapVars, Stored, Running
  <2> QED BY <1>3, <2>1, ContentKept DEF mmapVars
<1>4. ASSUME NEW p \in Procs, open_fails(p) PROVE FALSE
  <2>1. Steps(p) /\ Continues(p) /\ proc[p].phase > 1 /\ mmapdev # "live"
    BY <1>4, FailStep, CommonStep
  <2> QED BY <2>1, ContentLost
<1> QED
  BY <1>1, <1>2, <1>3, <1>4, ContentCreate, ContentOpen, ContentWrite, ContentRead, ContentRelease,
     ContentRemap, ContentLoad, ContentStore DEF MmapNext

\* The invariant of the device and of the processes that run test.c on it.
THEOREM MmapInvariant == MmapSpec => []MmapInv
<1>1. ASSUME MmapInit PROVE MmapInv
  <2>1. MmapType
    BY <1>1, MmapAssumption
       DEF MmapInit, MmapType, ProcType, Phases, Places, Mapped, Positions, Pages, MapCounts, Blank
  <2>2. Running = {} /\ Mappings = {}
    BY <1>1, MmapAssumption DEF MmapInit, Running, Mappings
  <2>3. PlaceInv /\ MeetInv /\ ContentInv
    BY <1>1, <2>2, MmapAssumption DEF MmapInit, PlaceInv, Place, Mapped, MeetInv, ContentInv
  <2> QED BY <1>1, <2>1, <2>2, <2>3, FS_EmptySet DEF MmapInit, MmapInv
<1>2. ASSUME MmapInv, [MmapNext]_mmapVars PROVE MmapInv'
  <2>1. MmapType' /\ PlaceInv' /\ MeetInv'
    BY <1>2, PlaceStep DEF MmapInv
  <2>2. counter' = Cardinality(Mappings')
    BY <1>2, <2>1, CountStep DEF MmapInv
  <2>3. ContentInv'
    BY <1>2, <2>1, ContentStep DEF MmapInv, ContentInv
  <2> QED BY <2>1, <2>2, <2>3 DEF MmapInv
<1> QED BY <1>1, <1>2, PTL DEF MmapSpec

\* counter is the number of mappings, through forks, splits, unmaps and the death of
\* a process, and the module stays as long as there is one.
THEOREM MappingsAlwaysCounted == MmapSpec => []MappingsCounted
<1>1. ASSUME MmapInv PROVE MappingsCounted
  <2>1. ASSUME counter > 0 PROVE mmapdev # "out"
    <3>1. Mappings # {}
      BY <1>1, <2>1, FS_EmptySet DEF MmapInv
    <3>2. PICK q \in Procs, k \in 1 .. MaxMaps : k <= proc[q].maps
      BY <3>1 DEF Mappings
    <3>3. proc[q].maps > 0
      BY <1>1, <3>2, Typed, MmapAssumption DEF MmapInv
    <3> QED BY <1>1, <3>3 DEF MmapInv, PlaceInv, Place, Mapped
  <2> QED BY <1>1, <2>1 DEF MmapInv, MappingsCounted
<1> QED BY <1>1, MmapInvariant, PTL

\* What test.c shows, with any number of processes next to each other.
THEOREM TestAlwaysShows == MmapSpec => []TestShows
<1>1. ASSUME MmapInv PROVE TestShows
  <2> SUFFICES ASSUME NEW p \in Procs \ spoiled, At(p, "display_data", "close")
               PROVE  TestShows!(p)!2
    BY DEF TestShows
  <2>1. p \in Running /\ proc[p].phase \in {2, 4} /\ proc[p].at = "close"
    BY DEF At, Running, main
  <2>2. proc[p].pos = Cells
    BY <1>1, <2>1 DEF MmapInv, PlaceInv, Place
  <2>3. Good(p, proc[p].shown, Cells, Stored, crossed)
    BY <1>1, <2>1, <2>2 DEF MmapInv, ContentInv, Content
  <2>4. \A c \in Cell0 : c < Cells
    BY MmapAssumption DEF Cell0
  <2>5. Touched \in Cell0
    BY MmapAssumption DEF Cell0
  <2>6. Fits(p, proc[p].shown[Touched], Stored, crossed)
    BY <2>3, <2>4, <2>5 DEF Good
  <2>7. Cardinality(Stored) \in Nat /\ Cardinality(Procs) \in Nat /\ Cardinality(Stored) <= Cardinality(Procs)
    <3>1. Stored \in SUBSET Procs
      BY DEF Stored
    <3> QED BY <3>1, FS_Subset, FS_CardinalityType, MmapAssumption
  <2>8. p \in Stored <=> proc[p].phase = 4
    BY <2>1 DEF Stored, Through
  <2>9. PICK k \in 0 .. Cardinality(Stored) :
          /\ proc[p].shown[Touched] = Touched + k * Increment
          /\ p \notin crossed => k = (IF p \in Stored THEN 1 ELSE 0)
    BY <2>6 DEF Fits
  <2>10. k \in 0 .. Cardinality(Procs) /\ (p \notin crossed => k = (IF proc[p].phase = 4 THEN 1 ELSE 0))
    BY <2>7, <2>8, <2>9
  <2> QED BY <2>3, <2>4, <2>9, <2>10 DEF Good
<1> QED BY <1>1, MmapInvariant, PTL
===============================================================================
