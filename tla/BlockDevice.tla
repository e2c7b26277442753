------------------------------ MODULE BlockDevice ------------------------------
(***************************************************************************)
(* block_device/simple.c: a disk in memory.  myblock_driver_init acquires  *)
(* its resources one by one, queue_rq serves requests segment by segment   *)
(* on several processors at once, myblock_driver_exit takes it all down.   *)
(*                                                                         *)
(* The unit of data is a sector.  A request is cut into segments: `cuts'   *)
(* are the offsets at which they end, the last of which is its length.     *)
(* The block layer is external: it hands queue_rq only requests that lie   *)
(* within the capacity of the gendisk, and blk_cleanup_queue waits for the *)
(* requests in flight.                                                     *)
(***************************************************************************)
EXTENDS Naturals

CONSTANTS
  Tags,         \* the requests that can be in flight: 128 in the code
  NoRequest,    \* a tag that is free
  Capacity,     \* sectors of the device
  Shapes,       \* the cuts of the requests considered
  Values        \* contents of a sector

\* A segment is not empty, and a request has a last one.
ASSUME BlockAssumption ==
  /\ Capacity \in Nat \ {0}
  /\ \A cuts \in Shapes : /\ \A c \in cuts : c \in Nat \ {0}
                          /\ \E last \in cuts : \A c \in cuts : c <= last

VARIABLES
  mod,          \* how far myblock_driver_init or _exit has come: a Stage
  held,         \* the resources the module holds
  capacity,     \* the capacity of the gendisk, in sectors
  data,         \* block_device->data
  rq,           \* the request of each tag, or NoRequest
  bug           \* BUG() was reached

diskVars == <<mod, held, capacity, data, rq, bug>>

Sectors == 0 .. Capacity - 1
Stage == {"absent", "device", "buffer", "queue", "disk", "live",
          "exit_disk", "exit_queue", "exited"}
Total(cuts) == CHOOSE last \in cuts : \A c \in cuts : c <= last

DiskInit ==
  /\ mod = "absent"
  /\ held = {}
  /\ capacity = 0
  /\ data \in [Sectors -> Values]
  /\ rq = [t \in Tags |-> NoRequest]
  /\ bug = FALSE
-------------------------------------------------------------------------------
(* myblock_driver_init *)

Fails(left) ==
  /\ mod' = "absent" /\ held' = left
  /\ UNCHANGED <<capacity, data, rq, bug>>

\* The device structure, after the major number.
alloc_device ==
  /\ mod = "absent"
  /\ \/ Fails({})
     \/ /\ mod' = "device" /\ held' = {"major", "block_device"}
        /\ UNCHANGED <<capacity, data, rq, bug>>

\* kmalloc does not clear the buffer.
keep_device == Fails({"block_device"})
alloc_data_fails == Fails(held \ {"major", "block_device"})
alloc_data ==
  /\ mod = "device"
  /\ \/ alloc_data_fails
     \/ /\ mod' = "buffer" /\ held' = held \cup {"data"}
        /\ data' \in [Sectors -> Values]
        /\ UNCHANGED <<capacity, rq, bug>>

\* The code expects NULL of a failing blk_mq_init_sq_queue, and so does the model.
init_sq_queue ==
  /\ mod = "buffer"
  /\ \/ Fails(held \ {"data", "major", "block_device"})
     \/ /\ mod' = "queue" /\ held' = held \cup {"tag_set", "queue"}
        /\ UNCHANGED <<capacity, data, rq, bug>>

alloc_disk ==
  /\ mod = "queue"
  /\ mod' = "disk" /\ held' = held \cup {"gdisk"}
  /\ UNCHANGED <<capacity, data, rq, bug>>

set_capacity == capacity' = Capacity

add_disk ==
  /\ mod = "disk"
  /\ set_capacity
  /\ mod' = "live"
  /\ UNCHANGED <<held, data, rq, bug>>
-------------------------------------------------------------------------------
(* queue_rq and do_request *)

Busy == {t \in Tags : rq[t] # NoRequest}
Span(r) == r.start .. r.start + r.total - 1

\* Two requests disturb each other when they overlap and one of them writes.
Disturbs(r, s) ==
  "write" \in {r.dir, s.dir} /\ Span(r) \cap Span(s) # {}

\* blk_mq_start_request: a request of the block layer, with its pages.
start_request(t, dir, start, cuts, v) ==
  LET r == [dir |-> dir, start |-> start, total |-> Total(cuts),
            pos |-> start, cuts |-> cuts, off |-> 0, nr_bytes |-> 0,
            buf |-> [k \in 0 .. Total(cuts) - 1 |-> v], alone |-> TRUE]
      near == {u \in Busy : Disturbs(r, rq[u])}
  IN
  /\ mod = "live" /\ rq[t] = NoRequest
  /\ start + Total(cuts) <= capacity
  /\ rq' = [u \in Tags |-> IF u = t THEN [r EXCEPT !.alone = near = {}]
                           ELSE IF u \in near THEN [rq[u] EXCEPT !.alone = FALSE]
                           ELSE rq[u]]
  /\ UNCHANGED <<mod, held, capacity, data, bug>>

cut_one_early(r, len) ==
  IF r.pos + len >= Capacity THEN Capacity - r.pos - 1 ELSE len
\* The segment's length, cut where the device ends.
b_len(r, len) ==
  IF r.pos + len > Capacity THEN Capacity - r.pos ELSE len

\* What memcpy leaves of `to' when n cells of `from' at q go to p.
memcpy(to, p, from, q, n) ==
  [k \in DOMAIN to |-> IF k \in p .. p + n - 1 THEN from[q + k - p] ELSE to[k]]

pos_stays(r, len) == r.pos
next_pos(r, len) == r.pos + b_len(r, len)

\* The segment that begins at r.off ends at `end'.
Segment(r, end) == end \in r.cuts /\ r.off < end /\ \A c \in r.cuts : c <= r.off \/ end <= c
Through(r) == \A c \in r.cuts : c <= r.off

do_segment(t, end) ==
  LET r == rq[t]
      len == end - r.off
      n == b_len(r, len)
  IN
  /\ r # NoRequest /\ Segment(r, end)
  /\ data' = IF r.dir = "write" THEN memcpy(data, r.pos, r.buf, r.off, n) ELSE data
  /\ rq' = [rq EXCEPT ![t] =
       [r EXCEPT !.buf = IF r.dir = "read" THEN memcpy(r.buf, r.off, data, r.pos, n) ELSE @,
                 !.pos = next_pos(r, len), !.nr_bytes = @ + n, !.off = end]]
  /\ UNCHANGED <<mod, held, capacity, bug>>

\* blk_update_request says whether something of the request is left.
end_request(t) ==
  LET r == rq[t] IN
  /\ r # NoRequest /\ Through(r)
  /\ bug' = (bug \/ r.nr_bytes < r.total)
  /\ rq' = [rq EXCEPT ![t] = NoRequest]
  /\ UNCHANGED <<mod, held, capacity, data>>
-------------------------------------------------------------------------------
(* myblock_driver_exit *)

del_gendisk ==
  /\ mod = "live"
  /\ mod' = "exit_disk" /\ held' = held \ {"gdisk"}
  /\ UNCHANGED <<capacity, data, rq, bug>>

free_data_first ==
  /\ mod = "exit_disk"
  /\ mod' = "exit_queue" /\ held' = held \ {"data"}
  /\ UNCHANGED <<capacity, data, rq, bug>>
cleanup_queue ==
  /\ mod = "exit_disk" /\ Busy = {}
  /\ mod' = "exit_queue" /\ held' = held \ {"queue"}
  /\ UNCHANGED <<capacity, data, rq, bug>>

free_device ==
  /\ mod = "exit_queue"
  /\ mod' = "exited" /\ held' = held \ {"data", "major", "block_device"}
  /\ UNCHANGED <<capacity, data, rq, bug>>

Lifecycle ==
  \/ alloc_device \/ alloc_data \/ init_sq_queue \/ alloc_disk \/ add_disk
  \/ del_gendisk \/ cleanup_queue \/ free_device

do_request(t) == rq[t] # NoRequest /\ \E end \in rq[t].cuts : do_segment(t, end)

queue_rq(t) == do_request(t) \/ end_request(t)

BlockLayer(t) ==
  \E dir \in {"read", "write"}, start \in 0 .. Capacity, cuts \in Shapes, v \in Values :
    start_request(t, dir, start, cuts, v)

DiskNext == Lifecycle \/ \E t \in Tags : queue_rq(t) \/ BlockLayer(t)

DiskSpec == DiskInit /\ [][DiskNext]_diskVars
-------------------------------------------------------------------------------
DiskTypeOK ==
  /\ mod \in Stage
  /\ held \subseteq {"major", "block_device", "data", "tag_set", "queue", "gdisk"}
  /\ capacity \in {0, Capacity}
  /\ data \in [Sectors -> Values]
  /\ bug \in BOOLEAN
  /\ \A t \in Busy : /\ rq[t].dir \in {"read", "write"} /\ rq[t].alone \in BOOLEAN
                     /\ rq[t].pos \in 0 .. Capacity /\ rq[t].cuts \in Shapes

\* queue_rq: blk_update_request "Shouldn't fail": the driver has moved every
\* byte of a request, however it is cut into segments, also at the very end of
\* the device, so BUG() is never reached.
NeverBug == ~bug

\* A request that nobody disturbed has moved its data when its segments are
\* through: a read returns what the device holds, a write leaves it there.
Transferred ==
  \A t \in Busy :
    LET r == rq[t] IN
    r.alone /\ Through(r) =>
      \A k \in 0 .. r.total - 1 : r.buf[k] = data[r.start + k]

\* A request is served only while the memory behind it is there.
ServedWhileHeld == Busy # {} => {"data", "queue", "block_device"} \subseteq held

\* An initialisation that fails gives back what it had acquired.
FailureUndone == mod = "absent" => held = {}

\* myblock_driver_exit: "Don't forget to cleanup everything".
CleanedUp == mod = "exited" => held = {}
===============================================================================
