------------------------------ MODULE AtomicBuffer ------------------------------
(***************************************************************************)
(* What the mutex device promises its callers: a buffer whose reads and    *)
(* writes each take effect at one instant between the call and the return. *)
(***************************************************************************)
EXTENDS Naturals

CONSTANTS
  Threads,    \* the callers
  Values,     \* what a caller may fill its own buffer with
  BuffSize,   \* cells of the buffer
  Sizes,      \* the lengths the callers pass
  Erased      \* a cell of a buffer nothing was written to

VARIABLES
  cells,      \* the device's buffer
  user,       \* each caller's own buffer
  pending,    \* each caller's call: "none", "read", "write", or "done"
  length      \* the length that call was given

Cell == 0 .. BuffSize - 1

\* The first n cells of `from' laid over `onto'.
Overlay(onto, from, n) == [c \in Cell |-> IF c < n THEN from[c] ELSE onto[c]]

Filled(v) == [c \in Cell |-> v]

Init ==
  /\ cells = Filled(Erased)
  /\ user = [t \in Threads |-> Filled(Erased)]
  /\ pending = [t \in Threads |-> "none"]
  /\ length = [t \in Threads |-> 0]

CallRead(t, n) ==
  /\ pending[t] = "none"
  /\ pending' = [pending EXCEPT ![t] = "read"]
  /\ length' = [length EXCEPT ![t] = n]
  /\ UNCHANGED <<cells, user>>

CallWrite(t, v, n) ==
  /\ pending[t] = "none"
  /\ pending' = [pending EXCEPT ![t] = "write"]
  /\ length' = [length EXCEPT ![t] = n]
  /\ user' = [user EXCEPT ![t] = Filled(v)]
  /\ UNCHANGED cells

Read(t) ==
  /\ pending[t] = "read"
  /\ user' = [user EXCEPT ![t] = Overlay(user[t], cells, length[t])]
  /\ pending' = [pending EXCEPT ![t] = "done"]
  /\ UNCHANGED <<cells, length>>

Write(t) ==
  /\ pending[t] = "write"
  /\ cells' = Overlay(cells, user[t], length[t])
  /\ pending' = [pending EXCEPT ![t] = "done"]
  /\ UNCHANGED <<user, length>>

Return(t) ==
  /\ pending[t] = "done"
  /\ pending' = [pending EXCEPT ![t] = "none"]
  /\ UNCHANGED <<cells, user, length>>

\* The module is unloaded; it comes back with an erased buffer.
Reload ==
  /\ \A t \in Threads : pending[t] = "none"
  /\ cells' = Filled(Erased)
  /\ UNCHANGED <<user, pending, length>>

Next ==
  \/ Reload
  \/ \E t \in Threads :
       \/ Read(t) \/ Write(t) \/ Return(t)
       \/ \E n \in Sizes : CallRead(t, n) \/ \E v \in Values : CallWrite(t, v, n)

Spec == Init /\ [][Next]_<<cells, user, pending, length>>
=================================================================================
