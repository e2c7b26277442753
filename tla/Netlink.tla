-------------------------------- MODULE Netlink --------------------------------
(***************************************************************************)
(* netlink/: simple.c answers every message with one to port USER_PORT;    *)
(* user.c binds that port, sends a message and waits for the answer.       *)
(*                                                                         *)
(* A message to the kernel is handled within the sender's sendto.  Either  *)
(* message can be lost: there is no memory for it, or no room in the       *)
(* receiver's buffer.  An open socket pins the module.  Who is told that   *)
(* its sendto failed waits nonetheless: user.c tests ret for 0, not -1.    *)
(***************************************************************************)
EXTENDS Naturals, FiniteSets

CONSTANT Users    \* processes that run user.c

VARIABLES
  nlsk,     \* the module and its socket: "out" or "live"
  user,     \* where main is: "idle", "bind", "send", "rcv_msg", "recv", "close"
  port,     \* who is bound to USER_PORT: at most one of them
  inbox,    \* the senders of the requests whose answers wait at each user's socket
  lost      \* the users one of whose messages was lost

netlinkVars == <<nlsk, user, port, inbox, lost>>

NetlinkInit ==
  /\ nlsk = "out"
  /\ user = [u \in Users |-> "idle"]
  /\ port = {}
  /\ inbox = [u \in Users |-> {}]
  /\ lost = {}

User(u, from, to) == user[u] = from /\ user' = [user EXCEPT ![u] = to]
-------------------------------------------------------------------------------
(* simple.c *)

\* A netlink_kernel_create that fails leaves nothing behind: it is not taken.
test_netlink_init ==
  /\ nlsk = "out"
  /\ nlsk' = "live"
  /\ UNCHANGED <<user, port, inbox, lost>>

test_netlink_exit ==
  /\ nlsk = "live" /\ \A u \in Users : user[u] = "idle"
  /\ nlsk' = "out"
  /\ UNCHANGED <<user, port, inbox, lost>>

\* netlink_unicast puts the answer to u's request where the port is.
send_msg(u) ==
  \E p \in port : inbox' = [inbox EXCEPT ![p] = @ \cup {u}] /\ UNCHANGED lost

\* rcv_msg, in u's sendto.  The answer fails without memory for it, with a full
\* buffer, or when nobody is bound.
rcv_msg(u) ==
  /\ User(u, "rcv_msg", "recv")
  /\ send_msg(u) \/ (lost' = lost \cup {u} /\ UNCHANGED inbox)
  /\ UNCHANGED <<nlsk, port>>
-------------------------------------------------------------------------------
(* user.c *)

\* Without the module there is no such protocol, and main returns.
socket(u) ==
  /\ nlsk = "live"
  /\ User(u, "idle", "bind")
  /\ UNCHANGED <<nlsk, port, inbox, lost>>

bind_unchecked(u) ==
  /\ User(u, "bind", "send")
  /\ port' = IF port = {} THEN {u} ELSE port
  /\ UNCHANGED <<nlsk, inbox, lost>>
bind(u) ==
  /\ User(u, "bind", IF port = {} THEN "send" ELSE "close")
  /\ port' = IF port = {} THEN {u} ELSE port
  /\ UNCHANGED <<nlsk, inbox, lost>>

\* A request that is lost has ret = -1, and main goes on to recvfrom.
sendto(u) ==
  /\ \/ User(u, "send", "rcv_msg") /\ UNCHANGED lost
     \/ User(u, "send", "recv") /\ lost' = lost \cup {u}
  /\ UNCHANGED <<nlsk, port, inbox>>

recvfrom(u) ==
  /\ inbox[u] # {}
  /\ User(u, "recv", "close")
  /\ UNCHANGED <<nlsk, port, inbox, lost>>

\* Whoever waits in vain is killed by its user.
interrupt(u) ==
  /\ User(u, "recv", "close")
  /\ UNCHANGED <<nlsk, port, inbox, lost>>

close(u) ==
  /\ User(u, "close", "idle")
  /\ port' = port \ {u}
  /\ inbox' = [inbox EXCEPT ![u] = {}]
  /\ lost' = lost \ {u}
  /\ UNCHANGED nlsk
-------------------------------------------------------------------------------
UserStep(u) == bind(u) \/ sendto(u) \/ rcv_msg(u) \/ recvfrom(u) \/ close(u)

NetlinkNext ==
  \/ test_netlink_init \/ test_netlink_exit
  \/ \E u \in Users : socket(u) \/ UserStep(u) \/ interrupt(u)

NetlinkSpec == NetlinkInit /\ [][NetlinkNext]_netlinkVars

NetlinkFairness == \A u \in Users : WF_netlinkVars(UserStep(u))
-------------------------------------------------------------------------------
\* The answer that a user waits for is at its socket or was lost, it is the
\* answer to its own request, and to that alone: although every answer goes to
\* the same port, requests of several users never mix.
OwnAnswer ==
  \A u \in Users :
    /\ inbox[u] \subseteq {u}
    /\ user[u] = "recv" => (inbox[u] = {} <=> u \in lost)

\* user.c returns, unless one of its two messages was lost.
UserReturns ==
  \A u \in Users : user[u] # "idle" ~> user[u] = "idle" \/ u \in lost
===============================================================================
