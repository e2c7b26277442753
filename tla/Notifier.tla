-------------------------------- MODULE Notifier --------------------------------
(***************************************************************************)
(* notifier/: publisher.c owns a blocking notifier chain and calls it for  *)
(* every write to /proc/my_notifier; modules like subscriber.c put a       *)
(* callback on the chain when they are loaded and take it off again.       *)
(*                                                                         *)
(* External: the chain and its rwsem (a call of the chain reads, register  *)
(* and unregister write; blocks of equal priority are appended), the pin   *)
(* that a subscriber's use of the exported functions puts on the           *)
(* publisher, and remove_proc_entry, which waits for running writes.       *)
(***************************************************************************)
EXTENDS Naturals, Sequences

CONSTANTS
  Subscribers,  \* modules built from subscriber.c
  Writers       \* processes that write to /proc/my_notifier

VARIABLES
  publisher,    \* "out", "live", "exit"
  subscriber,   \* each one's module: "out", "init", "live", "exit"
  chain,        \* my_notifier_list
  rwsem,        \* those who wait for its lock, in order
  writer,       \* where write_proc is: "idle", "call", "lock", "walk", "free"
  next,         \* the place in the chain that it calls next
  message,      \* the writers whose p is allocated
  got,          \* the callbacks that each write has made
  due           \* the subscribers registered ever since the write began

notifierVars == <<publisher, subscriber, chain, rwsem, writer, next, message, got, due>>

Registered == {chain[i] : i \in 1 .. Len(chain)}
Walking == {w \in Writers : writer[w] = "walk"}

NotifierInit ==
  /\ publisher = "out"
  /\ subscriber = [s \in Subscribers |-> "out"]
  /\ chain = <<>> /\ rwsem = <<>>
  /\ writer = [w \in Writers |-> "idle"]
  /\ next = [w \in Writers |-> 1]
  /\ message = {}
  /\ got = [w \in Writers |-> {}]
  /\ due = [w \in Writers |-> {}]
-------------------------------------------------------------------------------
(* subscriber.c, with the wrappers of publisher.c *)

Subscriber(s, from, to) ==
  /\ subscriber[s] = from
  /\ subscriber' = [subscriber EXCEPT ![s] = to]

\* The lock goes to those who wait for it in their order; readers share it.
Wait(who) == rwsem' = Append(rwsem, who)
Served(who) == rwsem # <<>> /\ Head(rwsem) = who /\ rwsem' = Tail(rwsem)

subscriber_init(s) ==
  /\ publisher = "live"
  /\ Subscriber(s, "out", "init")
  /\ Wait(s)
  /\ UNCHANGED <<publisher, chain, writer, next, message, got, due>>

register_at_head(s) ==
  /\ Served(s)
  /\ Subscriber(s, "init", "live")
  /\ chain' = <<s>> \o chain
  /\ UNCHANGED <<publisher, writer, next, message, got, due>>
register_my_notifier(s) ==
  /\ Walking = {} /\ Served(s)
  /\ Subscriber(s, "init", "live")
  /\ chain' = Append(chain, s)
  /\ UNCHANGED <<publisher, writer, next, message, got, due>>

subscriber_exit(s) ==
  /\ Subscriber(s, "live", "exit")
  /\ Wait(s)
  /\ UNCHANGED <<publisher, chain, writer, next, message, got, due>>

Without(i) == [j \in 1 .. Len(chain) - 1 |-> IF j < i THEN chain[j] ELSE chain[j + 1]]

unload_registered(s) ==
  /\ Served(s)
  /\ Subscriber(s, "exit", "out")
  /\ UNCHANGED <<publisher, chain, writer, next, message, got, due>>
\* The subscriber is unloaded as soon as it is off the chain.
unregister_my_notifier(s) ==
  /\ Walking = {} /\ Served(s)
  /\ Subscriber(s, "exit", "out")
  /\ \E i \in 1 .. Len(chain) : chain[i] = s /\ chain' = Without(i)
  /\ due' = [w \in Writers |-> due[w] \ {s}]
  /\ UNCHANGED <<publisher, writer, next, message, got>>
-------------------------------------------------------------------------------
(* publisher.c *)

Writer(w, from, to) ==
  /\ writer[w] = from
  /\ writer' = [writer EXCEPT ![w] = to]

publisher_init ==
  /\ publisher = "out"
  /\ publisher' = "live"
  /\ UNCHANGED <<subscriber, chain, rwsem, writer, next, message, got, due>>

\* kzalloc and copy_from_user.
write_proc(w) ==
  /\ publisher = "live"
  /\ Writer(w, "idle", "call")
  /\ message' = message \cup {w}
  /\ due' = [due EXCEPT ![w] = Registered]
  /\ UNCHANGED <<publisher, subscriber, chain, rwsem, next, got>>

\* An empty chain is left alone, without the lock.
blocking_notifier_call_chain(w) ==
  /\ IF chain = <<>> THEN Writer(w, "call", "free") /\ UNCHANGED rwsem
                     ELSE Writer(w, "call", "lock") /\ Wait(w)
  /\ UNCHANGED <<publisher, subscriber, chain, next, message, got, due>>

down_read(w) ==
  /\ Writer(w, "lock", "walk") /\ Served(w)
  /\ UNCHANGED <<publisher, subscriber, chain, next, message, got, due>>

my_notify_sys(w) ==
  /\ writer[w] = "walk" /\ next[w] <= Len(chain)
  /\ got' = [got EXCEPT ![w] = @ \cup {chain[next[w]]}]
  /\ next' = [next EXCEPT ![w] = @ + 1]
  /\ UNCHANGED <<publisher, subscriber, chain, rwsem, writer, message, due>>

up_read(w) ==
  /\ next[w] > Len(chain)
  /\ Writer(w, "walk", "free")
  /\ UNCHANGED <<publisher, subscriber, chain, rwsem, next, message, got, due>>

kfree_message(w) ==
  /\ Writer(w, "free", "idle")
  /\ message' = message \ {w}
  /\ next' = [next EXCEPT ![w] = 1]
  /\ got' = [got EXCEPT ![w] = {}]
  /\ due' = [due EXCEPT ![w] = {}]
  /\ UNCHANGED <<publisher, subscriber, chain, rwsem>>

publisher_exit ==
  /\ publisher = "live" /\ \A s \in Subscribers : subscriber[s] = "out"
  /\ publisher' = "exit"
  /\ UNCHANGED <<subscriber, chain, rwsem, writer, next, message, got, due>>

remove_proc_entry ==
  /\ publisher = "exit" /\ \A w \in Writers : writer[w] = "idle"
  /\ publisher' = "out"
  /\ UNCHANGED <<subscriber, chain, rwsem, writer, next, message, got, due>>
-------------------------------------------------------------------------------
ChainLock(s) == register_my_notifier(s) \/ unregister_my_notifier(s)

Write(w) ==
  \/ blocking_notifier_call_chain(w) \/ down_read(w) \/ my_notify_sys(w)
  \/ up_read(w) \/ kfree_message(w)

NotifierNext ==
  \/ publisher_init \/ publisher_exit \/ remove_proc_entry
  \/ \E s \in Subscribers : subscriber_init(s) \/ subscriber_exit(s) \/ ChainLock(s)
  \/ \E w \in Writers : write_proc(w) \/ Write(w)

NotifierSpec == NotifierInit /\ [][NotifierNext]_notifierVars

NotifierFairness ==
  /\ \A w \in Writers : WF_notifierVars(Write(w))
  /\ \A s \in Subscribers : WF_notifierVars(ChainLock(s))
  /\ WF_notifierVars(remove_proc_entry)
-------------------------------------------------------------------------------
\* A walk only ever calls into a module that is loaded, the publisher's own code
\* included, with a message that is allocated: whoever is on the chain stays.
CallsLoaded ==
  /\ \A w \in Writers : writer[w] # "idle" => publisher # "out" /\ w \in message
  /\ \A s \in Registered : subscriber[s] \in {"live", "exit"}

\* A write reaches every subscriber that is registered from its start to its
\* end, whoever else comes and goes, and calls none twice.
EachOnce ==
  \A w \in Writers :
    /\ writer[w] = "free" => due[w] \subseteq got[w]
    /\ writer[w] = "walk" => got[w] = {chain[i] : i \in 1 .. next[w] - 1}
    /\ writer[w] = "walk" /\ next[w] <= Len(chain) => chain[next[w]] \notin got[w]

\* Writes return, a subscriber gets on and off the chain, and the publisher can
\* be unloaded.
NotifierReturns ==
  /\ \A w \in Writers : writer[w] = "call" ~> writer[w] = "idle"
  /\ \A s \in Subscribers : subscriber[s] \in {"init", "exit"} ~> subscriber[s] \in {"live", "out"}
  /\ publisher = "exit" ~> publisher = "out"
===============================================================================
