------------------------------ MODULE Mailbox -------------------------------
(***************************************************************************)
(* What the Telegram channel promises the agent. Messages are posted and    *)
(* numbered; the wanted ones are delivered in order, at most once between   *)
(* two restarts; and the server removes no wanted message that was neither  *)
(* delivered nor dropped. A message is dropped alone, when its turn has     *)
(* come, or with the whole backlog.                                         *)
(***************************************************************************)
EXTENDS Integers, Sequences

CONSTANTS
    Kinds,        \* the kinds of messages
    Wanted        \* the kinds that are to be delivered

VARIABLES
    posted,       \* the kinds of all messages
    removed,      \* the server has removed the messages up to this one
    ever,         \* the messages delivered
    delivered,    \* of those, the ones since the last restart
    dropped

mail == <<posted, removed, ever, delivered, dropped>>

Init == /\ posted = <<>> /\ removed = 0
        /\ ever = {} /\ delivered = {} /\ dropped = {}

Post == /\ \E kind \in Kinds : posted' = Append(posted, kind)
        /\ UNCHANGED <<removed, ever, delivered, dropped>>

IsNext(i) == i \in DOMAIN posted /\ \A j \in delivered : j < i

Deliver(i) == /\ IsNext(i) /\ posted[i] \in Wanted
              /\ ever' = ever \cup {i} /\ delivered' = delivered \cup {i}
              /\ UNCHANGED <<posted, removed, dropped>>

Drop(i) == /\ IsNext(i)
           /\ dropped' = dropped \cup {i}
           /\ UNCHANGED <<posted, removed, ever, delivered>>

Unneeded(i) == posted[i] \in Wanted => i \in ever \cup dropped

Remove(n) == /\ n > removed /\ \A i \in 1..n : Unneeded(i)
             /\ removed' = n
             /\ UNCHANGED <<posted, ever, delivered, dropped>>

\* The backlog up to some message is dropped, and the server removes a part of that.
Clear(n) == /\ n >= removed
            /\ \E m \in n..Len(posted) : dropped' = dropped \cup (1..m \ ever)
            /\ removed' = n
            /\ UNCHANGED <<posted, ever, delivered>>

Restart == /\ delivered' = {}
           /\ UNCHANGED <<posted, removed, ever, dropped>>

Next == \/ Post \/ Restart
        \/ \E i \in DOMAIN posted : Deliver(i) \/ Drop(i)
        \/ \E n \in 0..Len(posted) : Remove(n) \/ Clear(n)

Spec == Init /\ [][Next]_mail
=============================================================================
