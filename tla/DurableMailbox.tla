-------------------------- MODULE DurableMailbox --------------------------
(***************************************************************************)
(* What PROTOCOL.md "Mailboxes" promises of the mailboxes, without queues, *)
(* connections, message ids or timers: a message sent to a mailbox stays   *)
(* in it until its consumer has been handed that very message, unless the  *)
(* mailbox is full (the oldest goes), is discarded as a whole, or the      *)
(* broker crashes before the message has been saved.                       *)
(***************************************************************************)
EXTENDS Integers, FiniteSets

CONSTANTS
  Mailboxes,    (* one per client id                                       *)
  Messages,     (* numbered in the order in which they are sent            *)
  Limit         (* most messages a mailbox holds; 0 is unlimited           *)

VARIABLES
  held,         (* the messages each mailbox holds                         *)
  saved,        (* those a restarted broker would find                     *)
  handed        (* history: those its consumer has been handed             *)

vars == <<held, saved, handed>>

Init ==
  /\ held   = [m \in Mailboxes |-> {}]
  /\ saved  = [m \in Mailboxes |-> {}]
  /\ handed = [m \in Mailboxes |-> {}]

\* Message n, the newest of all, is added to the mailboxes of `to`.  Only a
\* mailbox that is full loses something by it, and that is its oldest.
Send(n, to) ==
  /\ to # {}
  /\ \A m \in Mailboxes : \A old \in held[m] \cup saved[m] : old < n
  /\ held' \in [Mailboxes -> SUBSET Messages]
  /\ \A m \in Mailboxes \ to : held'[m] = held[m]
  /\ \A m \in to :
       LET lost == held[m] \ held'[m]
       IN  /\ held'[m] = (held[m] \ lost) \cup {n}
           /\ \A l \in lost, k \in held[m] \ lost : l < k
           /\ lost # {} => Limit > 0 /\ Cardinality(held'[m]) = Limit
  /\ UNCHANGED <<saved, handed>>

\* The consumer of m is handed n, which leaves the mailbox, unless it is to be
\* handed n once more.
Consume(m, n) ==
  /\ held'   \in {held, [held EXCEPT ![m] = @ \ {n}]}
  /\ handed' = [handed EXCEPT ![m] = @ \cup {n}]
  /\ UNCHANGED saved

Discard(m) ==
  /\ held' = [held EXCEPT ![m] = {}]
  /\ UNCHANGED <<saved, handed>>

Save ==
  /\ saved' = held
  /\ UNCHANGED <<held, handed>>

\* A crash takes back everything since the last save, consumption included.
Crash ==
  /\ held' = saved
  /\ UNCHANGED <<saved, handed>>

Next ==
  \/ \E n \in Messages, to \in SUBSET Mailboxes : Send(n, to)
  \/ \E m \in Mailboxes, n \in Messages : Consume(m, n)
  \/ \E m \in Mailboxes : Discard(m)
  \/ Save
  \/ Crash

Spec == Init /\ [][Next]_vars
=============================================================================
