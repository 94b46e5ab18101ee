---------------------------- MODULE EventDelivery ----------------------------
(* At-least-once delivery as event_catalog.md:19 has it, from the moment that *)
(* the publisher's call returns: no connection, no disk, no acknowledgement.  *)
(* A message may vanish, but not one that was promised and has not been       *)
(* logged; it may be logged again, but only by a consumption of its own, that *)
(* was begun while the message was kept.  EventBus implements it.             *)
EXTENDS Naturals

CONSTANTS Messages,
          Malformed    \* messages that cannot be read

VARIABLES taken,     \* messages that have been sent
          kept,      \* messages that may still reach the consumer
          promised,  \* messages whose publisher was told that they are safe
          begun,     \* how many consumptions of each message are not over
          logged     \* how often the consumer has logged each message

vars == <<taken, kept, promised, begun, logged>>

Init ==
  /\ taken = {}
  /\ kept = {}
  /\ promised = {}
  /\ begun = [m \in Messages |-> 0]
  /\ logged = [m \in Messages |-> 0]

Take(m) ==
  /\ m \notin taken
  /\ taken' = taken \cup {m}
  /\ kept' = kept \cup {m}
  /\ UNCHANGED <<promised, begun, logged>>

Promise(m) ==
  /\ m \in kept \/ logged[m] > 0
  /\ promised' = promised \cup {m}
  /\ UNCHANGED <<taken, kept, begun, logged>>

Begin(m) ==
  /\ m \in kept \ Malformed
  /\ begun' = [begun EXCEPT ![m] = @ + 1]
  /\ UNCHANGED <<taken, kept, promised, logged>>

Log(m) ==
  /\ begun[m] > 0
  /\ begun' = [begun EXCEPT ![m] = @ - 1]
  /\ logged' = [logged EXCEPT ![m] = @ + 1]
  /\ UNCHANGED <<taken, kept, promised>>

\* The consumer dies, and what it had begun with it.
Abandon ==
  /\ begun' = [m \in Messages |-> 0]
  /\ UNCHANGED <<taken, kept, promised, logged>>

Drop(gone) ==
  /\ \A m \in gone \cap promised : logged[m] > 0
  /\ kept' = kept \ gone
  /\ UNCHANGED <<taken, promised, begun, logged>>

Next ==
  \/ \E m \in Messages : Take(m) \/ Promise(m) \/ Begin(m) \/ Log(m)
  \/ Abandon
  \/ \E gone \in SUBSET kept : Drop(gone)

Spec == Init /\ [][Next]_vars
=============================================================================
