------------------------------ MODULE EventBus ------------------------------
(* EventPublisherComponent, the RabbitMQ queue blablacar.audit.events and     *)
(* EventConsumerComponent.  Publisher and consumer are components of one      *)
(* process and die together; the broker is a process of its own.              *)
(*                                                                            *)
(* A message is one call of Publish, with the event_id drawn for it, or comes *)
(* from elsewhere: any client of the broker may use the exchange, and Process *)
(* provides for a message that it cannot read.                                *)
(*                                                                            *)
(* The queue is a set: the consumer starts Process for up to Prefetch         *)
(* messages at once, and redelivery reorders them, so no property here        *)
(* depends on an order.                                                       *)
(*                                                                            *)
(* Process is a coroutine of the service: it runs on when the connection that *)
(* brought its message is lost, whatever becomes of the message.              *)
EXTENDS Naturals, FiniteSets

CONSTANTS Messages,
          Malformed,   \* messages from elsewhere that Process cannot read
          Prefetch,    \* prefetch_count of event-consumer
          MaxFaults    \* bound on lost connections, crashes and restarts

ASSUME MalformedAssumption == Malformed \subseteq Messages
ASSUME PrefetchAssumption == Prefetch \in Nat \ {0}
ASSUME MaxFaultsAssumption == MaxFaults \in Nat

VARIABLES
  publish,    \* how far each call of Publish is
  wire,       \* messages between the publisher and the broker
  queue,      \* messages in the queue, not delivered
  disk,       \* messages that the broker has written to disk
  unacked,    \* messages delivered to the consumer and not acknowledged
  finished,   \* unacked messages whose Process has returned
  orphans,    \* how many runs of Process have outlived their delivery
  processed,  \* history: how often Process has logged the event
  faults

vars ==
  <<publish, wire, queue, disk, unacked, finished, orphans, processed, faults>>

\* "new": not called; "waiting": for the broker's confirm; "confirmed": the
\* call returned; "failed": it threw, was logged, and its caller went on;
\* "foreign": no call of Publish, and the message is out.
PublishStates == {"new", "waiting", "confirmed", "failed", "foreign"}

Init ==
  /\ publish = [m \in Messages |-> "new"]
  /\ wire = {}
  /\ queue = {}
  /\ disk = {}
  /\ unacked = {}
  /\ finished = {}
  /\ orphans = [m \in Messages |-> 0]
  /\ processed = [m \in Messages |-> 0]
  /\ faults = 0

Fault ==
  /\ faults < MaxFaults
  /\ faults' = faults + 1

-----------------------------------------------------------------------------
(* EventPublisherComponent::Publish *)

\* PublishReliable sends a persistent message.
Send(m) ==
  /\ m \notin Malformed
  /\ publish[m] = "new"
  /\ publish' = [publish EXCEPT ![m] = "waiting"]
  /\ wire' = wire \cup {m}
  /\ UNCHANGED <<queue, disk, unacked, finished, orphans, processed, faults>>

\* Mutant: a message published as transient is confirmed once it is queued.
ConfirmedInMemory(m) ==
  /\ publish[m] = "waiting"
  /\ m \in queue \cup unacked \/ processed[m] > 0
  /\ publish' = [publish EXCEPT ![m] = "confirmed"]
  /\ UNCHANGED <<wire, queue, disk, unacked, finished, orphans, processed, faults>>

\* The confirm of the broker arrives within the deadline: the message is on disk
\* or was acknowledged before (the guard asks for less: that it was logged).
Confirmed(m) ==
  /\ publish[m] = "waiting"
  /\ m \in disk \/ processed[m] > 0
  /\ publish' = [publish EXCEPT ![m] = "confirmed"]
  /\ UNCHANGED <<wire, queue, disk, unacked, finished, orphans, processed, faults>>

\* The deadline of three seconds passes, or the channel breaks: the exception
\* is swallowed.  The message may be anywhere.
GiveUp(m) ==
  /\ publish[m] = "waiting"
  /\ publish' = [publish EXCEPT ![m] = "failed"]
  /\ UNCHANGED <<wire, queue, disk, unacked, finished, orphans, processed, faults>>

-----------------------------------------------------------------------------
(* The broker: a durable queue bound to a durable exchange with "#", declared *)
(* before the first call of Publish                                           *)

SendForeign(m) ==
  /\ m \in Malformed
  /\ publish[m] = "new"
  /\ publish' = [publish EXCEPT ![m] = "foreign"]
  /\ wire' = wire \cup {m}
  /\ UNCHANGED <<queue, disk, unacked, finished, orphans, processed, faults>>

Enqueue(m) ==
  /\ m \in wire
  /\ wire' = wire \ {m}
  /\ queue' = queue \cup {m}
  /\ UNCHANGED <<publish, disk, unacked, finished, orphans, processed, faults>>

WriteToDisk(m) ==
  /\ m \in queue \cup unacked
  /\ m \notin disk
  /\ disk' = disk \cup {m}
  /\ UNCHANGED <<publish, wire, queue, unacked, finished, orphans, processed, faults>>

Deliver(m) ==
  /\ m \in queue
  /\ Cardinality(unacked) < Prefetch
  /\ queue' = queue \ {m}
  /\ unacked' = unacked \cup {m}
  /\ UNCHANGED <<publish, wire, disk, finished, orphans, processed, faults>>

-----------------------------------------------------------------------------
(* EventConsumerComponent *)

\* Messages whose Process is running and has an event to log.
Running == unacked \ (finished \cup Malformed)

\* How many runs of Process have still to log their event.
Runs == [m \in Messages |-> IF m \in Running THEN orphans[m] + 1 ELSE orphans[m]]

\* Mutant: the body throws before it logs the event, and the catch hides it.
ProcessHidesError(m) ==
  /\ m \in Running
  /\ finished' = finished \cup {m}
  /\ UNCHANGED <<publish, wire, queue, disk, unacked, orphans, processed, faults>>

\* Mutant: Process logs the event and throws; its message is rejected.
ProcessThrows(m) ==
  /\ m \in Running
  /\ processed' = [processed EXCEPT ![m] = @ + 1]
  /\ unacked' = unacked \ {m}
  /\ queue' = queue \cup {m}
  /\ UNCHANGED <<publish, wire, disk, finished, orphans, faults>>

\* Mutant: Process leaves the logging to a task of its own and returns.
ProcessDetached(m) ==
  /\ m \in Running
  /\ finished' = finished \cup {m}
  /\ orphans' = [orphans EXCEPT ![m] = @ + 1]
  /\ UNCHANGED <<publish, wire, queue, disk, unacked, processed, faults>>

\* Process logs the event.
Process(m) ==
  /\ m \in Running
  /\ processed' = [processed EXCEPT ![m] = @ + 1]
  /\ finished' = finished \cup {m}
  /\ UNCHANGED <<publish, wire, queue, disk, unacked, orphans, faults>>

\* A run whose delivery is gone logs the event all the same, even if the message
\* has been lost or delivered again and acknowledged since.
LateProcess(m) ==
  /\ orphans[m] > 0
  /\ orphans' = [orphans EXCEPT ![m] = @ - 1]
  /\ processed' = [processed EXCEPT ![m] = @ + 1]
  /\ UNCHANGED <<publish, wire, queue, disk, unacked, finished, faults>>

\* Mutant: without the catch, the message is rejected and comes back.
RejectMalformed(m) ==
  /\ m \in unacked \ finished
  /\ m \in Malformed
  /\ unacked' = unacked \ {m}
  /\ queue' = queue \cup {m}
  /\ UNCHANGED <<publish, wire, disk, finished, orphans, processed, faults>>

\* Process catches what its own body throws, and returns all the same.
SkipMalformed(m) ==
  /\ m \in unacked \ finished
  /\ m \in Malformed
  /\ finished' = finished \cup {m}
  /\ UNCHANGED <<publish, wire, queue, disk, unacked, orphans, processed, faults>>

\* ConsumerBase acknowledges a message when Process has returned.
Ack(m) ==
  /\ m \in finished
  /\ unacked' = unacked \ {m}
  /\ finished' = finished \ {m}
  /\ disk' = disk \ {m}
  /\ UNCHANGED <<publish, wire, queue, orphans, processed, faults>>

-----------------------------------------------------------------------------

\* Mutant: an acknowledgement that is due outlives the connection.
SeverKeepsFinished ==
  /\ unacked' = {}
  /\ UNCHANGED finished

\* The connection to the consumer is lost: nothing is delivered to it any more,
\* and no acknowledgement gets through.
Sever ==
  /\ unacked' = {}
  /\ finished' = {}

\* The consumer's connection is lost: the broker takes back what it has not
\* seen an acknowledgement of.
Disconnect ==
  /\ Fault
  /\ Sever
  /\ queue' = queue \cup unacked
  /\ orphans' = Runs
  /\ UNCHANGED <<publish, wire, disk, processed>>

\* The service dies: no call of Publish waits and no Process runs any more.
Crash ==
  /\ Fault
  /\ Sever
  /\ queue' = queue \cup unacked
  /\ orphans' = [m \in Messages |-> 0]
  /\ publish' = [m \in Messages |->
                   IF publish[m] = "waiting" THEN "failed" ELSE publish[m]]
  /\ UNCHANGED <<wire, disk, processed>>

\* The broker restarts with what it has on disk.
BrokerRestart ==
  /\ Fault
  /\ Sever
  /\ wire' = {}
  /\ queue' = (queue \cup unacked) \cap disk
  /\ orphans' = Runs
  /\ UNCHANGED <<publish, disk, processed>>

Broker(m) == Enqueue(m) \/ WriteToDisk(m) \/ Deliver(m)

\* What a delivery leads to.
Consumer(m) == Process(m) \/ SkipMalformed(m) \/ Ack(m)

Next ==
  \/ \E m \in Messages : \/ Send(m) \/ SendForeign(m) \/ Confirmed(m) \/ GiveUp(m)
                         \/ Broker(m) \/ Consumer(m) \/ LateProcess(m)
  \/ Disconnect
  \/ Crash
  \/ BrokerRestart

Spec == Init /\ [][Next]_vars

\* The broker delivers while there is room, and Process ends.  Which of several
\* messages is delivered first is up to the broker, but a queue passes nobody
\* over for ever.  Nothing is asked of a run that has lost its delivery: it may
\* never have begun.
Fairness == \A m \in Messages : SF_vars(Deliver(m)) /\ WF_vars(Consumer(m))

FairSpec == Spec /\ Fairness

-----------------------------------------------------------------------------
(* Properties *)

\* The type invariant.
TypeOK ==
  /\ publish \in [Messages -> PublishStates]
  /\ wire \subseteq Messages
  /\ queue \subseteq Messages
  /\ disk \subseteq Messages
  /\ unacked \subseteq Messages
  /\ finished \subseteq unacked
  /\ orphans \in [Messages -> Nat]
  /\ processed \in [Messages -> Nat]
  /\ faults \in 0 .. MaxFaults

\* At-least-once, from the confirm on: a message whose publisher was told that
\* it is safe is still with the broker or has been through Process, whatever
\* crashed or restarted since.
ConfirmedIsKept ==
  \A m \in Messages :
    publish[m] = "confirmed" /\ processed[m] = 0 => m \in disk \cap (queue \cup unacked)

\* A message is processed twice only because a connection broke before its
\* acknowledgement: each fault costs one duplicate at most, whether it finds
\* Process over, running on, or not begun.
DuplicatesNeedFaults == \A m \in Messages : processed[m] <= 1 + faults

\* What is confirmed is consumed.
ConfirmedIsConsumed ==
  \A m \in Messages : publish[m] = "confirmed" ~> processed[m] > 0

\* A message that Process cannot read does not circulate: it leaves the broker
\* for good and its place among the prefetch_count ones with it.
MalformedIsDropped ==
  \A m \in Malformed : m \in queue ~> [](m \notin queue \cup unacked)

Taken == {m \in Messages : publish[m] # "new"}

Promised == {m \in Messages : publish[m] = "confirmed"}

Kept == wire \cup queue \cup unacked

Delivery == INSTANCE EventDelivery
  WITH taken <- Taken, kept <- Kept, promised <- Promised, begun <- Runs,
       logged <- processed

\* Whatever breaks, crashes or restarts, a confirmed message leaves the broker
\* only after it has been logged, and each log belongs to a delivery of its own,
\* made while the broker had the message.
ImplementsDelivery == Delivery!Spec

-----------------------------------------------------------------------------
(* The inductive invariant: what EventBusProofs shows of every state *)

\* The disk holds no message that the broker would not deliver again.
DiskIsQueued == disk \subseteq queue \cup unacked

\* Only what this service published can be confirmed.
ForeignUnconfirmed == \A m \in Malformed : publish[m] \in {"new", "foreign"}

\* Process returned: the event was logged, or could not be read.
FinishedAreLogged == \A m \in finished : m \in Malformed \/ processed[m] > 0

\* A message is in one place, and in none before it is published.
OneCopy ==
  /\ wire \cap (queue \cup unacked) = {}
  /\ queue \cap unacked = {}
  /\ \A m \in Messages : publish[m] = "new" => m \notin wire \cup queue \cup unacked

\* A message that Process will see again has been seen once per fault, by a run
\* that is over or by one that has lost its delivery.
DeliveriesNeedFaults ==
  /\ \A m \in wire : processed[m] = 0 /\ orphans[m] = 0
  /\ \A m \in Messages : publish[m] = "new" => processed[m] = 0 /\ orphans[m] = 0
  /\ \A m \in (queue \cup unacked) \ finished : processed[m] + orphans[m] <= faults
  /\ \A m \in Messages : processed[m] + orphans[m] <= 1 + faults

IInv ==
  /\ TypeOK
  /\ DiskIsQueued
  /\ ForeignUnconfirmed
  /\ FinishedAreLogged
  /\ OneCopy
  /\ DeliveriesNeedFaults
  /\ ConfirmedIsKept
  /\ DuplicatesNeedFaults
=============================================================================
