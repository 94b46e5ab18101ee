--------------------------- MODULE EventBusProofs ---------------------------
(* The safety of EventBus for every set of messages, every prefetch_count and *)
(* every number of faults.                                                    *)
(*                                                                            *)
(* Two arguments.  A confirm needs the disk, and what is on disk is queued or *)
(* unacknowledged (DiskIsQueued) until an Ack, which needs a Process that     *)
(* returned, so that the event was logged (FinishedAreLogged); hence          *)
(* ConfirmedIsKept.  A message has one copy (OneCopy), so each further        *)
(* delivery of it is preceded by a fault of its own, whether the Process of   *)
(* the one before is over or runs on (DeliveriesNeedFaults); hence            *)
(* DuplicatesNeedFaults.                                                      *)
EXTENDS EventBus, TLAPS

\* The initial state satisfies the inductive invariant.
LEMMA InitInv == Init => IInv
  BY MalformedAssumption, MaxFaultsAssumption
  DEF Init, IInv, TypeOK, PublishStates, DiskIsQueued, ForeignUnconfirmed,
      FinishedAreLogged, OneCopy, DeliveriesNeedFaults, ConfirmedIsKept,
      DuplicatesNeedFaults

\* No step breaks the type invariant.
LEMMA NextType == TypeOK /\ [Next]_vars => TypeOK'
<1> SUFFICES ASSUME TypeOK, [Next]_vars PROVE TypeOK'
  OBVIOUS
<1> USE MaxFaultsAssumption DEF TypeOK, PublishStates, Fault
<1>1. ASSUME NEW m \in Messages, Send(m) \/ SendForeign(m) \/ Confirmed(m) \/ GiveUp(m)
      PROVE  TypeOK'
  BY <1>1 DEF Send, SendForeign, Confirmed, GiveUp
<1>2. ASSUME NEW m \in Messages, Broker(m) PROVE TypeOK'
  BY <1>2 DEF Broker, Enqueue, WriteToDisk, Deliver
<1>3. ASSUME NEW m \in Messages, Consumer(m) PROVE TypeOK'
  <2>1. CASE Process(m)
    BY <2>1 DEF Process, Running
  <2>2. CASE SkipMalformed(m) \/ Ack(m)
    BY <2>2 DEF SkipMalformed, Ack
  <2> QED BY <1>3, <2>1, <2>2 DEF Consumer
<1>4. ASSUME NEW m \in Messages, LateProcess(m) PROVE TypeOK'
  BY <1>4 DEF LateProcess
<1>5. CASE Disconnect \/ BrokerRestart
  <2>1. Runs \in [Messages -> Nat]
    BY DEF Runs
  <2> QED BY <1>5, <2>1 DEF Disconnect, BrokerRestart, Sever
<1>6. CASE Crash
  BY <1>6 DEF Crash, Sever
<1>7. CASE UNCHANGED vars
  BY <1>7 DEF vars
<1> QED BY <1>1, <1>2, <1>3, <1>4, <1>5, <1>6, <1>7 DEF Next

\* Every reachable state is well typed.
THEOREM TypeCorrect == Spec => []TypeOK
<1>1. Init => TypeOK
  BY InitInv DEF IInv
<1> QED BY <1>1, NextType, PTL DEF Spec

\* What keeps a confirmed message: the facts that ConfirmedIsKept rests on.
LEMMA NextKept ==
  IInv /\ [Next]_vars
    => (DiskIsQueued /\ ForeignUnconfirmed /\ FinishedAreLogged /\ ConfirmedIsKept)'
<1> SUFFICES ASSUME IInv, [Next]_vars
             PROVE  (DiskIsQueued /\ ForeignUnconfirmed
                       /\ FinishedAreLogged /\ ConfirmedIsKept)'
  OBVIOUS
<1> DEFINE Goal == (DiskIsQueued /\ ForeignUnconfirmed
                      /\ FinishedAreLogged /\ ConfirmedIsKept)'
<1> USE MalformedAssumption
    DEF IInv, TypeOK, PublishStates, DiskIsQueued, ForeignUnconfirmed,
        FinishedAreLogged, ConfirmedIsKept
<1>1. ASSUME NEW m \in Messages, Send(m) \/ SendForeign(m) \/ GiveUp(m) PROVE Goal
  BY <1>1 DEF Send, SendForeign, GiveUp
<1>2. ASSUME NEW m \in Messages, Confirmed(m) PROVE Goal
  BY <1>2 DEF Confirmed
<1>3. ASSUME NEW m \in Messages, Broker(m) PROVE Goal
  BY <1>3 DEF Broker, Enqueue, WriteToDisk, Deliver
<1>4. ASSUME NEW m \in Messages, Process(m) \/ LateProcess(m) PROVE Goal
  BY <1>4 DEF Process, LateProcess, Running
<1>5. ASSUME NEW m \in Messages, SkipMalformed(m) PROVE Goal
  BY <1>5 DEF SkipMalformed
<1>6. ASSUME NEW m \in Messages, Ack(m) PROVE Goal
  BY <1>6 DEF Ack
<1>7. CASE Disconnect
  BY <1>7 DEF Disconnect, Sever
<1>8. CASE Crash
  BY <1>8 DEF Crash, Sever
<1>9. CASE BrokerRestart
  BY <1>9 DEF BrokerRestart, Sever
<1>10. CASE UNCHANGED vars
  BY <1>10 DEF vars
<1> QED BY <1>1, <1>2, <1>3, <1>4, <1>5, <1>6, <1>7, <1>8, <1>9, <1>10
        DEF Next, Consumer

\* The runs that a lost connection leaves behind, against the faults so far.
LEMMA RunsCounted ==
  ASSUME TypeOK, OneCopy, DeliveriesNeedFaults
  PROVE  /\ Runs \in [Messages -> Nat]
         /\ \A m \in Messages : processed[m] + Runs[m] <= 1 + faults
         /\ \A m \in wire : Runs[m] = 0
         /\ \A m \in Messages : publish[m] = "new" => Runs[m] = 0
  BY MalformedAssumption, MaxFaultsAssumption
  DEF TypeOK, OneCopy, DeliveriesNeedFaults, Runs, Running

\* What keeps duplicates down: one copy of a message, one Process per delivery.
LEMMA NextCounted ==
  IInv /\ [Next]_vars => (OneCopy /\ DeliveriesNeedFaults /\ DuplicatesNeedFaults)'
<1> SUFFICES ASSUME IInv, [Next]_vars
             PROVE  (OneCopy /\ DeliveriesNeedFaults /\ DuplicatesNeedFaults)'
  OBVIOUS
<1> DEFINE Goal == (OneCopy /\ DeliveriesNeedFaults /\ DuplicatesNeedFaults)'
<1> USE MalformedAssumption, MaxFaultsAssumption
    DEF IInv, TypeOK, PublishStates, OneCopy, DeliveriesNeedFaults,
        DuplicatesNeedFaults, Fault
<1>1. ASSUME NEW m \in Messages, Send(m) \/ SendForeign(m) PROVE Goal
  BY <1>1 DEF Send, SendForeign
<1>2. ASSUME NEW m \in Messages, Confirmed(m) \/ GiveUp(m) PROVE Goal
  BY <1>2 DEF Confirmed, GiveUp
<1>3. ASSUME NEW m \in Messages, Broker(m) PROVE Goal
  BY <1>3 DEF Broker, Enqueue, WriteToDisk, Deliver
<1>4. ASSUME NEW m \in Messages, Process(m) PROVE Goal
  BY <1>4 DEF Process, Running
<1>5. ASSUME NEW m \in Messages, LateProcess(m) PROVE Goal
  BY <1>5 DEF LateProcess
<1>6. ASSUME NEW m \in Messages, SkipMalformed(m) \/ Ack(m) PROVE Goal
  BY <1>6 DEF SkipMalformed, Ack
<1>7. CASE Disconnect
  BY <1>7, RunsCounted DEF Disconnect, Sever
<1>8. CASE Crash
  BY <1>8 DEF Crash, Sever
<1>9. CASE BrokerRestart
  BY <1>9, RunsCounted DEF BrokerRestart, Sever
<1>10. CASE UNCHANGED vars
  BY <1>10 DEF vars
<1> QED BY <1>1, <1>2, <1>3, <1>4, <1>5, <1>6, <1>7, <1>8, <1>9, <1>10
        DEF Next, Consumer

\* The inductive invariant holds in every reachable state.
THEOREM Invariant == Spec => []IInv
<1>1. IInv /\ [Next]_vars => IInv'
  BY NextType, NextKept, NextCounted DEF IInv
<1> QED BY InitInv, <1>1, PTL DEF Spec

\* An event whose publisher saw the confirm of the broker (events.cpp:133) is
\* on disk and will be delivered, or has been logged, through every crash and
\* restart.
THEOREM ConfirmedIsKeptHolds == Spec => []ConfirmedIsKept
<1>1. IInv => ConfirmedIsKept
  BY DEF IInv
<1> QED BY Invariant, <1>1, PTL

\* An event is logged once, and once more for each fault at most.
THEOREM DuplicatesNeedFaultsHolds == Spec => []DuplicatesNeedFaults
<1>1. IInv => DuplicatesNeedFaults
  BY DEF IInv
<1> QED BY Invariant, <1>1, PTL

-----------------------------------------------------------------------------
(* The refinement: EventBus implements EventDelivery *)

\* A count that is one less at one place.
LEMMA OneLess ==
  ASSUME NEW S, NEW f \in [S -> Nat], NEW g \in [S -> Nat], NEW m \in S,
         \A k \in S : g[k] = IF k = m THEN f[k] - 1 ELSE f[k]
  PROVE  g = [f EXCEPT ![m] = @ - 1]
  OBVIOUS

\* A run that logs is one run less.
LEMMA RunEnds ==
  ASSUME TypeOK, TypeOK', NEW m \in Messages, Process(m) \/ LateProcess(m)
  PROVE  /\ Runs[m] > 0
         /\ Runs' = [Runs EXCEPT ![m] = @ - 1]
<1>1. Runs \in [Messages -> Nat]
  BY DEF TypeOK, Runs
<1>2. Runs' \in [Messages -> Nat]
  BY DEF TypeOK, Runs
<1>3. Runs[m] > 0
  BY DEF TypeOK, Process, LateProcess, Runs, Running
<1>4. ASSUME NEW k \in Messages
      PROVE  Runs'[k] = IF k = m THEN Runs[k] - 1 ELSE Runs[k]
  <2>1. CASE Process(m)
    BY <2>1 DEF TypeOK, Process, Runs, Running
  <2>2. CASE LateProcess(m)
    BY <2>2 DEF TypeOK, LateProcess, Runs, Running
  <2> QED BY <2>1, <2>2
<1>5. Runs' = [Runs EXCEPT ![m] = @ - 1]
  BY <1>1, <1>2, <1>4, OneLess
<1> QED BY <1>3, <1>5

\* Every step is a step of the delivery or a stutter.
LEMMA StepRefines == IInv /\ [Next]_vars => [Delivery!Next]_(Delivery!vars)
<1> SUFFICES ASSUME IInv, [Next]_vars PROVE [Delivery!Next]_(Delivery!vars)
  OBVIOUS
<1> DEFINE Goal == [Delivery!Next]_(Delivery!vars)
<1>0. TypeOK /\ DiskIsQueued /\ ForeignUnconfirmed /\ FinishedAreLogged /\ OneCopy
      /\ ConfirmedIsKept
  BY DEF IInv
<1> USE <1>0, MalformedAssumption DEF TypeOK, Delivery!vars, Taken, Promised, Kept, Runs, Running
<1>1. ASSUME NEW m \in Messages, Send(m) \/ SendForeign(m) PROVE Goal
  <2>1. Delivery!Take(m)
    BY <1>1 DEF Send, SendForeign, Delivery!Take
  <2> QED BY <2>1 DEF Delivery!Next
<1>2. ASSUME NEW m \in Messages, Confirmed(m) PROVE Goal
  <2>1. Delivery!Promise(m)
    BY <1>2 DEF Confirmed, DiskIsQueued, Delivery!Promise
  <2> QED BY <2>1 DEF Delivery!Next
<1>3. ASSUME NEW m \in Messages, GiveUp(m) PROVE Goal
  BY <1>3 DEF GiveUp
<1>4. ASSUME NEW m \in Messages, Enqueue(m) \/ WriteToDisk(m) PROVE Goal
  BY <1>4 DEF Enqueue, WriteToDisk
<1>5. ASSUME NEW m \in Messages, Deliver(m) PROVE Goal
  <2>1. CASE m \in Malformed
    BY <1>5, <2>1 DEF Deliver
  <2>2. CASE m \notin Malformed
    <3>1. Delivery!Begin(m)
      BY <1>5, <2>2 DEF Deliver, OneCopy, Delivery!Begin
    <3> QED BY <3>1 DEF Delivery!Next
  <2> QED BY <2>1, <2>2
<1>6. ASSUME NEW m \in Messages, Process(m) \/ LateProcess(m) PROVE Goal
  <2>1. TypeOK'
    BY NextType
  <2>2. Runs[m] > 0 /\ Runs' = [Runs EXCEPT ![m] = @ - 1]
    BY <1>6, <2>1, RunEnds
  <2>3. Delivery!Log(m)
    BY <1>6, <2>2 DEF Process, LateProcess, Delivery!Log
  <2> QED BY <2>3 DEF Delivery!Next
<1>7. ASSUME NEW m \in Messages, SkipMalformed(m) PROVE Goal
  BY <1>7 DEF SkipMalformed
<1>8. ASSUME NEW m \in Messages, Ack(m) PROVE Goal
  <2>1. m \in Promised => processed[m] > 0
    BY <1>8 DEF Ack, ForeignUnconfirmed, FinishedAreLogged
  <2>2. Delivery!Drop({m})
    BY <1>8, <2>1 DEF Ack, OneCopy, Delivery!Drop
  <2> QED BY <1>8, <2>2 DEF Ack, Delivery!Next
<1>9. CASE Disconnect
  BY <1>9 DEF Disconnect, Sever
<1>10. CASE Crash
  <2>1. Delivery!Abandon
    BY <1>10 DEF Crash, Sever, Delivery!Abandon
  <2> QED BY <2>1 DEF Delivery!Next
<1>11. CASE BrokerRestart
  <2> DEFINE gone == Kept \ ((queue \cup unacked) \cap disk)
  <2>1. \A m \in gone \cap Promised : processed[m] > 0
    BY DEF ConfirmedIsKept
  <2>2. Delivery!Drop(gone)
    BY <1>11, <2>1 DEF BrokerRestart, Sever, Delivery!Drop
  <2> QED BY <2>2 DEF Delivery!Next
<1>12. CASE UNCHANGED vars
  BY <1>12 DEF vars
<1> QED BY <1>1, <1>2, <1>3, <1>4, <1>5, <1>6, <1>7, <1>8, <1>9, <1>10, <1>11, <1>12
        DEF Next, Broker, Consumer

\* Queue, disk, prefetch and acknowledgements deliver each confirmed event at
\* least once.
THEOREM Refinement == Spec => ImplementsDelivery
<1>1. Init => Delivery!Init
  BY DEF Init, Delivery!Init, Taken, Promised, Kept, Runs, Running
<1> QED
  BY <1>1, StepRefines, Invariant, PTL DEF Spec, ImplementsDelivery, Delivery!Spec
=============================================================================
