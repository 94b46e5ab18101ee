------------------------- MODULE RouteCatalogProofs -------------------------
(* The safety of RouteCatalog for every set of owners, ids and slots and      *)
(* every number of faults.                                                    *)
(*                                                                            *)
(* NoForeignRoutes, EventsAreFacts and StaleExplained are not inductive on    *)
(* their own: what enters the cache, the exchange or a client's hands was     *)
(* first in the hands of a slot, so IInv also says what slots hold (InHand,   *)
(* ReaderExplained), and that only rows are ever invalidated (DeletedAreRows).*)
EXTENDS RouteCatalog, TLAPS

\* The initial state satisfies the inductive invariant.
LEMMA InitInv == Init => IInv
  BY NoneAssumption, MaxFaultsAssumption
  DEF Init, Redis!Init, Redis!Hit, IInv, TypeOK, InHand, NoForeignRoutes,
      EventsAreFacts, DeletedAreRows, StaleExplained, ReaderExplained,
      PCs, At, Rows

-----------------------------------------------------------------------------
(* Type correctness *)

\* No step breaks the type invariant.
LEMMA NextType == TypeOK /\ [Next]_vars => TypeOK'
<1> SUFFICES ASSUME TypeOK, [Next]_vars PROVE TypeOK'
  OBVIOUS
<1> USE NoneAssumption, MaxFaultsAssumption DEF TypeOK, PCs, At, Goto, Fault
<1>1. ASSUME NEW s \in Slots, NEW o \in Owners, StartGet(s, o) \/ StartPost(s, o)
      PROVE  TypeOK'
  BY <1>1 DEF StartGet, StartPost, Start
<1>2. ASSUME NEW s \in Slots, LookupHit(s) PROVE TypeOK'
  BY <1>2 DEF LookupHit, Finish
<1>3. ASSUME NEW s \in Slots, LookupMiss(s) \/ LookupFails(s) PROVE TypeOK'
  BY <1>3 DEF LookupMiss, LookupFails
<1>4. ASSUME NEW s \in Slots, Query(s) \/ QueryFails(s) PROVE TypeOK'
  BY <1>4 DEF Query, QueryFails, Rows
<1>5. ASSUME NEW s \in Slots, Fill(s) PROVE TypeOK'
  BY <1>5 DEF Fill, Finish, Redis!Set
<1>6. ASSUME NEW s \in Slots, FillLost(s) PROVE TypeOK'
  BY <1>6 DEF FillLost, Finish
<1>7. ASSUME NEW s \in Slots, Insert(s) PROVE TypeOK'
  BY <1>7 DEF Insert, Commit
<1>8. ASSUME NEW s \in Slots, InsertRejected(s) \/ LateAbort(s) PROVE TypeOK'
  BY <1>8 DEF InsertRejected, LateAbort, Finish
<1>9. ASSUME NEW s \in Slots, InsertTimeout(s) PROVE TypeOK'
  BY <1>9 DEF InsertTimeout
<1>10. ASSUME NEW s \in Slots, LateCommit(s) PROVE TypeOK'
  BY <1>10 DEF LateCommit, Commit, Finish
<1>11. ASSUME NEW s \in Slots, Invalidate(s) PROVE TypeOK'
  BY <1>11 DEF Invalidate, Redis!Invalidate
<1>12. ASSUME NEW s \in Slots, InvalidateLost(s) PROVE TypeOK'
  BY <1>12 DEF InvalidateLost
<1>13. ASSUME NEW s \in Slots, Publish(s) \/ PublishFails(s) PROVE TypeOK'
  BY <1>13 DEF Publish, PublishFails
<1>14. ASSUME NEW s \in Slots, Respond(s) PROVE TypeOK'
  BY <1>14 DEF Respond, Finish
<1>15. ASSUME NEW o \in Owners, Expire(o) PROVE TypeOK'
  BY <1>15 DEF Expire, Redis!Expire
<1>16. CASE Crash
  BY <1>16 DEF Crash
<1>17. CASE UNCHANGED vars
  BY <1>17 DEF vars
<1> QED
  BY <1>1, <1>2, <1>3, <1>4, <1>5, <1>6, <1>7, <1>8, <1>9, <1>10, <1>11,
     <1>12, <1>13, <1>14, <1>15, <1>16, <1>17
  DEF Next, Serve, Lose

\* Every reachable state is well typed.
THEOREM TypeCorrect == Spec => []TypeOK
<1>1. Init => TypeOK
  BY InitInv DEF IInv
<1> QED
  BY <1>1, NextType, PTL DEF Spec

-----------------------------------------------------------------------------
(* The inductive invariant *)

\* The conjuncts of IInv that type correctness does not cover.
Safety ==
  /\ InHand
  /\ NoForeignRoutes
  /\ EventsAreFacts
  /\ DeletedAreRows
  /\ StaleExplained
  /\ ReaderExplained

\* No step breaks the other conjuncts.  Only four kinds of step matter: a list
\* is read (Query), a list is cached (Fill), a row appears (Insert, LateCommit)
\* and a row's DEL arrives (Invalidate).
LEMMA NextSafety == IInv /\ [Next]_vars => Safety'
<1> SUFFICES ASSUME IInv, [Next]_vars PROVE Safety'
  OBVIOUS
<1>t. TypeOK /\ TypeOK'
  BY NextType DEF IInv
<1> USE <1>t, NoneAssumption, MissAssumption
    DEF TypeOK, At, Goto, IInv, Safety, InHand, NoForeignRoutes,
        EventsAreFacts, DeletedAreRows, StaleExplained, ReaderExplained,
        Rows, Redis!Hit
<1>1. ASSUME NEW s \in Slots, NEW o \in Owners, StartGet(s, o) \/ StartPost(s, o)
      PROVE  Safety'
  BY <1>1 DEF StartGet, StartPost, Start
<1>2. ASSUME NEW s \in Slots,
             LookupHit(s) \/ LookupMiss(s) \/ LookupFails(s)
      PROVE  Safety'
  BY <1>2 DEF LookupHit, LookupMiss, LookupFails, Finish
\* A list just read is all of the owner's rows, so it lacks no deleted one.
<1>3. ASSUME NEW s \in Slots, Query(s) PROVE Safety'
  <2>1. list'[s] = Rows(owner[s])
    BY <1>3 DEF Query
  <2>2. \A t \in Slots \ {s} : pc'[t] = pc[t] /\ list'[t] = list[t]
    BY <1>3 DEF Query
  <2>3. UNCHANGED <<table, cache, events, owner, acked, deleted, doubtful, suspect>>
    BY <1>3 DEF Query
  <2>4. NoForeignRoutes' /\ ReaderExplained'
    BY <2>1, <2>2, <2>3
  <2>5. InHand'
    BY <1>3, <2>2, <2>3 DEF Query
  <2> QED
    BY <2>3, <2>4, <2>5
\* A list that stands for a failed query has a doubtful reader.
<1>4. ASSUME NEW s \in Slots, QueryFails(s) PROVE Safety'
  BY <1>4 DEF QueryFails
\* The entry takes over what was known of the list.
<1>5. ASSUME NEW s \in Slots, Fill(s) PROVE Safety'
  <2>1. cache' = [cache EXCEPT ![owner[s]] = list[s]] /\ owner[s] \in Owners
    BY <1>5 DEF Fill, Redis!Set
  <2>2. list[s] \subseteq Rows(owner[s])
    BY <1>5 DEF Fill
  <2>3. s \notin doubtful => Rows(owner[s]) \cap deleted \subseteq list[s]
    BY <1>5 DEF Fill
  <2>4. UNCHANGED <<table, events, acked, deleted>>
    BY <1>5 DEF Fill
  <2>5. StaleExplained'
    BY <1>5, <2>1, <2>3, <2>4 DEF Fill
  <2>6. InHand' /\ NoForeignRoutes' /\ ReaderExplained'
    BY <1>5, <2>1, <2>2, <2>4 DEF Fill, Finish
  <2> QED
    BY <2>4, <2>5, <2>6
<1>6. ASSUME NEW s \in Slots,
             FillLost(s) \/ InsertRejected(s) \/ LateAbort(s)
      PROVE  Safety'
  BY <1>6 DEF FillLost, InsertRejected, LateAbort, Finish
\* A new row has not been deleted: no entry and no list has to hold it.
<1>7. ASSUME NEW s \in Slots, Insert(s) PROVE Safety'
  <2> PICK r \in RouteIds : Commit(s, r) /\ list' = [list EXCEPT ![s] = {r}]
    BY <1>7 DEF Insert
  <2>1. r \notin deleted
    BY DEF Commit
  <2>2. \A o \in Owners : Rows(o) \subseteq Rows(o)'
    BY DEF Commit
  <2>3. \A o \in Owners : Rows(o)' \cap deleted = Rows(o) \cap deleted
    BY <2>1 DEF Commit
  <2>4. UNCHANGED <<cache, events, owner, acked, deleted, doubtful, suspect>>
    BY <1>7 DEF Insert
  <2>5. InHand' /\ NoForeignRoutes'
    BY <1>7, <2>2, <2>4 DEF Insert, Commit
  <2>6. StaleExplained' /\ ReaderExplained'
    BY <1>7, <2>3, <2>4 DEF Insert
  <2>7. EventsAreFacts' /\ DeletedAreRows'
    BY <2>4 DEF Commit
  <2> QED
    BY <2>5, <2>6, <2>7
<1>8. ASSUME NEW s \in Slots, LateCommit(s) PROVE Safety'
  <2> PICK r \in RouteIds : Commit(s, r)
    BY <1>8 DEF LateCommit
  <2>1. \A o \in Owners : /\ Rows(o) \subseteq Rows(o)'
                          /\ Rows(o)' \cap deleted = Rows(o) \cap deleted
    BY DEF Commit
  <2>2. UNCHANGED <<cache, events, acked, deleted, suspect>>
    BY <1>8 DEF LateCommit
  <2>3. InHand' /\ NoForeignRoutes'
    BY <1>8, <2>1, <2>2 DEF LateCommit, Finish
  <2>4. StaleExplained' /\ ReaderExplained'
    BY <1>8, <2>1, <2>2 DEF LateCommit, Finish
  <2>5. EventsAreFacts' /\ DeletedAreRows'
    BY <2>2 DEF Commit
  <2> QED
    BY <2>3, <2>4, <2>5
<1>9. ASSUME NEW s \in Slots, InsertTimeout(s) \/ InvalidateLost(s) PROVE Safety'
  BY <1>9 DEF InsertTimeout, InvalidateLost
\* The DEL of a row removes its owner's entry and turns the readers that are
\* about to write it doubtful; the row belongs to no other owner.
<1>10. ASSUME NEW s \in Slots, Invalidate(s) PROVE Safety'
  <2>1. list[s] \subseteq Rows(owner[s]) /\ owner[s] \in Owners
    BY <1>10 DEF Invalidate
  <2>2. \A o \in Owners \ {owner[s]} : Rows(o) \cap deleted' = Rows(o) \cap deleted
    BY <1>10, <2>1 DEF Invalidate
  <2>3. cache' = [cache EXCEPT ![owner[s]] = Miss]
    BY <1>10 DEF Invalidate, Redis!Invalidate
  <2>4. UNCHANGED <<table, events, owner, list, acked>>
    BY <1>10 DEF Invalidate
  <2>5. StaleExplained'
    BY <1>10, <2>2, <2>3, <2>4 DEF Invalidate
  <2>6. ReaderExplained'
    BY <1>10, <2>2, <2>4 DEF Invalidate
  <2>7. InHand' /\ NoForeignRoutes' /\ EventsAreFacts' /\ DeletedAreRows'
    BY <1>10, <2>1, <2>3, <2>4 DEF Invalidate
  <2> QED
    BY <2>5, <2>6, <2>7
<1>11. ASSUME NEW s \in Slots, Publish(s) \/ PublishFails(s) PROVE Safety'
  BY <1>11 DEF Publish, PublishFails
<1>12. ASSUME NEW s \in Slots, Respond(s) PROVE Safety'
  BY <1>12 DEF Respond, Finish
<1>13. ASSUME NEW o \in Owners, Expire(o) PROVE Safety'
  BY <1>13 DEF Expire, Redis!Expire
<1>14. CASE Crash
  BY <1>14 DEF Crash
<1>15. CASE UNCHANGED vars
  BY <1>15 DEF vars
<1> QED
  BY <1>1, <1>2, <1>3, <1>4, <1>5, <1>6, <1>7, <1>8, <1>9, <1>10, <1>11,
     <1>12, <1>13, <1>14, <1>15
  DEF Next, Serve, Lose

\* The inductive invariant holds in every reachable state.
THEOREM Invariant == Spec => []IInv
<1>1. IInv /\ [Next]_vars => IInv'
  BY NextType, NextSafety DEF IInv, Safety
<1> QED
  BY InitInv, <1>1, PTL DEF Spec

-----------------------------------------------------------------------------
(* The safety properties *)

\* A GET never shows a route that was not committed or is another owner's.
THEOREM NoForeignRoutesHolds == Spec => []NoForeignRoutes
<1>1. IInv => NoForeignRoutes
  BY DEF IInv
<1> QED
  BY Invariant, <1>1, PTL

\* Events and answers are about rows that exist.
THEOREM EventsAreFactsHolds == Spec => []EventsAreFacts
<1>1. IInv => EventsAreFacts
  BY DEF IInv
<1> QED
  BY Invariant, <1>1, PTL

\* A cached list lacks an invalidated row only because of a doubtful reader.
THEOREM StaleExplainedHolds == Spec => []StaleExplained
<1>1. IInv => StaleExplained
  BY DEF IInv
<1> QED
  BY Invariant, <1>1, PTL

-----------------------------------------------------------------------------
(* RouteCatalog implements RouteContract *)

\* A POST past its INSERT holds exactly one row.
OneInHand ==
  \A s \in Slots :
    pc[s] \in {"publish", "respond", "invalidate"} =>
      \E r \in RouteIds : list[s] = {r}

\* Insert puts one row in the slot's hands, and nothing replaces it.
LEMMA OneInHandInvariant == Spec => []OneInHand
<1>1. Init => OneInHand
  BY DEF Init, OneInHand
<1>2. ASSUME TypeOK, OneInHand, [Next]_vars PROVE OneInHand'
  <2> USE <1>2 DEF TypeOK, OneInHand, At, Goto
  <2>1. ASSUME NEW s \in Slots, NEW o \in Owners, StartGet(s, o) \/ StartPost(s, o)
        PROVE  OneInHand'
    BY <2>1 DEF StartGet, StartPost, Start
  <2>2. ASSUME NEW s \in Slots, Insert(s) PROVE OneInHand'
    BY <2>2 DEF Insert
  <2>3. ASSUME NEW s \in Slots, Serve(s), ~Insert(s) PROVE OneInHand'
    BY <2>3 DEF Serve, LookupHit, LookupMiss, Query, Fill, InsertRejected,
                LateCommit, LateAbort, Invalidate, Publish, Respond, Finish
  <2>4. ASSUME NEW s \in Slots, Lose(s) PROVE OneInHand'
    BY <2>4 DEF Lose, LookupFails, QueryFails, FillLost, InsertTimeout,
                InvalidateLost, PublishFails, Finish
  <2>5. ASSUME NEW o \in Owners, Expire(o) PROVE OneInHand'
    BY <2>5 DEF Expire
  <2>6. CASE Crash
    BY <2>6 DEF Crash
  <2>7. CASE UNCHANGED vars
    BY <2>7 DEF vars
  <2> QED
    BY <2>1, <2>2, <2>3, <2>4, <2>5, <2>6, <2>7 DEF Next
<1>3. TypeOK /\ OneInHand /\ [Next]_vars => OneInHand'
  BY <1>2
<1> QED
  BY <1>1, <1>3, TypeCorrect, PTL DEF Spec

\* A step of the handlers is a step of the contract or changes none of its
\* variables.
LEMMA StepRefines ==
  IInv /\ OneInHand /\ [Next]_vars => [Contract!Next]_(Contract!vars)
<1> SUFFICES ASSUME IInv, OneInHand, [Next]_vars
             PROVE  [Contract!Next]_(Contract!vars)
  OBVIOUS
<1> USE DEF IInv, TypeOK, At, Contract!vars
<1>1. ASSUME NEW s \in Slots, NEW o \in Owners, StartGet(s, o) \/ StartPost(s, o)
      PROVE  UNCHANGED Contract!vars
  BY <1>1 DEF StartGet, StartPost, Start
<1>2. ASSUME NEW s \in Slots, Fill(s) PROVE Contract!Next
  <2>1. owner[s] \in Owners /\ list[s] \in SUBSET Contract!Owned(owner[s])
    BY <1>2, NoneAssumption DEF Fill, NoForeignRoutes, Rows, Contract!Owned
  <2>2. Contract!Show(owner[s])
    BY <1>2, <2>1 DEF Fill, Redis!Set, Contract!Show
  <2> QED
    BY <2>1, <2>2 DEF Contract!Next
<1>3. ASSUME NEW s \in Slots, Insert(s) \/ LateCommit(s) PROVE Contract!Next
  <2>1. PICK r \in RouteIds : Commit(s, r)
    BY <1>3 DEF Insert, LateCommit
  <2>2. owner[s] \in Owners
    BY <1>3 DEF Insert, LateCommit
  <2>3. Contract!Create(r, owner[s])
    BY <1>3, <2>1 DEF Insert, LateCommit, Commit, Contract!Create
  <2> QED
    BY <2>2, <2>3 DEF Contract!Next
<1>4. ASSUME NEW s \in Slots, Invalidate(s) PROVE Contract!Next
  <2>1. owner[s] \in Owners
    BY <1>4 DEF Invalidate
  <2>2. Contract!Forget(owner[s])
    BY <1>4 DEF Invalidate, Redis!Invalidate, Contract!Forget
  <2> QED
    BY <2>1, <2>2 DEF Contract!Next
<1>5. ASSUME NEW s \in Slots, Publish(s) \/ Respond(s) PROVE Contract!Next
  <2>1. PICK r \in RouteIds : list[s] = {r}
    BY <1>5 DEF OneInHand, Publish, Respond
  <2>2. table[r] # None
    BY <1>5, <2>1, NoneAssumption DEF InHand, Rows, Publish, Respond
  <2>3. Contract!Announce(r) \/ Contract!Tell(r)
    BY <1>5, <2>1, <2>2 DEF Publish, Respond, Contract!Announce, Contract!Tell
  <2> QED
    BY <2>3 DEF Contract!Next
<1>6. ASSUME NEW s \in Slots,
             \/ LookupHit(s) \/ LookupMiss(s) \/ Query(s)
             \/ InsertRejected(s) \/ LateAbort(s)
             \/ LookupFails(s) \/ QueryFails(s) \/ FillLost(s)
             \/ InsertTimeout(s) \/ InvalidateLost(s)
      PROVE  UNCHANGED Contract!vars
  BY <1>6 DEF LookupHit, LookupMiss, Query, InsertRejected, LateAbort,
              LookupFails, QueryFails, FillLost, InsertTimeout, InvalidateLost
<1>10. ASSUME NEW s \in Slots, PublishFails(s)
       PROVE  [Contract!Next]_(Contract!vars)
  <2>1. PICK sent \in {{}, list[s]} : events' = events \cup sent
    BY <1>10 DEF PublishFails
  <2>2. UNCHANGED <<table, cache, acked>>
    BY <1>10 DEF PublishFails
  <2>3. CASE sent = {}
    BY <2>1, <2>2, <2>3
  <2>4. CASE sent = list[s]
    <3>1. PICK r \in RouteIds : list[s] = {r}
      BY <1>10 DEF OneInHand, PublishFails
    <3>2. table[r] # None
      BY <1>10, <3>1, NoneAssumption DEF InHand, Rows, PublishFails
    <3>3. Contract!Announce(r)
      BY <2>1, <2>2, <2>4, <3>1, <3>2 DEF Contract!Announce
    <3> QED
      BY <3>3 DEF Contract!Next
  <2> QED
    BY <2>1, <2>3, <2>4
<1>7. ASSUME NEW o \in Owners, Expire(o) PROVE Contract!Next
  <2>1. Contract!Forget(o)
    BY <1>7 DEF Expire, Redis!Expire, Contract!Forget
  <2> QED
    BY <2>1 DEF Contract!Next
<1>8. CASE Crash
  BY <1>8 DEF Crash
<1>9. CASE UNCHANGED vars
  BY <1>9 DEF vars
<1> QED
  BY <1>1, <1>2, <1>3, <1>4, <1>5, <1>6, <1>7, <1>8, <1>9, <1>10
  DEF Next, Serve, Lose

\* The handlers implement the contract.
THEOREM Refinement == Spec => ImplementsContract
<1>1. Init => Contract!Init
  BY DEF Init, Redis!Init, Contract!Init
<1> QED
  BY <1>1, StepRefines, Invariant, OneInHandInvariant, PTL
  DEF Spec, ImplementsContract, Contract!Spec
=============================================================================
