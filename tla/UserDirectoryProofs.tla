------------------------- MODULE UserDirectoryProofs -------------------------
(* The safety of UserDirectory for every set of logins, profiles and slots    *)
(* and every number of faults.                                                *)
(*                                                                            *)
(* Everything follows from rows that never change: what a reader carries to   *)
(* the cache was a row when it was read (FoundIsRow) and still is; the POST   *)
(* that wrote a row is the only one past its INSERT for that login and has    *)
(* not been answered yet (SoleWriter); a reader that must find its user has   *)
(* the row before it from the start (FinderHasRow).                           *)
EXTENDS UserDirectory, TLAPS

\* The initial state satisfies the inductive invariant.
LEMMA InitInv == Init => IInv
  BY NoneAssumption, MissAssumption, MaxFaultsAssumption
  DEF Init, Redis!Init, Redis!Hit, IInv, TypeOK, CachedProfileIsRow, FoundIsRow,
      SoleWriter, Winning, OneWinner, FinderHasRow, PCs, At

\* No step breaks the type invariant.
LEMMA NextType == TypeOK /\ [Next]_vars => TypeOK'
<1> SUFFICES ASSUME TypeOK, [Next]_vars PROVE TypeOK'
  OBVIOUS
<1> USE NoneAssumption, MaxFaultsAssumption DEF TypeOK, PCs, At, Goto, Fault
<1>1. ASSUME NEW s \in Slots, NEW l \in Logins, StartGet(s, l) PROVE TypeOK'
  BY <1>1 DEF StartGet
<1>2. ASSUME NEW s \in Slots, NEW l \in Logins, NEW p \in Profiles, StartPost(s, l, p)
      PROVE  TypeOK'
  BY <1>2 DEF StartPost
<1>3. ASSUME NEW s \in Slots,
             LookupHit(s) \/ LookupMiss(s) \/ LookupFails(s) \/ Leave(s)
      PROVE  TypeOK'
  BY <1>3, MissAssumption DEF LookupHit, LookupMiss, LookupFails, Leave, Finish, Redis!Hit
<1>4. ASSUME NEW s \in Slots, QueryFound(s) \/ QueryEmpty(s) \/ QueryFails(s)
      PROVE  TypeOK'
  BY <1>4 DEF QueryFound, QueryEmpty, QueryFails
<1>5. ASSUME NEW s \in Slots, Fill(s) \/ FillLost(s) PROVE TypeOK'
  BY <1>5 DEF Fill, FillLost, Finish, Redis!Set
<1>6. ASSUME NEW s \in Slots, Insert(s) PROVE TypeOK'
  BY <1>6 DEF Insert, Commit
<1>7. ASSUME NEW s \in Slots, InsertRefused(s) \/ InsertTimeout(s) PROVE TypeOK'
  BY <1>7 DEF InsertRefused, InsertTimeout
<1>8. ASSUME NEW s \in Slots, LateCommit(s) \/ LateAbort(s) PROVE TypeOK'
  BY <1>8 DEF LateCommit, LateAbort, Commit, Finish
<1>9. ASSUME NEW s \in Slots, Invalidate(s) \/ InvalidateLost(s) PROVE TypeOK'
  BY <1>9 DEF Invalidate, InvalidateLost, Redis!Invalidate
<1>10. ASSUME NEW s \in Slots, Publish(s) \/ PublishFails(s) PROVE TypeOK'
  BY <1>10 DEF Publish, PublishFails
<1>11. ASSUME NEW s \in Slots, Respond(s) PROVE TypeOK'
  BY <1>11 DEF Respond, Finish
<1>12. ASSUME NEW l \in Logins, Expire(l) PROVE TypeOK'
  BY <1>12 DEF Expire, Redis!Expire
<1>13. CASE Crash
  BY <1>13 DEF Crash
<1>14. CASE UNCHANGED vars
  BY <1>14 DEF vars
<1> QED
  BY <1>1, <1>2, <1>3, <1>4, <1>5, <1>6, <1>7, <1>8, <1>9, <1>10, <1>11,
     <1>12, <1>13, <1>14
  DEF Next, Serve, Lose

\* Every reachable state is well typed.
THEOREM TypeCorrect == Spec => []TypeOK
<1>1. Init => TypeOK
  BY InitInv DEF IInv
<1> QED
  BY <1>1, NextType, PTL DEF Spec

\* The conjuncts of IInv that type correctness does not cover.
Safety ==
  /\ CachedProfileIsRow
  /\ FoundIsRow
  /\ SoleWriter
  /\ OneWinner
  /\ FinderHasRow

\* No step breaks the other conjuncts.
LEMMA NextSafety == IInv /\ [Next]_vars => Safety'
<1> SUFFICES ASSUME IInv, [Next]_vars PROVE Safety'
  OBVIOUS
<1>t. TypeOK /\ TypeOK'
  BY NextType DEF IInv
<1> USE <1>t, NoneAssumption, MissAssumption
    DEF IInv, TypeOK, Safety, CachedProfileIsRow, FoundIsRow, SoleWriter, Winning,
        OneWinner, FinderHasRow, At, Goto, Redis!Hit
<1>1. ASSUME NEW s \in Slots, NEW l \in Logins, StartGet(s, l) PROVE Safety'
  BY <1>1 DEF StartGet
<1>2. ASSUME NEW s \in Slots, NEW l \in Logins, NEW p \in Profiles, StartPost(s, l, p)
      PROVE  Safety'
  BY <1>2 DEF StartPost
<1>3. ASSUME NEW s \in Slots,
             LookupHit(s) \/ LookupMiss(s) \/ LookupFails(s) \/ Leave(s)
      PROVE  Safety'
  BY <1>3 DEF LookupHit, LookupMiss, LookupFails, Leave, Finish
<1>4. ASSUME NEW s \in Slots, QueryFound(s) \/ QueryEmpty(s) \/ QueryFails(s)
      PROVE  Safety'
  BY <1>4 DEF QueryFound, QueryEmpty, QueryFails
<1>5. ASSUME NEW s \in Slots, Fill(s) \/ FillLost(s) PROVE Safety'
  BY <1>5 DEF Fill, FillLost, Finish, Redis!Set
\* A row is written once: there was none, so no entry, no reader and no other
\* writer of the login can differ from it.
<1>6. ASSUME NEW s \in Slots, Insert(s) PROVE Safety'
  <2> DEFINE l == login[s]
  <2>1. l \in Logins /\ users[l] = None /\ users' = [users EXCEPT ![l] = profile[s]]
    BY <1>6 DEF Insert, Commit
  <2>2. UNCHANGED <<cache, events, login, profile, wins, mustFind>>
    BY <1>6 DEF Insert
  <2>3. /\ cache[l] = Miss
        /\ wins[l] = 0
        /\ events[l] = {}
        /\ \A t \in Winning : login[t] # l
    BY <1>6, <2>1 DEF Insert
  <2>4. CachedProfileIsRow' /\ OneWinner'
    BY <2>1, <2>2, <2>3
  <2>5. FoundIsRow' /\ FinderHasRow'
    BY <1>6, <2>1, <2>2 DEF Insert
  <2>6. SoleWriter'
    BY <1>6, <2>1, <2>2, <2>3 DEF Insert
  <2> QED
    BY <2>4, <2>5, <2>6
<1>7. ASSUME NEW s \in Slots, InsertRefused(s) \/ InsertTimeout(s) PROVE Safety'
  BY <1>7 DEF InsertRefused, InsertTimeout
<1>8. ASSUME NEW s \in Slots, LateCommit(s) \/ LateAbort(s) PROVE Safety'
  BY <1>8 DEF LateCommit, LateAbort, Commit, Finish
<1>9. ASSUME NEW s \in Slots, Invalidate(s) \/ InvalidateLost(s) PROVE Safety'
  BY <1>9 DEF Invalidate, InvalidateLost, Redis!Invalidate
<1>10. ASSUME NEW s \in Slots, Publish(s) \/ PublishFails(s) PROVE Safety'
  BY <1>10 DEF Publish, PublishFails
\* The only writer of its login wins, and stops being a writer.
<1>11. ASSUME NEW s \in Slots, Respond(s) PROVE Safety'
  <2> DEFINE l == login[s]
  <2>1. s \in Winning /\ l \in Logins /\ wins[l] = 0
    BY <1>11 DEF Respond
  <2>2. /\ wins' = [wins EXCEPT ![l] = 1]
        /\ users[l] # None
    BY <1>11, <2>1 DEF Respond
  <2>3. Winning' = Winning \ {s}
    BY <1>11, <2>1 DEF Respond, Finish
  <2>4. UNCHANGED <<users, cache, events>>
    BY <1>11 DEF Respond
  <2>5. OneWinner'
    BY <2>1, <2>2, <2>4
  <2>6. SoleWriter'
    BY <1>11, <2>1, <2>2, <2>3, <2>4 DEF Respond, Finish
  <2>7. CachedProfileIsRow' /\ FoundIsRow' /\ FinderHasRow'
    BY <1>11, <2>4 DEF Respond, Finish
  <2> QED
    BY <2>5, <2>6, <2>7
<1>12. ASSUME NEW l \in Logins, Expire(l) PROVE Safety'
  BY <1>12 DEF Expire, Redis!Expire
<1>13. CASE Crash
  BY <1>13 DEF Crash
<1>14. CASE UNCHANGED vars
  BY <1>14 DEF vars
<1> QED
  BY <1>1, <1>2, <1>3, <1>4, <1>5, <1>6, <1>7, <1>8, <1>9, <1>10, <1>11,
     <1>12, <1>13, <1>14
  DEF Next, Serve, Lose

\* The inductive invariant holds in every reachable state.
THEOREM Invariant == Spec => []IInv
<1>1. IInv /\ [Next]_vars => IInv'
  BY NextType, NextSafety DEF IInv, Safety
<1> QED
  BY InitInv, <1>1, PTL DEF Spec

-----------------------------------------------------------------------------
(* The safety properties *)

\* The cached profile of a user is never stale.
THEOREM CachedProfileIsRowHolds == Spec => []CachedProfileIsRow
<1>1. IInv => CachedProfileIsRow
  BY DEF IInv
<1> QED
  BY Invariant, <1>1, PTL

\* At most one POST of a login succeeds, and its event tells the row.
THEOREM OneWinnerHolds == Spec => []OneWinner
<1>1. IInv => OneWinner
  BY DEF IInv
<1> QED
  BY Invariant, <1>1, PTL

\* A user whose creation was acknowledged is found by every later GET whose
\* SELECT works.
THEOREM CreatedIsFoundHolds == Spec => []CreatedIsFound
<1>1. IInv => CreatedIsFound
  BY DEF IInv, FinderHasRow, CreatedIsFound, At
<1> QED
  BY Invariant, <1>1, PTL

-----------------------------------------------------------------------------
(* The refinement: UserDirectory implements UserStorage *)

\* The states in which a request holds an answer of the storage.
Giving == {"fill", "found", "invalidate", "publish", "respond"}

\* Every step is a step of the storage or a stutter.
LEMMA StepRefines == IInv /\ [Next]_vars => [Storage!Next]_(Storage!vars)
<1> SUFFICES ASSUME IInv, [Next]_vars PROVE [Storage!Next]_(Storage!vars)
  OBVIOUS
<1> DEFINE Goal == [Storage!Next]_(Storage!vars)
<1>t. TypeOK
  BY DEF IInv
<1> USE DEF At, Goto, Storage!vars, Giving
\* Steps that change neither a row nor what a request holds.
<1>s. ASSUME UNCHANGED users,
             \A s \in Slots : pc'[s] \in Giving <=> pc[s] \in Giving,
             \A s \in Slots : pc[s] \in Giving => UNCHANGED <<login[s], profile[s]>>
      PROVE  Goal
  BY <1>s DEF Given
\* Steps after which some requests hold nothing any more.
<1>e. ASSUME UNCHANGED users, NEW gone \in SUBSET Slots,
             \A s \in gone : pc'[s] \notin Giving,
             \A s \in Slots \ gone : pc'[s] \in Giving <=> pc[s] \in Giving,
             \A s \in Slots \ gone : pc[s] \in Giving => UNCHANGED <<login[s], profile[s]>>
      PROVE  Goal
  <2>1. Given' = [c \in Slots |-> IF c \in gone THEN None ELSE Given[c]]
    BY <1>e DEF Given
  <2> QED
    BY <1>e, <2>1 DEF Storage!Next
\* A slot that is free again holds nothing.
<1>f. ASSUME UNCHANGED users, NEW s \in Slots, Finish(s) PROVE Goal
  <2>1. /\ pc'[s] \notin Giving
        /\ \A o \in Slots \ {s} : UNCHANGED <<pc[o], login[o], profile[o]>>
    BY <1>f, <1>t DEF Finish, TypeOK
  <2> QED
    BY <1>f, <2>1, <1>e, {s} \in SUBSET Slots
\* A request that is given the profile in its login's row.
<1>g. ASSUME UNCHANGED <<users, login>>, NEW s \in Slots,
             pc[s] \in {"lookup", "query"},
             login[s] \in Logins,
             users[login[s]] # None,
             \E label \in Giving : pc' = [pc EXCEPT ![s] = label],
             profile' = [profile EXCEPT ![s] = users[login[s]]]
      PROVE  Goal
  <2>1. Given' = [Given EXCEPT ![s] = <<login[s], users[login[s]]>>]
    BY <1>g, <1>t DEF Given, TypeOK
  <2> QED
    BY <1>g, <2>1 DEF Storage!Next, Storage!Give, Storage!GetUserByLogin
<1>1. ASSUME NEW s \in Slots, NEW l \in Logins, StartGet(s, l) PROVE Goal
  BY <1>1, <1>s, <1>t DEF StartGet, TypeOK
<1>2. ASSUME NEW s \in Slots, NEW l \in Logins, NEW p \in Profiles, StartPost(s, l, p)
      PROVE  Goal
  BY <1>2, <1>s, <1>t DEF StartPost, TypeOK
<1>3. ASSUME NEW s \in Slots, LookupHit(s) PROVE Goal
  <2>1. login[s] \in Logins /\ cache[login[s]] = users[login[s]]
    BY <1>3, <1>t DEF LookupHit, TypeOK, IInv, CachedProfileIsRow
  <2>2. users[login[s]] # None
    BY <1>3, <1>t, <2>1, NoneAssumption, MissAssumption
    DEF LookupHit, TypeOK, Redis!Hit
  <2> QED
    BY <1>3, <2>1, <2>2, <1>g DEF LookupHit
<1>4. ASSUME NEW s \in Slots, LookupMiss(s) \/ LookupFails(s) PROVE Goal
  BY <1>4, <1>s, <1>t DEF LookupMiss, LookupFails, TypeOK
<1>5. ASSUME NEW s \in Slots, QueryFound(s) PROVE Goal
  BY <1>5, <1>t, <1>g DEF QueryFound, TypeOK
<1>6. ASSUME NEW s \in Slots, QueryEmpty(s) \/ QueryFails(s) PROVE Goal
  BY <1>6, <1>s, <1>t DEF QueryEmpty, QueryFails, TypeOK
<1>7. ASSUME NEW s \in Slots,
             Fill(s) \/ FillLost(s) \/ Leave(s) \/ LateAbort(s) \/ Respond(s)
      PROVE  Goal
  BY <1>7, <1>f DEF Fill, FillLost, Leave, LateAbort, Respond
\* The row appears, and its writer holds it.
<1>8. ASSUME NEW s \in Slots, Insert(s) PROVE Goal
  <2>1. login[s] \in Logins /\ profile[s] \in Profiles
    BY <1>8, <1>t DEF Insert, TypeOK
  <2>2. Given' = [Given EXCEPT ![s] = <<login[s], profile[s]>>]
    BY <1>8, <1>t DEF Insert, Given, TypeOK
  <2> QED
    BY <1>8, <2>1, <2>2 DEF Insert, Commit, Storage!Next, Storage!AddUser, Storage!Give
<1>9. ASSUME NEW s \in Slots, InsertRefused(s) \/ InsertTimeout(s) PROVE Goal
  BY <1>9, <1>s, <1>t DEF InsertRefused, InsertTimeout, TypeOK
\* The row appears, and nobody is told.
<1>10. ASSUME NEW s \in Slots, LateCommit(s) PROVE Goal
  <2>1. login[s] \in Logins /\ profile[s] \in Profiles
    BY <1>10, <1>t DEF LateCommit, TypeOK
  <2>2. UNCHANGED Given
    BY <1>10, <1>t DEF LateCommit, Finish, Given, TypeOK
  <2> QED
    BY <1>10, <2>1, <2>2 DEF LateCommit, Commit, Storage!Next, Storage!AddUser
<1>11. ASSUME NEW s \in Slots, Invalidate(s) \/ InvalidateLost(s) PROVE Goal
  BY <1>11, <1>s, <1>t DEF Invalidate, InvalidateLost, TypeOK
<1>12. ASSUME NEW s \in Slots, Publish(s) \/ PublishFails(s) PROVE Goal
  BY <1>12, <1>s, <1>t DEF Publish, PublishFails, TypeOK
<1>13. ASSUME NEW l \in Logins, Expire(l) PROVE Goal
  BY <1>13, <1>s DEF Expire
<1>14. CASE Crash
  <2>1. PICK sent \in SUBSET {s \in Slots : pc[s] \in {"insert", "fill", "late"}} :
          /\ pc' = [s \in Slots |-> IF s \notin sent THEN "idle"
                                    ELSE IF pc[s] = "fill" THEN "fill" ELSE "late"]
          /\ login' = [s \in Slots |-> IF s \in sent THEN login[s] ELSE None]
          /\ profile' = [s \in Slots |-> IF s \in sent THEN profile[s] ELSE None]
    BY <1>14 DEF Crash
  <2>2. UNCHANGED users
    BY <1>14 DEF Crash
  <2>3. Slots \ sent \in SUBSET Slots
    OBVIOUS
  <2> QED
    BY <2>1, <2>2, <2>3, <1>e
<1>15. CASE UNCHANGED vars
  BY <1>15, <1>s DEF vars
<1> QED
  BY <1>1, <1>2, <1>3, <1>4, <1>5, <1>6, <1>7, <1>8, <1>9, <1>10, <1>11,
     <1>12, <1>13, <1>14, <1>15
  DEF Next, Serve, Lose

\* Registrations and reads are those of a map behind a mutex.
THEOREM Refinement == Spec => ImplementsStorage
<1>1. Init => Storage!Init
  BY DEF Init, Storage!Init, Given
<1> QED
  BY <1>1, StepRefines, Invariant, PTL DEF Spec, ImplementsStorage, Storage!Spec
=============================================================================
