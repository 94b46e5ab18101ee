---------------------------- MODULE TripsProofs ----------------------------
(* The safety of Trips for every set of trips, logins and slots and every     *)
(* number of faults.                                                          *)
(*                                                                            *)
(* Two arguments.  A create writes to an id that nobody else has (FreshIds),  *)
(* so it never overwrites a document that requests have joined.  A join       *)
(* publishes only after its own update modified the document; the login was   *)
(* not in it before, so no event of it was out and no other request publishes *)
(* one (SolePublisher), and it stays in it for ever.                          *)
EXTENDS Trips, TLAPS

\* What the library's ToSet and IsInjective say of an empty array.
LEMMA EmptyArray == ToSet(<<>>) = {} /\ IsInjective(<<>>)
  BY DEF ToSet, IsInjective

\* What they say of an array at the end of which a login is added.
LEMMA AppendedArray ==
  ASSUME NEW S, NEW q \in Seq(S), NEW e \in S
  PROVE  /\ Append(q, e) \in Seq(S)
         /\ ToSet(Append(q, e)) = ToSet(q) \cup {e}
         /\ IsInjective(q) /\ e \notin ToSet(q) => IsInjective(Append(q, e))
<1>1. /\ Append(q, e) \in Seq(S)
      /\ DOMAIN q = 1 .. Len(q)
      /\ DOMAIN Append(q, e) = 1 .. Len(q) + 1
      /\ \A i \in DOMAIN q : Append(q, e)[i] = q[i]
      /\ Append(q, e)[Len(q) + 1] = e
      /\ Len(q) \in Nat
  OBVIOUS
<1>2. DOMAIN Append(q, e) = DOMAIN q \cup {Len(q) + 1} /\ Len(q) + 1 \notin DOMAIN q
  BY <1>1
<1>3. ToSet(Append(q, e)) = ToSet(q) \cup {e}
  BY <1>1, <1>2 DEF ToSet
<1>4. IsInjective(q) /\ e \notin ToSet(q) => IsInjective(Append(q, e))
  BY <1>1, <1>2 DEF IsInjective, ToSet
<1> QED BY <1>1, <1>3, <1>4

\* The initial state satisfies the inductive invariant.
LEMMA InitInv == Init => IInv
<1> SUFFICES ASSUME Init PROVE IInv
  OBVIOUS
<1> USE DEF Init, At
<1>1. TypeOK
  BY MaxFaultsAssumption DEF TypeOK, PCs
<1>2. FreshIds /\ AskedByCreates /\ JoinsInHand /\ SolePublisher
  BY DEF FreshIds, AskedByCreates, JoinsInHand, SolePublisher, Creating
<1>3. NobodyTwice /\ OneJoinEvent
  BY EmptyArray DEF NobodyTwice, OneJoinEvent
<1>4. EventsAreFacts /\ ToldIsJoined /\ JoinIsAnnounced
  BY DEF EventsAreFacts, ToldIsJoined, JoinIsAnnounced, Joined, Exists
<1>5. FindersHaveTrip
  BY DEF FindersHaveTrip
<1> QED BY <1>1, <1>2, <1>3, <1>4, <1>5 DEF IInv

\* A create that writes its document has an id, a route, and a free id.
LEMMA StoreFacts ==
  ASSUME IInv, NEW s \in Slots, At(s, "insert") \/ At(s, "lateInsert")
  PROVE  trip[s] \in TripIds /\ asked[s] \in Routes /\ ~Exists(trip[s])
  BY DEF IInv, FreshIds, AskedByCreates, Creating, At

\* A join that is past its start has a trip and a login.
LEMMA JoinFacts ==
  ASSUME IInv, NEW s \in Slots,
         pc[s] \in {"find", "update", "publishJoined", "ok", "lateUpdate"}
  PROVE  trip[s] \in TripIds /\ login[s] \in Logins
  BY DEF IInv, AskedByCreates, JoinsInHand

\* What AddToSet does to the arrays.
LEMMA AddFacts ==
  ASSUME TypeOK, NobodyTwice, NEW t \in TripIds, NEW l \in Logins, AddToSet(t, l)
  PROVE  /\ Exists(t) /\ l \notin ToSet(participants[t])
         /\ participants' \in [TripIds -> Seq(Logins)]
         /\ \A u \in TripIds \ {t} : participants'[u] = participants[u]
         /\ ToSet(participants'[t]) = ToSet(participants[t]) \cup {l}
         /\ IsInjective(participants'[t])
<1>1. participants[t] \in Seq(Logins) /\ IsInjective(participants[t])
  BY DEF TypeOK, NobodyTwice
<1>2. Exists(t) /\ l \notin ToSet(participants[t])
  BY DEF AddToSet, Joined
<1>3. Append(participants[t], l) \in Seq(Logins)
  BY <1>1, AppendedArray
<1>4. /\ participants' \in [TripIds -> Seq(Logins)]
      /\ participants'[t] = Append(participants[t], l)
      /\ \A u \in TripIds \ {t} : participants'[u] = participants[u]
  BY <1>3 DEF AddToSet, TypeOK
<1> QED BY <1>1, <1>2, <1>4, AppendedArray

\* A request that ends leaves its slot typed.
LEMMA FinishType ==
  ASSUME TypeOK, NEW s \in Slots, Finish(s)
  PROVE  /\ pc' \in [Slots -> PCs]
         /\ asked' \in [Slots -> Routes \cup {Unknown, None}]
         /\ trip' \in [Slots -> TripIds \cup {None}]
         /\ login' \in [Slots -> Logins \cup {None}]
         /\ mustFind' \subseteq Slots
  BY DEF TypeOK, Finish, Forget, Goto, PCs

\* So does a 404.
LEMMA NotFoundType ==
  ASSUME TypeOK, NEW s \in Slots, NotFound(s)
  PROVE  /\ pc' \in [Slots -> PCs]
         /\ asked' \in [Slots -> Routes \cup {Unknown, None}]
         /\ trip' \in [Slots -> TripIds \cup {None}]
         /\ login' \in [Slots -> Logins \cup {None}]
  BY DEF TypeOK, NotFound, Forget, Goto, PCs

\* A change of label is typed.
LEMMA GotoType ==
  ASSUME TypeOK, NEW s \in Slots, NEW label \in PCs, Goto(s, label)
  PROVE  pc' \in [Slots -> PCs]
  BY DEF TypeOK, Goto

\* A fault stays within its bound.
LEMMA FaultType == TypeOK /\ Fault => faults' \in 0 .. MaxFaults
  BY MaxFaultsAssumption DEF TypeOK, Fault

\* No step breaks the type invariant.
LEMMA NextType == IInv /\ [Next]_vars => TypeOK'
<1> SUFFICES ASSUME IInv, [Next]_vars PROVE TypeOK'
  OBVIOUS
<1>0. TypeOK /\ NobodyTwice
  BY DEF IInv
<1> USE <1>0
<1>1. ASSUME NEW s \in Slots, NEW t \in TripIds,
             NEW r \in Routes \cup {Unknown}, StartCreate(s, r, t)
      PROVE  TypeOK'
  BY <1>1 DEF StartCreate, TypeOK, Goto, PCs
<1>2. ASSUME NEW s \in Slots, NEW t \in TripIds, NEW l \in Logins, StartJoin(s, t, l)
      PROVE  TypeOK'
  BY <1>2 DEF StartJoin, TypeOK, Goto, PCs
<1>3. ASSUME NEW s \in Slots,
             \/ FindRoute(s) \/ FindParticipant(s) \/ FindNobody(s) \/ UpdateMatches(s)
      PROVE  TypeOK'
  <2>1. pc' \in [Slots -> PCs]
    BY <1>3, GotoType DEF PCs, FindRoute, FindParticipant, FindNobody, UpdateMatches
  <2>2. UNCHANGED <<route, participants, created, joins, asked, trip, login, faults,
                    told, silent, known, mustFind>>
    BY <1>3 DEF FindRoute, FindParticipant, FindNobody, UpdateMatches
  <2> QED BY <2>1, <2>2 DEF TypeOK
<1>4. ASSUME NEW s \in Slots, LateNothing(s) \/ View(s) \/ Leave(s) PROVE TypeOK'
  <2>1. UNCHANGED <<route, participants, created, joins, faults, told, silent, known>>
    BY <1>4 DEF LateNothing, View, Leave
  <2>2. Finish(s)
    BY <1>4 DEF LateNothing, View, Leave
  <2> QED BY <2>1, <2>2, FinishType DEF TypeOK
<1>5. ASSUME NEW s \in Slots, FindFails(s) PROVE TypeOK'
  BY <1>5, FinishType, FaultType DEF FindFails, TypeOK
<1>6. ASSUME NEW s \in Slots, InsertFails(s) \/ UpdateFails(s) PROVE TypeOK'
  <2>1. UNCHANGED <<route, participants, created, joins, asked, trip, login, told,
                    silent, known, mustFind>>
    BY <1>6 DEF InsertFails, UpdateFails
  <2>2. pc' \in [Slots -> PCs] /\ Fault
    BY <1>6, GotoType DEF PCs, InsertFails, UpdateFails
  <2> QED BY <2>1, <2>2, FaultType DEF TypeOK
<1>7. ASSUME NEW s \in Slots, Insert(s) \/ LateInsert(s) PROVE TypeOK'
  <2>1. Store(s) /\ trip[s] \in TripIds /\ asked[s] \in Routes
    BY <1>7, StoreFacts DEF Insert, LateInsert
  <2>2. /\ route' \in [TripIds -> Routes \cup {None}]
        /\ participants' \in [TripIds -> Seq(Logins)]
    BY <2>1 DEF Store, TypeOK
  <2>3. CASE Insert(s)
    BY <2>2, <2>3 DEF Insert, Goto, TypeOK, PCs
  <2>4. CASE LateInsert(s)
    BY <2>2, <2>4, FinishType DEF LateInsert, TypeOK
  <2> QED BY <1>7, <2>3, <2>4
<1>8. ASSUME NEW s \in Slots, PublishCreated(s) \/ PublishCreatedFails(s)
      PROVE  TypeOK'
  <2>1. trip[s] \in TripIds
    BY <1>8 DEF IInv, AskedByCreates, PublishCreated, PublishCreatedFails, At
  <2>2. created' \subseteq TripIds /\ faults' \in 0 .. MaxFaults /\ Finish(s)
    BY <1>8, <2>1, FaultType DEF PublishCreated, PublishCreatedFails, TypeOK
  <2>3. UNCHANGED <<route, participants, joins, told, silent>>
    BY <1>8 DEF PublishCreated, PublishCreatedFails
  <2>4. known' \subseteq TripIds
    BY <1>8, <2>1 DEF PublishCreated, PublishCreatedFails, TypeOK
  <2> QED BY <2>2, <2>3, <2>4, FinishType DEF TypeOK
<1>9. ASSUME NEW s \in Slots, UpdateModifies(s) \/ LateUpdate(s) PROVE TypeOK'
  <2>1. trip[s] \in TripIds /\ login[s] \in Logins /\ AddToSet(trip[s], login[s])
    BY <1>9, JoinFacts DEF UpdateModifies, LateUpdate, At
  <2>2. participants' \in [TripIds -> Seq(Logins)]
    BY <2>1, AddFacts
  <2>3. CASE UpdateModifies(s)
    BY <2>2, <2>3 DEF UpdateModifies, Goto, TypeOK, PCs
  <2>4. CASE LateUpdate(s)
    <3>1. silent' \subseteq Pairs
      BY <2>1, <2>4 DEF LateUpdate, Silenced, TypeOK, Pairs
    <3>2. UNCHANGED <<route, created, joins, faults, told, known>> /\ Finish(s)
      BY <2>4 DEF LateUpdate
    <3> QED BY <2>2, <3>1, <3>2, FinishType DEF TypeOK
  <2> QED BY <1>9, <2>3, <2>4
<1>10. ASSUME NEW s \in Slots, PublishJoined(s) \/ PublishJoinedFails(s) PROVE TypeOK'
  <2>1. trip[s] \in TripIds /\ login[s] \in Logins
    BY <1>10, JoinFacts DEF PublishJoined, PublishJoinedFails, At
  <2>2. \A sent \in 0 .. 1 :
          [joins EXCEPT ![trip[s]][login[s]] = @ + sent] \in [TripIds -> [Logins -> Nat]]
    BY <2>1 DEF TypeOK
  <2>3. joins' \in [TripIds -> [Logins -> Nat]]
    <3>1. CASE PublishJoined(s)
      BY <2>2, <3>1 DEF PublishJoined
    <3>2. CASE PublishJoinedFails(s)
      BY <2>2, <3>2 DEF PublishJoinedFails
    <3> QED BY <1>10, <3>1, <3>2
  <2>4. silent' \subseteq Pairs /\ faults' \in 0 .. MaxFaults
    <3>1. CASE PublishJoined(s)
      BY <3>1 DEF PublishJoined, TypeOK
    <3>2. CASE PublishJoinedFails(s)
      <4>1. Silenced(s) /\ Fault
        BY <3>2 DEF PublishJoinedFails
      <4>2. silent' \subseteq Pairs
        BY <2>1, <4>1 DEF Silenced, TypeOK, Pairs
      <4> QED BY <4>1, <4>2, FaultType
    <3> QED BY <1>10, <3>1, <3>2
  <2>5. UNCHANGED <<route, participants, created, asked, trip, login, told, known, mustFind>>
    BY <1>10 DEF PublishJoined, PublishJoinedFails
  <2>6. pc' \in [Slots -> PCs]
    BY <1>10, GotoType DEF PublishJoined, PublishJoinedFails, PCs
  <2> QED BY <2>3, <2>4, <2>5, <2>6 DEF TypeOK
<1>11. ASSUME NEW s \in Slots, Ok(s) PROVE TypeOK'
  <2>1. told' \subseteq Pairs
    BY <1>11, JoinFacts DEF Ok, At, TypeOK, Pairs
  <2> QED BY <1>11, <2>1, FinishType DEF Ok, TypeOK
<1>12. CASE Crash
  <2>1. \A s \in Slots : At(s, "publishJoined") => <<trip[s], login[s]>> \in Pairs
    BY JoinFacts DEF At, Pairs
  <2>2. silent' \subseteq Pairs
    BY <1>12, <2>1 DEF Crash, TypeOK
  <2> QED BY <1>12, <2>2, FaultType DEF Crash, TypeOK, PCs
<1>13. CASE UNCHANGED vars
  BY <1>13 DEF vars, TypeOK
<1>14. ASSUME NEW s \in Slots, RouteNotFound(s) \/ TripNotFound(s) \/ ViewNothing(s)
       PROVE  TypeOK'
  <2>1. UNCHANGED <<route, participants, created, joins, faults, told, silent, known,
                    mustFind>>
    BY <1>14 DEF RouteNotFound, TripNotFound, ViewNothing
  <2>2. NotFound(s)
    BY <1>14 DEF RouteNotFound, TripNotFound, ViewNothing
  <2> QED BY <2>1, <2>2, NotFoundType DEF TypeOK
<1>15. ASSUME NEW s \in Slots, FindRouteFails(s) \/ ViewFails(s) PROVE TypeOK'
  <2>1. UNCHANGED <<route, participants, created, joins, told, silent, known>>
    BY <1>15 DEF FindRouteFails, ViewFails
  <2>2. NotFound(s) /\ Fault /\ mustFind' = mustFind \ {s}
    BY <1>15 DEF FindRouteFails, ViewFails
  <2> QED BY <2>1, <2>2, NotFoundType, FaultType DEF TypeOK
<1>16. ASSUME NEW s \in Slots, NEW t \in TripIds, StartView(s, t) PROVE TypeOK'
  BY <1>16 DEF StartView, TypeOK, Goto, PCs
<1> QED
  BY <1>1, <1>2, <1>3, <1>4, <1>5, <1>6, <1>7, <1>8, <1>9, <1>10, <1>11, <1>12, <1>13,
     <1>14, <1>15, <1>16
  DEF Next, Create, Join, Look

\* Every id that a create holds is new and its own.
LEMMA NextFresh == IInv /\ [Next]_vars => (FreshIds /\ AskedByCreates)'
<1> SUFFICES ASSUME IInv, [Next]_vars PROVE (FreshIds /\ AskedByCreates)'
  OBVIOUS
<1> DEFINE Goal == (FreshIds /\ AskedByCreates)'
<1>0. /\ TypeOK /\ FreshIds /\ AskedByCreates
  BY DEF IInv
<1> USE <1>0, NoneAssumption, UnknownAssumption
    DEF FreshIds, AskedByCreates, Creating, Exists, At, Goto
<1>1. ASSUME NEW s \in Slots, NEW t \in TripIds,
             NEW r \in Routes \cup {Unknown}, StartCreate(s, r, t)
      PROVE  Goal
  BY <1>1 DEF StartCreate, TypeOK
<1>2. ASSUME NEW s \in Slots, NEW t \in TripIds, NEW l \in Logins, StartJoin(s, t, l)
      PROVE  Goal
  BY <1>2 DEF StartJoin, TypeOK
<1>3. ASSUME NEW s \in Slots, FindRoute(s) PROVE Goal
  BY <1>3 DEF FindRoute, TypeOK
<1>4. ASSUME NEW s \in Slots, InsertFails(s) PROVE Goal
  BY <1>4 DEF InsertFails, TypeOK
<1>5. ASSUME NEW s \in Slots, Finish(s) \/ NotFound(s), UNCHANGED route PROVE Goal
  <2>1. /\ pc'[s] \in {"idle", "notFound"} /\ asked'[s] = None
        /\ \A x \in Slots \ {s} : UNCHANGED <<pc[x], asked[x], trip[x]>>
    BY <1>5 DEF Finish, NotFound, Forget, TypeOK
  <2>2. FreshIds'
    BY <1>5, <2>1
  <2>3. AskedByCreates'
    BY <1>5, <2>1
  <2> QED BY <2>2, <2>3
<1>6. ASSUME NEW s \in Slots, Insert(s) PROVE Goal
  BY <1>6 DEF Insert, Store, TypeOK
<1>7. ASSUME NEW s \in Slots, LateInsert(s) PROVE Goal
  BY <1>7 DEF LateInsert, Store, Finish, Forget, TypeOK
<1>8. ASSUME NEW s \in Slots, NEW label \in {"update", "ok", "publishJoined", "lateUpdate"},
             pc[s] \in {"find", "update", "publishJoined"}, Goto(s, label),
             UNCHANGED <<route, asked, trip>>
      PROVE  Goal
  BY <1>8 DEF TypeOK
<1>9. CASE Crash
  <2>1. PICK sent \in SUBSET {s \in Slots : pc[s] \in {"insert", "update",
                                                     "lateInsert", "lateUpdate"}} :
          /\ pc' = [s \in Slots |->
                      IF s \notin sent THEN "idle"
                      ELSE IF pc[s] \in {"insert", "lateInsert"} THEN "lateInsert"
                      ELSE "lateUpdate"]
          /\ asked' = [s \in Slots |-> IF s \in sent THEN asked[s] ELSE None]
          /\ trip' = [s \in Slots |-> IF s \in sent THEN trip[s] ELSE None]
    BY <1>9 DEF Crash
  <2>2. UNCHANGED route
    BY <1>9 DEF Crash
  <2>3. \A s \in Slots \ sent : pc'[s] = "idle" /\ asked'[s] = None
    BY <2>1
  <2>4. \A s \in sent :
          /\ pc[s] # "idle" /\ asked'[s] = asked[s] /\ trip'[s] = trip[s]
          /\ \/ pc[s] \in {"insert", "lateInsert"} /\ pc'[s] = "lateInsert"
             \/ pc[s] \in {"update", "lateUpdate"} /\ pc'[s] = "lateUpdate"
    BY <2>1
  <2>5. FreshIds'
    BY <2>2, <2>3, <2>4
  <2>6. AskedByCreates'
    BY <2>2, <2>3, <2>4
  <2> QED BY <2>5, <2>6
<1>10. CASE UNCHANGED vars
  BY <1>10 DEF vars
<1>11. ASSUME NEW s \in Slots, Create(s) PROVE Goal
  <2>1. CASE RouteNotFound(s) \/ FindRouteFails(s) \/ PublishCreated(s)
               \/ PublishCreatedFails(s)
    <3>1. (Finish(s) \/ NotFound(s)) /\ UNCHANGED route
      BY <2>1 DEF RouteNotFound, FindRouteFails, PublishCreated, PublishCreatedFails
    <3> QED BY <1>5, <3>1
  <2> QED BY <1>3, <1>4, <1>6, <1>7, <1>11, <2>1 DEF Create
<1>12. ASSUME NEW s \in Slots, Join(s) PROVE Goal
  <2>1. CASE FindParticipant(s) \/ FindNobody(s) \/ UpdateModifies(s)
               \/ UpdateMatches(s) \/ UpdateFails(s) \/ PublishJoined(s)
               \/ PublishJoinedFails(s)
    <3>1. \E label \in {"update", "ok", "publishJoined", "lateUpdate"} :
            Goto(s, label) /\ UNCHANGED <<route, asked, trip>>
      BY <2>1
      DEF FindParticipant, FindNobody, UpdateModifies, UpdateMatches, UpdateFails,
          PublishJoined, PublishJoinedFails
    <3>2. pc[s] \in {"find", "update", "publishJoined"}
      BY <2>1
      DEF FindParticipant, FindNobody, UpdateModifies, UpdateMatches, UpdateFails,
          PublishJoined, PublishJoinedFails
    <3> QED BY <3>1, <3>2, <1>8
  <2>2. CASE FindFails(s) \/ TripNotFound(s) \/ LateUpdate(s) \/ LateNothing(s) \/ Ok(s)
    BY <1>5, <2>2 DEF FindFails, TripNotFound, LateUpdate, LateNothing, Ok
  <2> QED BY <1>12, <2>1, <2>2 DEF Join
<1>13. ASSUME NEW s \in Slots, Look(s) \/ Leave(s) PROVE Goal
  BY <1>5, <1>13 DEF Look, View, ViewNothing, ViewFails, Leave
<1>14. ASSUME NEW s \in Slots, NEW t \in TripIds, StartView(s, t) PROVE Goal
  BY <1>14 DEF StartView, TypeOK
<1> QED BY <1>1, <1>2, <1>9, <1>10, <1>11, <1>12, <1>13, <1>14 DEF Next

\* What AddToSet does to the participants of all trips.
LEMMA JoinedFacts ==
  ASSUME IInv, NEW t \in TripIds, NEW l \in Logins, AddToSet(t, l), UNCHANGED route
  PROVE  /\ NobodyTwice'
         /\ ~Joined(t, l)
         /\ \A u \in TripIds, k \in Logins :
              Joined(u, k)' <=> Joined(u, k) \/ (u = t /\ k = l)
<1>1. TypeOK /\ NobodyTwice
  BY DEF IInv
<1>2. /\ Exists(t) /\ l \notin ToSet(participants[t])
      /\ \A u \in TripIds \ {t} : participants'[u] = participants[u]
      /\ ToSet(participants'[t]) = ToSet(participants[t]) \cup {l}
      /\ IsInjective(participants'[t])
  BY <1>1, AddFacts
<1>3. NobodyTwice'
  BY <1>1, <1>2 DEF NobodyTwice
<1>4. ~Joined(t, l)
  BY <1>2 DEF Joined
<1>5. ASSUME NEW u \in TripIds, NEW k \in Logins
      PROVE  Joined(u, k)' <=> Joined(u, k) \/ (u = t /\ k = l)
  <2>1. CASE u = t
    BY <1>2, <2>1 DEF Joined, Exists
  <2>2. CASE u # t
    BY <1>2, <2>2 DEF Joined, Exists
  <2> QED BY <2>1, <2>2
<1> QED BY <1>3, <1>4, <1>5

\* The participants and events after a step that adds a login: of a request
\* that goes on to publish, or of one that was given up.
LEMMA AddKeepsStep ==
  ASSUME IInv, NEW s \in Slots, UpdateModifies(s) \/ LateUpdate(s)
  PROVE  (/\ JoinsInHand /\ SolePublisher /\ NobodyTwice /\ OneJoinEvent
          /\ EventsAreFacts /\ ToldIsJoined /\ JoinIsAnnounced)'
<1>1. /\ TypeOK /\ JoinsInHand /\ SolePublisher /\ NobodyTwice
      /\ OneJoinEvent /\ EventsAreFacts /\ ToldIsJoined /\ JoinIsAnnounced
  BY DEF IInv
<1> DEFINE t == trip[s]
           l == login[s]
<1>2. /\ t \in TripIds /\ l \in Logins /\ AddToSet(t, l)
      /\ UNCHANGED <<route, created, joins, told>>
  BY JoinFacts DEF UpdateModifies, LateUpdate, At
<1>3. /\ NobodyTwice'
      /\ ~Joined(t, l)
      /\ \A u \in TripIds, k \in Logins :
           Joined(u, k)' <=> Joined(u, k) \/ (u = t /\ k = l)
  BY <1>2, JoinedFacts
<1>4. joins[t][l] = 0
  BY <1>1, <1>2, <1>3 DEF EventsAreFacts, TypeOK
<1>5. \A x \in Slots : At(x, "publishJoined") => <<trip[x], login[x]>> # <<t, l>>
  BY <1>1, <1>3 DEF JoinsInHand, At
<1>6. \A x \in Slots : pc[x] \in {"find", "update", "publishJoined", "ok", "lateUpdate"} =>
        trip[x] \in TripIds /\ login[x] \in Logins
  BY JoinFacts
<1>7. (OneJoinEvent /\ EventsAreFacts /\ ToldIsJoined)'
  BY <1>1, <1>2, <1>3
  DEF OneJoinEvent, EventsAreFacts, ToldIsJoined, TypeOK, Pairs, Joined, Exists
<1>8. CASE UpdateModifies(s)
  <2>1. pc'[s] = "publishJoined" /\ \A x \in Slots \ {s} : pc'[x] = pc[x]
    BY <1>1, <1>8 DEF UpdateModifies, Goto, TypeOK
  <2>2. \A x \in Slots \ {s} : trip'[x] = trip[x] /\ login'[x] = login[x]
    BY <1>1, <1>8 DEF UpdateModifies, TypeOK
  <2>3. trip'[s] = t /\ login'[s] = l /\ silent' = silent
    BY <1>8 DEF UpdateModifies
  <2>4. SolePublisher'
    BY <1>1, <1>2, <1>4, <1>5, <2>1, <2>2, <2>3 DEF SolePublisher, At
  <2>5. JoinsInHand'
    <3>1. \A x \in Slots \ {s} : pc[x] \in {"publishJoined", "ok"} =>
            Joined(trip[x], login[x])'
      BY <1>1, <1>2, <1>3, <1>6, <2>2 DEF JoinsInHand, Joined, Exists
    <3>2. Joined(trip[s], login[s])'
      BY <1>2, <1>3, <2>3 DEF Joined, Exists
    <3> QED BY <1>1, <1>2, <1>6, <2>1, <2>2, <2>3, <3>1, <3>2 DEF JoinsInHand
  <2>6. ASSUME NEW u \in TripIds, NEW k \in Logins,
               Joined(u, k)', <<u, k>> \notin silent', joins'[u][k] = 0
        PROVE  \E x \in Slots : pc'[x] = "publishJoined" /\ trip'[x] = u /\ login'[x] = k
    <3>1. CASE u = t /\ k = l
      BY <2>1, <2>3, <3>1
    <3>2. CASE ~(u = t /\ k = l)
      <4>1. Joined(u, k) /\ <<u, k>> \notin silent /\ joins[u][k] = 0
        BY <1>2, <1>3, <2>3, <2>6, <3>2
      <4>2. PICK x \in Slots : pc[x] = "publishJoined" /\ trip[x] = u /\ login[x] = k
        BY <1>1, <4>1 DEF JoinIsAnnounced, At
      <4>3. x # s
        BY <1>8, <4>2 DEF UpdateModifies, At
      <4> QED BY <2>1, <2>2, <4>2, <4>3
    <3> QED BY <3>1, <3>2
  <2>7. JoinIsAnnounced'
    <3>1. \A u \in TripIds, k \in Logins : joins'[u][k] \in Nat
      BY <1>1, <1>2 DEF TypeOK
    <3>2. ASSUME NEW u \in TripIds, NEW k \in Logins,
                 Joined(u, k)', <<u, k>> \notin silent'
          PROVE  \/ joins'[u][k] > 0
                 \/ \E x \in Slots : pc'[x] = "publishJoined" /\ trip'[x] = u
                                                               /\ login'[x] = k
      BY <2>6, <3>1, <3>2
    <3> QED BY <3>2 DEF JoinIsAnnounced, At
  <2> QED BY <1>3, <1>7, <2>4, <2>5, <2>7
<1>9. CASE LateUpdate(s)
  <2>1. pc'[s] = "idle" /\ \A x \in Slots \ {s} : pc'[x] = pc[x]
    BY <1>1, <1>9 DEF LateUpdate, Goto, TypeOK, Finish, Forget
  <2>2. \A x \in Slots \ {s} : trip'[x] = trip[x] /\ login'[x] = login[x]
    BY <1>1, <1>9 DEF LateUpdate, TypeOK, Finish, Forget
  <2>3. silent' = silent \cup {<<t, l>>}
    BY <1>9 DEF LateUpdate, Silenced
  <2>4. SolePublisher'
    BY <1>1, <1>2, <1>4, <1>5, <2>1, <2>2, <2>3 DEF SolePublisher, At
  <2>5. JoinsInHand'
    <3>1. \A x \in Slots \ {s} : pc[x] \in {"publishJoined", "ok"} =>
            Joined(trip[x], login[x])'
      BY <1>1, <1>2, <1>3, <1>6, <2>2 DEF JoinsInHand, Joined, Exists
    <3> QED BY <1>1, <1>6, <2>1, <2>2, <3>1 DEF JoinsInHand
  <2>6. ASSUME NEW u \in TripIds, NEW k \in Logins,
               Joined(u, k)', <<u, k>> \notin silent', joins'[u][k] = 0
        PROVE  \E x \in Slots : pc'[x] = "publishJoined" /\ trip'[x] = u /\ login'[x] = k
    <3>1. CASE u = t /\ k = l
      BY <2>3, <2>6, <3>1
    <3>2. CASE ~(u = t /\ k = l)
      <4>1. Joined(u, k) /\ <<u, k>> \notin silent /\ joins[u][k] = 0
        BY <1>2, <1>3, <2>3, <2>6, <3>2
      <4>2. PICK x \in Slots : pc[x] = "publishJoined" /\ trip[x] = u /\ login[x] = k
        BY <1>1, <4>1 DEF JoinIsAnnounced, At
      <4>3. x # s
        BY <1>9, <4>2 DEF LateUpdate, At
      <4> QED BY <2>1, <2>2, <4>2, <4>3
    <3> QED BY <3>1, <3>2
  <2>7. JoinIsAnnounced'
    <3>1. \A u \in TripIds, k \in Logins : joins'[u][k] \in Nat
      BY <1>1, <1>2 DEF TypeOK
    <3>2. ASSUME NEW u \in TripIds, NEW k \in Logins,
                 Joined(u, k)', <<u, k>> \notin silent'
          PROVE  \/ joins'[u][k] > 0
                 \/ \E x \in Slots : pc'[x] = "publishJoined" /\ trip'[x] = u
                                                               /\ login'[x] = k
      BY <2>6, <3>1, <3>2
    <3> QED BY <3>2 DEF JoinIsAnnounced, At
  <2> QED BY <1>3, <1>7, <2>4, <2>5, <2>7
<1> QED BY <1>8, <1>9

\* Participants and events stay in step.
LEMMA NextJoined ==
  IInv /\ [Next]_vars
    => (/\ JoinsInHand /\ SolePublisher /\ NobodyTwice /\ OneJoinEvent
        /\ EventsAreFacts /\ ToldIsJoined /\ JoinIsAnnounced)'
<1> DEFINE Goal == (/\ JoinsInHand /\ SolePublisher /\ NobodyTwice /\ OneJoinEvent
                    /\ EventsAreFacts /\ ToldIsJoined /\ JoinIsAnnounced)'
<1> SUFFICES ASSUME IInv, [Next]_vars PROVE Goal
  OBVIOUS
<1>0. /\ TypeOK /\ AskedByCreates /\ JoinsInHand /\ SolePublisher /\ NobodyTwice
      /\ OneJoinEvent /\ EventsAreFacts /\ ToldIsJoined /\ JoinIsAnnounced
  BY DEF IInv
<1> USE <1>0, NoneAssumption
    DEF TypeOK, JoinsInHand, SolePublisher, NobodyTwice, OneJoinEvent, EventsAreFacts,
        ToldIsJoined, JoinIsAnnounced, Joined, Exists, At, Goto, Pairs
<1>1. ASSUME NEW s \in Slots, NEW t \in TripIds,
             NEW r \in Routes \cup {Unknown}, StartCreate(s, r, t)
      PROVE  Goal
  BY <1>1 DEF StartCreate
<1>2. ASSUME NEW s \in Slots, NEW t \in TripIds, NEW l \in Logins, StartJoin(s, t, l)
      PROVE  Goal
  BY <1>2 DEF StartJoin
<1>3. ASSUME NEW s \in Slots, FindRoute(s) PROVE Goal
  BY <1>3 DEF FindRoute
<1>4. ASSUME NEW s \in Slots, RouteNotFound(s) PROVE Goal
  BY <1>4 DEF RouteNotFound, NotFound, Forget
<1>5. ASSUME NEW s \in Slots, FindRouteFails(s) PROVE Goal
  BY <1>5 DEF FindRouteFails, NotFound, Forget
<1>6. ASSUME NEW s \in Slots, Insert(s) \/ LateInsert(s) PROVE Goal
  <2>1. /\ trip[s] \in TripIds /\ asked[s] \in Routes /\ route[trip[s]] = None /\ Store(s)
    BY <1>6, StoreFacts DEF Insert, LateInsert
  <2>2. CASE Insert(s)
    BY <2>1, <2>2, EmptyArray DEF Insert, Store
  <2>3. CASE LateInsert(s)
    BY <2>1, <2>3, EmptyArray DEF LateInsert, Store, Finish, Forget
  <2> QED BY <1>6, <2>2, <2>3
<1>7. ASSUME NEW s \in Slots, InsertFails(s) PROVE Goal
  BY <1>7 DEF InsertFails
<1>8. ASSUME NEW s \in Slots, PublishCreated(s) \/ PublishCreatedFails(s) PROVE Goal
  <2>1. trip[s] \in TripIds /\ route[trip[s]] # None
    BY <1>8 DEF AskedByCreates, PublishCreated, PublishCreatedFails
  <2>2. CASE PublishCreated(s)
    BY <2>1, <2>2 DEF PublishCreated, Finish, Forget
  <2>3. CASE PublishCreatedFails(s)
    BY <2>1, <2>3 DEF PublishCreatedFails, Finish, Forget
  <2> QED BY <1>8, <2>2, <2>3
<1>9. ASSUME NEW s \in Slots, FindParticipant(s) PROVE Goal
  BY <1>9 DEF FindParticipant
<1>10. ASSUME NEW s \in Slots, FindNobody(s) PROVE Goal
  BY <1>10 DEF FindNobody
<1>11. ASSUME NEW s \in Slots, FindFails(s) PROVE Goal
  BY <1>11 DEF FindFails, Finish, Forget
<1>12. ASSUME NEW s \in Slots, UpdateModifies(s) PROVE Goal
  BY <1>12, AddKeepsStep
<1>13. ASSUME NEW s \in Slots, UpdateMatches(s) PROVE Goal
  BY <1>13 DEF UpdateMatches
<1>14. ASSUME NEW s \in Slots, TripNotFound(s) PROVE Goal
  BY <1>14 DEF TripNotFound, NotFound, Forget
<1>15. ASSUME NEW s \in Slots, UpdateFails(s) PROVE Goal
  BY <1>15 DEF UpdateFails
<1>16. ASSUME NEW s \in Slots, LateUpdate(s) PROVE Goal
  BY <1>16, AddKeepsStep
<1>17. ASSUME NEW s \in Slots, LateNothing(s) PROVE Goal
  BY <1>17 DEF LateNothing, Finish, Forget
<1>18. ASSUME NEW s \in Slots, PublishJoined(s) PROVE Goal
  <2>1. trip[s] \in TripIds /\ login[s] \in Logins
    BY <1>18, JoinFacts DEF PublishJoined
  <2> QED BY <1>18, <2>1 DEF PublishJoined
<1>19. ASSUME NEW s \in Slots, PublishJoinedFails(s) PROVE Goal
  <2>1. trip[s] \in TripIds /\ login[s] \in Logins
    BY <1>19, JoinFacts DEF PublishJoinedFails
  <2> QED BY <1>19, <2>1 DEF PublishJoinedFails, Silenced
<1>20. ASSUME NEW s \in Slots, Ok(s) PROVE Goal
  BY <1>20, JoinFacts DEF Ok, Finish, Forget
<1>21. CASE Crash
  BY <1>21 DEF Crash
<1>22. CASE UNCHANGED vars
  BY <1>22 DEF vars
<1>23. ASSUME NEW s \in Slots, NEW t \in TripIds, StartView(s, t) PROVE Goal
  BY <1>23 DEF StartView
<1>24. ASSUME NEW s \in Slots, View(s) \/ Leave(s) PROVE Goal
  <2>1. CASE View(s)
    BY <2>1 DEF View, Finish, Forget
  <2>2. CASE Leave(s)
    BY <2>2 DEF Leave, Finish, Forget
  <2> QED BY <1>24, <2>1, <2>2
<1>25. ASSUME NEW s \in Slots, ViewNothing(s) \/ ViewFails(s) PROVE Goal
  <2>1. CASE ViewNothing(s)
    BY <2>1 DEF ViewNothing, NotFound, Forget
  <2>2. CASE ViewFails(s)
    BY <2>2 DEF ViewFails, NotFound, Forget
  <2> QED BY <1>25, <2>1, <2>2
<1> QED
  BY <1>1, <1>2, <1>3, <1>4, <1>5, <1>6, <1>7, <1>8, <1>9, <1>10, <1>11, <1>12,
     <1>13, <1>14, <1>15, <1>16, <1>17, <1>18, <1>19, <1>20, <1>21, <1>22, <1>23,
     <1>24, <1>25
  DEF Next, Create, Join, Look

\* A document is never removed, so what could be found can be found later.
LEMMA NextFinders == IInv /\ [Next]_vars => FindersHaveTrip'
<1> SUFFICES ASSUME IInv, [Next]_vars PROVE FindersHaveTrip'
  OBVIOUS
<1>0. TypeOK /\ AskedByCreates /\ FindersHaveTrip
  BY DEF IInv
<1> USE <1>0 DEF TypeOK, AskedByCreates, FindersHaveTrip, Exists, At, Goto
\* A request ends, with a reply or a 404 that is not its own to avoid.
<1>1. ASSUME NEW s \in Slots, Finish(s), UNCHANGED <<route, known>>
      PROVE  FindersHaveTrip'
  BY <1>1 DEF Finish, Forget
<1>2. ASSUME NEW s \in Slots, NotFound(s), UNCHANGED <<route, known>>,
             mustFind' \subseteq mustFind \ {s}
      PROVE  FindersHaveTrip'
  BY <1>2 DEF NotFound, Forget
\* A request gets past its look-up.
<1>3. ASSUME NEW s \in Slots, NEW label \in PCs \ {"idle", "notFound", "findRoute"},
             Goto(s, label), UNCHANGED <<route, known, mustFind, asked, trip>>,
             label \in {"find", "update", "view"} => pc[s] \in {"find", "update", "view"}
      PROVE  FindersHaveTrip'
  BY <1>3
<1>4. ASSUME NEW s \in Slots, NEW t \in TripIds,
             \/ \E r \in Routes \cup {Unknown} : StartCreate(s, r, t)
             \/ \E l \in Logins : StartJoin(s, t, l)
             \/ StartView(s, t)
      PROVE  FindersHaveTrip'
  BY <1>4 DEF StartCreate, StartJoin, StartView
<1>5. ASSUME NEW s \in Slots, FindRoute(s) \/ InsertFails(s) PROVE FindersHaveTrip'
  BY <1>5, <1>3 DEF FindRoute, InsertFails, PCs
<1>6. ASSUME NEW s \in Slots, RouteNotFound(s) PROVE FindersHaveTrip'
  BY <1>6, <1>2 DEF RouteNotFound
<1>7. ASSUME NEW s \in Slots, FindRouteFails(s) \/ ViewFails(s) PROVE FindersHaveTrip'
  BY <1>7, <1>2 DEF FindRouteFails, ViewFails
<1>8. ASSUME NEW s \in Slots, Insert(s) \/ LateInsert(s) PROVE FindersHaveTrip'
  <2>1. /\ trip[s] \in TripIds /\ asked[s] \in Routes /\ Store(s)
    BY <1>8, StoreFacts DEF Insert, LateInsert
  <2>2. \A t \in TripIds : route[t] # None => route'[t] # None
    BY <2>1, NoneAssumption DEF Store
  <2>3. CASE Insert(s)
    BY <2>2, <2>3 DEF Insert
  <2>4. CASE LateInsert(s)
    BY <2>2, <2>4 DEF LateInsert, Finish, Forget
  <2> QED BY <1>8, <2>3, <2>4
<1>9. ASSUME NEW s \in Slots, PublishCreated(s) \/ PublishCreatedFails(s)
      PROVE  FindersHaveTrip'
  BY <1>9 DEF PublishCreated, PublishCreatedFails, Finish, Forget
<1>10. ASSUME NEW s \in Slots,
              \/ FindParticipant(s) \/ FindNobody(s) \/ UpdateModifies(s)
              \/ UpdateMatches(s) \/ UpdateFails(s)
              \/ PublishJoined(s) \/ PublishJoinedFails(s)
       PROVE  FindersHaveTrip'
  BY <1>10, <1>3
  DEF FindParticipant, FindNobody, UpdateModifies, UpdateMatches, UpdateFails,
      PublishJoined, PublishJoinedFails, PCs
<1>11. ASSUME NEW s \in Slots,
              \/ FindFails(s) \/ LateUpdate(s) \/ LateNothing(s) \/ Ok(s)
              \/ View(s) \/ Leave(s)
       PROVE  FindersHaveTrip'
  BY <1>11, <1>1 DEF FindFails, LateUpdate, LateNothing, Ok, View, Leave
<1>12. ASSUME NEW s \in Slots, TripNotFound(s) \/ ViewNothing(s) PROVE FindersHaveTrip'
  BY <1>12, <1>2 DEF TripNotFound, ViewNothing
<1>13. CASE Crash
  BY <1>13 DEF Crash
<1>14. CASE UNCHANGED vars
  BY <1>14 DEF vars
<1> QED
  BY <1>4, <1>5, <1>6, <1>7, <1>8, <1>9, <1>10, <1>11, <1>12, <1>13, <1>14
  DEF Next, Create, Join, Look

\* The inductive invariant holds in every reachable state.
THEOREM Invariant == Spec => []IInv
<1>1. IInv /\ [Next]_vars => IInv'
  BY NextType, NextFresh, NextJoined, NextFinders DEF IInv
<1> QED BY InitInv, <1>1, PTL DEF Spec

\* Every reachable state is well typed.
THEOREM TypeCorrect == Spec => []TypeOK
<1>1. IInv => TypeOK
  BY DEF IInv
<1> QED BY Invariant, <1>1, PTL

\* JoinTrip's find and update (storage_mongo.cpp:217-227) never put a login
\* into one trip twice.
THEOREM NobodyTwiceHolds == Spec => []NobodyTwice
<1>1. IInv => NobodyTwice
  BY DEF IInv
<1> QED BY Invariant, <1>1, PTL

\* However many requests join one login to one trip, one event tells of it.
THEOREM OneJoinEventHolds == Spec => []OneJoinEvent
<1>1. IInv => OneJoinEvent
  BY DEF IInv
<1> QED BY Invariant, <1>1, PTL

\* No event tells of a trip or a participant that the collection lacks.
THEOREM EventsAreFactsHolds == Spec => []EventsAreFacts
<1>1. IInv => EventsAreFacts
  BY DEF IInv
<1> QED BY Invariant, <1>1, PTL

\* A join answered with "ok" is in the document, then and ever after.
THEOREM ToldIsJoinedHolds == Spec => []ToldIsJoined
<1>1. IInv => ToldIsJoined
  BY DEF IInv
<1> QED BY Invariant, <1>1, PTL

\* A participant without an event is one whose own request met a fault.
THEOREM JoinIsAnnouncedHolds == Spec => []JoinIsAnnounced
<1>1. IInv => JoinIsAnnounced
  BY DEF IInv
<1> QED BY Invariant, <1>1, PTL

\* A route with a row, and a trip that a client has been given, is never
\* answered with a 404 unless the request's own call failed.
THEOREM KnownIsFoundHolds == Spec => []KnownIsFound
<1>1. IInv => KnownIsFound
  BY DEF IInv, FindersHaveTrip, KnownIsFound, At
<1> QED BY Invariant, <1>1, PTL

-----------------------------------------------------------------------------
(* The refinement: Trips implements TripStorage *)

\* The states in which a join holds its "ok".
Told == {"publishJoined", "ok"}

\* Every step is a step of the storage or a stutter.
LEMMA StepRefines == IInv /\ [Next]_vars => [Storage!Next]_(Storage!vars)
<1> SUFFICES ASSUME IInv, [Next]_vars PROVE [Storage!Next]_(Storage!vars)
  OBVIOUS
<1> DEFINE Goal == [Storage!Next]_(Storage!vars)
<1>t. TypeOK
  BY DEF IInv
<1> USE DEF At, Goto, Told, Storage!vars
\* Steps that change neither a document nor what a join has been told.
<1>s. ASSUME UNCHANGED <<route, participants>>,
             \A s \in Slots : pc'[s] \in Told <=> pc[s] \in Told,
             \A s \in Slots : pc[s] \in Told => UNCHANGED <<trip[s], login[s]>>
      PROVE  Goal
  BY <1>s DEF Confirming
\* Steps after which some requests have gone.
<1>e. ASSUME UNCHANGED <<route, participants>>, NEW gone \in SUBSET Slots,
             \A s \in gone : pc'[s] \notin Told,
             \A s \in Slots \ gone : pc'[s] \in Told <=> pc[s] \in Told,
             \A s \in Slots \ gone : pc[s] \in Told => UNCHANGED <<trip[s], login[s]>>
      PROVE  Goal
  <2>1. Confirming' = [c \in Slots |-> IF c \in gone THEN None ELSE Confirming[c]]
    BY <1>e DEF Confirming
  <2> QED
    BY <1>e, <2>1 DEF Storage!Next
<1>f. ASSUME UNCHANGED <<route, participants>>, NEW s \in Slots, Finish(s) \/ NotFound(s)
      PROVE  Goal
  <2>1. /\ pc'[s] \notin Told
        /\ \A o \in Slots \ {s} : UNCHANGED <<pc[o], trip[o], login[o]>>
    BY <1>f, <1>t DEF Finish, NotFound, Forget, TypeOK
  <2> QED
    BY <1>f, <2>1, <1>e, {s} \in SUBSET Slots
\* A slot that holds no "ok" ends without one, whatever its trip was.
<1>q. ASSUME NEW s \in Slots, pc[s] \notin Told, Finish(s) PROVE UNCHANGED Confirming
  BY <1>q, <1>t DEF Finish, Forget, Confirming, TypeOK
\* The login is in the trip, or goes into it, and the request will say so.
<1>j. ASSUME NEW s \in Slots, NEW label \in Told, Goto(s, label), pc[s] \notin Told,
             UNCHANGED <<route, trip, login>>,
             trip[s] \in TripIds, login[s] \in Logins,
             \/ Joined(trip[s], login[s]) /\ UNCHANGED participants
             \/ AddToSet(trip[s], login[s])
      PROVE  Goal
  <2>1. Confirming' = [Confirming EXCEPT ![s] = <<trip[s], login[s]>>]
    BY <1>j, <1>t DEF Confirming, TypeOK
  <2>2. Storage!AddUserToTrip(trip[s], login[s])
    BY <1>j DEF Storage!AddUserToTrip, Storage!ToSet, AddToSet, Joined, Exists, ToSet
  <2> QED
    BY <1>j, <2>1, <2>2 DEF Storage!Next, Storage!Tell
\* A document appears.
<1>c. ASSUME NEW s \in Slots, At(s, "insert") \/ At(s, "lateInsert"), Store(s),
             UNCHANGED Confirming
      PROVE  Goal
  <2>1. trip[s] \in TripIds /\ asked[s] \in Routes /\ ~Exists(trip[s])
    BY <1>c, StoreFacts
  <2> QED
    BY <1>c, <2>1 DEF Store, Exists, Storage!Next, Storage!AddTrip
<1>1. ASSUME NEW s \in Slots, NEW r \in Routes \cup {Unknown}, NEW t \in TripIds,
             StartCreate(s, r, t)
      PROVE  Goal
  BY <1>1, <1>s, <1>t DEF StartCreate, TypeOK
<1>2. ASSUME NEW s \in Slots, NEW t \in TripIds, NEW l \in Logins, StartJoin(s, t, l)
      PROVE  Goal
  BY <1>2, <1>s, <1>t DEF StartJoin, TypeOK
<1>3. ASSUME NEW s \in Slots, FindRoute(s) \/ InsertFails(s) PROVE Goal
  BY <1>3, <1>s, <1>t DEF FindRoute, InsertFails, TypeOK
<1>4. ASSUME NEW s \in Slots, RouteNotFound(s) \/ FindRouteFails(s) PROVE Goal
  BY <1>4, <1>f DEF RouteNotFound, FindRouteFails
<1>5. ASSUME NEW s \in Slots, Insert(s) PROVE Goal
  <2>1. UNCHANGED Confirming
    BY <1>5, <1>t DEF Insert, Confirming, TypeOK
  <2> QED
    BY <1>5, <1>c, <2>1 DEF Insert
<1>6. ASSUME NEW s \in Slots, LateInsert(s) PROVE Goal
  BY <1>6, <1>c, <1>q DEF LateInsert
<1>7. ASSUME NEW s \in Slots, PublishCreated(s) \/ PublishCreatedFails(s) PROVE Goal
  BY <1>7, <1>f DEF PublishCreated, PublishCreatedFails
<1>8. ASSUME NEW s \in Slots, FindParticipant(s) \/ UpdateMatches(s) PROVE Goal
  <2>1. trip[s] \in TripIds /\ login[s] \in Logins
    BY <1>8, JoinFacts DEF FindParticipant, UpdateMatches
  <2> QED
    BY <1>8, <2>1, <1>j DEF FindParticipant, UpdateMatches
<1>9. ASSUME NEW s \in Slots, FindNobody(s) \/ UpdateFails(s) PROVE Goal
  BY <1>9, <1>s, <1>t DEF FindNobody, UpdateFails, TypeOK
<1>10. ASSUME NEW s \in Slots, UpdateModifies(s) PROVE Goal
  <2>1. trip[s] \in TripIds /\ login[s] \in Logins
    BY <1>10, JoinFacts DEF UpdateModifies
  <2> QED
    BY <1>10, <2>1, <1>j DEF UpdateModifies
<1>11. ASSUME NEW s \in Slots,
              FindFails(s) \/ TripNotFound(s) \/ LateNothing(s) \/ Ok(s)
       PROVE  Goal
  BY <1>11, <1>f DEF FindFails, TripNotFound, LateNothing, Ok
\* The login goes in, and nobody is told.
<1>12. ASSUME NEW s \in Slots, LateUpdate(s) PROVE Goal
  <2>1. trip[s] \in TripIds /\ login[s] \in Logins
    BY <1>12, JoinFacts DEF LateUpdate
  <2>2. UNCHANGED Confirming
    BY <1>12, <1>q DEF LateUpdate
  <2>3. Storage!AddUserToTrip(trip[s], login[s])
    BY <1>12
    DEF LateUpdate, Storage!AddUserToTrip, Storage!ToSet, AddToSet, Joined, Exists, ToSet
  <2> QED
    BY <2>1, <2>2, <2>3 DEF Storage!Next
<1>13. ASSUME NEW s \in Slots, PublishJoined(s) \/ PublishJoinedFails(s) PROVE Goal
  BY <1>13, <1>s, <1>t DEF PublishJoined, PublishJoinedFails, TypeOK
<1>14. CASE Crash
  <2>1. \A s \in Slots : pc'[s] \notin Told
    BY <1>14 DEF Crash
  <2> QED
    BY <1>14, <2>1, <1>e DEF Crash
<1>15. CASE UNCHANGED vars
  BY <1>15, <1>s DEF vars
<1>16. ASSUME NEW s \in Slots, NEW t \in TripIds, StartView(s, t) PROVE Goal
  BY <1>16, <1>s, <1>t DEF StartView, TypeOK
<1>17. ASSUME NEW s \in Slots, Look(s) \/ Leave(s) PROVE Goal
  BY <1>17, <1>f DEF Look, View, ViewNothing, ViewFails, Leave
<1> QED
  BY <1>1, <1>2, <1>3, <1>4, <1>5, <1>6, <1>7, <1>8, <1>9, <1>10, <1>11, <1>12, <1>13,
     <1>14, <1>15, <1>16, <1>17
  DEF Next, Create, Join

\* Joins are atomic: find and update together are one call of a map behind a
\* mutex.
THEOREM Refinement == Spec => ImplementsStorage
<1>1. Init => Storage!Init
  BY DEF Init, Storage!Init, Confirming
<1> QED
  BY <1>1, StepRefines, Invariant, PTL DEF Spec, ImplementsStorage, Storage!Spec
=============================================================================
