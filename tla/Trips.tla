------------------------------- MODULE Trips -------------------------------
(* POST /v1/trips and POST /v1/trips/add-user: trip documents in MongoDB,     *)
(* events in RabbitMQ.                                                        *)
(*                                                                            *)
(* As in RouteCatalog a slot is one request in flight and each remote call is *)
(* a step.  JoinTrip looks for the participant and then adds it, two calls of *)
(* MongoDB with other requests between them.                                  *)
EXTENDS Naturals, Sequences, SequencesExt

CONSTANTS Routes,     \* the ids of the rows of routes, which nobody deletes
          Unknown,    \* a route id without a row
          TripIds,    \* the ids that the driver can still generate
          Logins,
          Slots,      \* requests that can be in flight at once
          None,       \* no route, no trip, no login
          MaxFaults   \* bound on the number of faults

ASSUME NoneAssumption == None \notin Routes /\ None \notin TripIds /\ None \notin Logins
ASSUME UnknownAssumption == Unknown \notin Routes /\ Unknown # None
ASSUME MaxFaultsAssumption == MaxFaults \in Nat

VARIABLES
  route,         \* trips: the route_id of each document, None for a free id
  participants,  \* trips: the participants array of each document
  created,       \* trips whose TripCreated event the broker has accepted
  joins,         \* TripParticipantJoined events accepted, by trip and login
  pc,            \* the call each slot makes next
  asked,         \* create: the route_id of the request
  trip,          \* create: the id generated; join: the trip_id of the request
  login,         \* join: the login of the request
  faults

(* History, which no handler reads. *)
VARIABLES
  told,      \* <<trip, login>> of the joins answered with "ok"
  silent,    \* <<trip, login>> added by a request that could not tell RabbitMQ
  known,     \* trips whose id a client received with a 200
  mustFind   \* requests about an existing route or a known trip, no call failed

handlerVars == <<pc, asked, trip, login>>
vars == <<route, participants, created, joins, pc, asked, trip, login, faults,
          told, silent, known, mustFind>>

PCs == {"idle",
        "findRoute", "insert", "publishCreated",           \* create
        "find", "update", "publishJoined", "ok",           \* join
        "view",                                            \* GET /v1/trips
        "notFound",                      \* a 404 has been given
        "lateInsert", "lateUpdate"}      \* given up by its handler

-----------------------------------------------------------------------------

Init ==
  /\ route = [t \in TripIds |-> None]
  /\ participants = [t \in TripIds |-> <<>>]
  /\ created = {}
  /\ joins = [t \in TripIds |-> [l \in Logins |-> 0]]
  /\ pc = [s \in Slots |-> "idle"]
  /\ asked = [s \in Slots |-> None]
  /\ trip = [s \in Slots |-> None]
  /\ login = [s \in Slots |-> None]
  /\ faults = 0
  /\ told = {}
  /\ silent = {}
  /\ known = {}
  /\ mustFind = {}

Fault ==
  /\ faults < MaxFaults
  /\ faults' = faults + 1

At(s, label) == pc[s] = label

Goto(s, label) == pc' = [pc EXCEPT ![s] = label]

Forget(s) ==
  /\ asked' = [asked EXCEPT ![s] = None]
  /\ trip' = [trip EXCEPT ![s] = None]
  /\ login' = [login EXCEPT ![s] = None]

Finish(s) ==
  /\ Goto(s, "idle")
  /\ Forget(s)
  /\ mustFind' = mustFind \ {s}

\* A 404; the slot is free when it has gone out.
NotFound(s) ==
  /\ Goto(s, "notFound")
  /\ Forget(s)

Leave(s) ==
  /\ At(s, "notFound")
  /\ Finish(s)
  /\ UNCHANGED <<route, participants, created, joins, faults, told, silent,
                 known>>

Exists(t) == route[t] # None

-----------------------------------------------------------------------------
(* POST /v1/trips *)

\* The id is the one that CreateTrip generates for the document later on; a
\* request that finds none left does not start (the bound on creations).
StartCreate(s, r, t) ==
  /\ At(s, "idle")
  /\ ~Exists(t)
  /\ \A other \in Slots : asked[other] # None => trip[other] # t
  /\ Goto(s, "findRoute")
  /\ asked' = [asked EXCEPT ![s] = r]
  /\ trip' = [trip EXCEPT ![s] = t]
  /\ mustFind' = IF r \in Routes THEN mustFind \cup {s} ELSE mustFind
  /\ UNCHANGED <<route, participants, created, joins, login, faults, told,
                 silent, known>>

\* GetRouteById
FindRoute(s) ==
  /\ At(s, "findRoute")
  /\ asked[s] \in Routes
  /\ Goto(s, "insert")
  /\ UNCHANGED <<route, participants, created, joins, asked, trip, login,
                 faults, told, silent, known, mustFind>>

\* No such row, and a 404.
RouteNotFound(s) ==
  /\ At(s, "findRoute")
  /\ asked[s] \notin Routes
  /\ NotFound(s)
  /\ UNCHANGED <<route, participants, created, joins, faults, told, silent,
                 known, mustFind>>

\* GetRouteById turns an error into "no such row": a 404 for any route.
FindRouteFails(s) ==
  /\ At(s, "findRoute")
  /\ Fault
  /\ NotFound(s)
  /\ mustFind' = mustFind \ {s}
  /\ UNCHANGED <<route, participants, created, joins, told, silent, known>>

\* Mutant: the requester goes into the array, but a create has no login.
StoreWithRequester(s) ==
  /\ route' = [route EXCEPT ![trip[s]] = asked[s]]
  /\ participants' = [participants EXCEPT ![trip[s]] = <<login[s]>>]

\* A document with an empty participants array appears.
Store(s) ==
  /\ route' = [route EXCEPT ![trip[s]] = asked[s]]
  /\ participants' = [participants EXCEPT ![trip[s]] = <<>>]

Insert(s) ==
  /\ At(s, "insert")
  /\ Store(s)
  /\ Goto(s, "publishCreated")
  /\ UNCHANGED <<created, joins, asked, trip, login, faults, told, silent,
                 known, mustFind>>

\* InsertOne throws, and CreateTrip with it: a 500, the outcome in doubt.
InsertFails(s) ==
  /\ At(s, "insert")
  /\ Fault
  /\ Goto(s, "lateInsert")
  /\ UNCHANGED <<route, participants, created, joins, asked, trip, login,
                 told, silent, known, mustFind>>

LateInsert(s) ==
  /\ At(s, "lateInsert")
  /\ Store(s)
  /\ Finish(s)
  /\ UNCHANGED <<created, joins, faults, told, silent, known>>

PublishCreated(s) ==
  /\ At(s, "publishCreated")
  /\ created' = created \cup {trip[s]}
  /\ known' = known \cup {trip[s]}
  /\ Finish(s)
  /\ UNCHANGED <<route, participants, joins, faults, told, silent>>

\* The publisher swallows the error; the broker may have the event even so.
PublishCreatedFails(s) ==
  /\ At(s, "publishCreated")
  /\ Fault
  /\ \E sent \in {{}, {trip[s]}} : created' = created \cup sent
  /\ known' = known \cup {trip[s]}
  /\ Finish(s)
  /\ UNCHANGED <<route, participants, joins, told, silent>>

-----------------------------------------------------------------------------
(* POST /v1/trips/add-user *)

StartJoin(s, t, l) ==
  /\ At(s, "idle")
  /\ Goto(s, "find")
  /\ trip' = [trip EXCEPT ![s] = t]
  /\ login' = [login EXCEPT ![s] = l]
  /\ mustFind' = IF t \in known THEN mustFind \cup {s} ELSE mustFind
  /\ UNCHANGED <<route, participants, created, joins, asked, faults, told,
                 silent, known>>

Joined(t, l) == Exists(t) /\ l \in ToSet(participants[t])

FindParticipant(s) ==
  /\ At(s, "find")
  /\ Joined(trip[s], login[s])
  /\ Goto(s, "ok")
  /\ UNCHANGED <<route, participants, created, joins, asked, trip, login,
                 faults, told, silent, known, mustFind>>

FindNobody(s) ==
  /\ At(s, "find")
  /\ ~Joined(trip[s], login[s])
  /\ Goto(s, "update")
  /\ UNCHANGED <<route, participants, created, joins, asked, trip, login,
                 faults, told, silent, known, mustFind>>

\* FindOne throws: a 500.
FindFails(s) ==
  /\ At(s, "find")
  /\ Fault
  /\ Finish(s)
  /\ UNCHANGED <<route, participants, created, joins, told, silent, known>>

\* Mutant: $push in place of $addToSet, which always modifies the document.
Push(t, l) ==
  /\ Exists(t)
  /\ participants' = [participants EXCEPT ![t] = Append(@, l)]

\* $addToSet on a document that lacks the login: MatchedCount and ModifiedCount
\* are 1.
AddToSet(t, l) ==
  /\ Exists(t)
  /\ ~Joined(t, l)
  /\ participants' = [participants EXCEPT ![t] = Append(@, l)]

\* Mutant: the two results of JoinTrip change places.
UpdateModifiesQuietly(s) ==
  /\ At(s, "update")
  /\ AddToSet(trip[s], login[s])
  /\ Goto(s, "ok")
  /\ UNCHANGED <<route, created, joins, asked, trip, login, faults, told,
                 silent, known, mustFind>>

UpdateModifies(s) ==
  /\ At(s, "update")
  /\ AddToSet(trip[s], login[s])
  /\ Goto(s, "publishJoined")
  /\ UNCHANGED <<route, created, joins, asked, trip, login, faults, told,
                 silent, known, mustFind>>

\* Mutant: ModifiedCount is not consulted, a matched document counts as joined.
UpdateCountsMatches(s) ==
  /\ At(s, "update")
  /\ Joined(trip[s], login[s])
  /\ Goto(s, "publishJoined")
  /\ UNCHANGED <<route, participants, created, joins, asked, trip, login,
                 faults, told, silent, known, mustFind>>

\* Somebody added the login since the find: ModifiedCount is 0.
UpdateMatches(s) ==
  /\ At(s, "update")
  /\ Joined(trip[s], login[s])
  /\ Goto(s, "ok")
  /\ UNCHANGED <<route, participants, created, joins, asked, trip, login,
                 faults, told, silent, known, mustFind>>

\* Mutant: MatchedCount is not consulted either.
UpdateIgnoresCounts(s) ==
  /\ At(s, "update")
  /\ ~Exists(trip[s])
  /\ Goto(s, "publishJoined")
  /\ UNCHANGED <<route, participants, created, joins, asked, trip, login,
                 faults, told, silent, known, mustFind>>

\* MatchedCount is 0, and a 404.
TripNotFound(s) ==
  /\ At(s, "update")
  /\ ~Exists(trip[s])
  /\ NotFound(s)
  /\ UNCHANGED <<route, participants, created, joins, faults, told, silent,
                 known, mustFind>>

\* Mutant: the catch of JoinTrip returns kAlreadyJoined.
UpdateErrorIsOk(s) ==
  /\ At(s, "update")
  /\ Fault
  /\ Goto(s, "ok")
  /\ UNCHANGED <<route, participants, created, joins, asked, trip, login,
                 told, silent, known, mustFind>>

\* UpdateOne throws: a 500, the outcome in doubt.
UpdateFails(s) ==
  /\ At(s, "update")
  /\ Fault
  /\ Goto(s, "lateUpdate")
  /\ UNCHANGED <<route, participants, created, joins, asked, trip, login,
                 told, silent, known, mustFind>>

\* The request adds its participant and publishes nothing.
Silenced(s) == silent' = silent \cup {<<trip[s], login[s]>>}

LateUpdate(s) ==
  /\ At(s, "lateUpdate")
  /\ AddToSet(trip[s], login[s])
  /\ Silenced(s)
  /\ Finish(s)
  /\ UNCHANGED <<route, created, joins, faults, told, known>>

\* A late write is refused, lost on the way, or changes nothing.
LateNothing(s) ==
  /\ pc[s] \in {"lateInsert", "lateUpdate"}
  /\ Finish(s)
  /\ UNCHANGED <<route, participants, created, joins, faults, told, silent,
                 known>>

PublishJoined(s) ==
  /\ At(s, "publishJoined")
  /\ joins' = [joins EXCEPT ![trip[s]][login[s]] = @ + 1]
  /\ Goto(s, "ok")
  /\ UNCHANGED <<route, participants, created, asked, trip, login, faults,
                 told, silent, known, mustFind>>

\* The publisher swallows the error; the broker may have the event even so.
PublishJoinedFails(s) ==
  /\ At(s, "publishJoined")
  /\ Fault
  /\ \E sent \in 0 .. 1 : joins' = [joins EXCEPT ![trip[s]][login[s]] = @ + sent]
  /\ Silenced(s)
  /\ Goto(s, "ok")
  /\ UNCHANGED <<route, participants, created, asked, trip, login, told,
                 known, mustFind>>

Ok(s) ==
  /\ At(s, "ok")
  /\ told' = told \cup {<<trip[s], login[s]>>}
  /\ Finish(s)
  /\ UNCHANGED <<route, participants, created, joins, faults, silent, known>>

-----------------------------------------------------------------------------
(* GET /v1/trips *)

StartView(s, t) ==
  /\ At(s, "idle")
  /\ Goto(s, "view")
  /\ trip' = [trip EXCEPT ![s] = t]
  /\ mustFind' = IF t \in known THEN mustFind \cup {s} ELSE mustFind
  /\ UNCHANGED <<route, participants, created, joins, asked, login, faults, told,
                 silent, known>>

View(s) ==
  /\ At(s, "view")
  /\ Exists(trip[s])
  /\ Finish(s)
  /\ UNCHANGED <<route, participants, created, joins, faults, told, silent,
                 known>>

\* Mutant: the read preference of GetTripById is a secondary.
ViewSecondary(s) ==
  /\ At(s, "view")
  /\ NotFound(s)
  /\ UNCHANGED <<route, participants, created, joins, faults, told, silent,
                 known, mustFind>>

ViewNothing(s) ==
  /\ At(s, "view")
  /\ ~Exists(trip[s])
  /\ NotFound(s)
  /\ UNCHANGED <<route, participants, created, joins, faults, told, silent,
                 known, mustFind>>

\* GetTripById turns an error into "no such trip": a 404 for any trip.
ViewFails(s) ==
  /\ At(s, "view")
  /\ Fault
  /\ NotFound(s)
  /\ mustFind' = mustFind \ {s}
  /\ UNCHANGED <<route, participants, created, joins, told, silent, known>>

-----------------------------------------------------------------------------

\* The server process dies and starts again with every handler gone.  A write
\* that is already on its way can still take effect.
Crash ==
  /\ Fault
  /\ \E sent \in SUBSET {s \in Slots : pc[s] \in {"insert", "update",
                                                 "lateInsert", "lateUpdate"}} :
       /\ pc' = [s \in Slots |->
                   IF s \notin sent THEN "idle"
                   ELSE IF pc[s] \in {"insert", "lateInsert"} THEN "lateInsert"
                   ELSE "lateUpdate"]
       /\ asked' = [s \in Slots |-> IF s \in sent THEN asked[s] ELSE None]
       /\ trip' = [s \in Slots |-> IF s \in sent THEN trip[s] ELSE None]
       /\ login' = [s \in Slots |-> IF s \in sent THEN login[s] ELSE None]
  /\ silent' = silent \cup {<<trip[s], login[s]>> :
                  s \in {x \in Slots : At(x, "publishJoined")}}
  /\ mustFind' = {}
  /\ UNCHANGED <<route, participants, created, joins, told, known>>

Create(s) ==
  \/ FindRoute(s) \/ RouteNotFound(s) \/ FindRouteFails(s)
  \/ Insert(s) \/ InsertFails(s) \/ LateInsert(s)
  \/ PublishCreated(s) \/ PublishCreatedFails(s)

Join(s) ==
  \/ FindParticipant(s) \/ FindNobody(s) \/ FindFails(s)
  \/ UpdateModifies(s) \/ UpdateMatches(s) \/ TripNotFound(s)
  \/ UpdateFails(s) \/ LateUpdate(s) \/ LateNothing(s)
  \/ PublishJoined(s) \/ PublishJoinedFails(s) \/ Ok(s)

Look(s) == View(s) \/ ViewNothing(s) \/ ViewFails(s)

Next ==
  \/ \E s \in Slots, t \in TripIds :
       \/ \E r \in Routes \cup {Unknown} : StartCreate(s, r, t)
       \/ \E l \in Logins : StartJoin(s, t, l)
       \/ StartView(s, t)
  \/ \E s \in Slots : Create(s) \/ Join(s) \/ Look(s) \/ Leave(s)
  \/ Crash

Spec == Init /\ [][Next]_vars

-----------------------------------------------------------------------------
(* Properties *)

Pairs == TripIds \X Logins

\* The type invariant.
TypeOK ==
  /\ route \in [TripIds -> Routes \cup {None}]
  /\ participants \in [TripIds -> Seq(Logins)]
  /\ created \subseteq TripIds
  /\ joins \in [TripIds -> [Logins -> Nat]]
  /\ pc \in [Slots -> PCs]
  /\ asked \in [Slots -> Routes \cup {Unknown, None}]
  /\ trip \in [Slots -> TripIds \cup {None}]
  /\ login \in [Slots -> Logins \cup {None}]
  /\ faults \in 0 .. MaxFaults
  /\ told \subseteq Pairs
  /\ silent \subseteq Pairs
  /\ known \subseteq TripIds
  /\ mustFind \subseteq Slots

\* A login stands in a trip's participants once, however many requests looked
\* for it before any of them added it (test_trips_flow counts to 1).
NobodyTwice ==
  \A t \in TripIds : IsInjective(participants[t])

\* Of all the requests that join one login to one trip, one publishes: the one
\* whose update modified the document.
OneJoinEvent == \A t \in TripIds, l \in Logins : joins[t][l] <= 1

\* Events tell of documents: nobody hears of a trip or a participant that is
\* not in the collection, errors and late writes included.
EventsAreFacts ==
  /\ \A t \in created : Exists(t)
  /\ \A t \in TripIds, l \in Logins : joins[t][l] > 0 => Joined(t, l)

\* An "ok" is the truth and stays so.
ToldIsJoined == \A p \in told : Joined(p[1], p[2])

\* Every participant has been announced, or is about to be, unless the very
\* request that added it met an error or a crash before its event was out.
\* (Then nobody announces it any more: a retry finds the participant.)
JoinIsAnnounced ==
  \A t \in TripIds, l \in Logins :
    Joined(t, l) /\ <<t, l>> \notin silent
      => \/ joins[t][l] > 0
         \/ \E s \in Slots : At(s, "publishJoined") /\ trip[s] = t /\ login[s] = l

\* A 404 is the truth unless the request's own call failed: whoever names a
\* route, or a trip whose creation was answered with a 200 before, gets past
\* the look-up, be it a create, a join or a GET.
KnownIsFound == \A s \in mustFind : ~At(s, "notFound")

Confirming == [s \in Slots |-> IF pc[s] \in {"publishJoined", "ok"}
                               THEN <<trip[s], login[s]>> ELSE None]

Storage == INSTANCE TripStorage WITH Callers <- Slots, reply <- Confirming

\* A join is atomic although it takes two calls: whatever comes between them,
\* and however late a write, each request that ends in "ok" does so by one
\* step at which the trip existed and the login was there or went in.
ImplementsStorage == Storage!Spec

-----------------------------------------------------------------------------
(* The inductive invariant: what TripsProofs shows of every state *)

Creating(s) == pc[s] \in {"findRoute", "insert", "lateInsert"}

\* An id under way is new, and no other request's.
FreshIds ==
  \A s \in Slots : Creating(s) =>
    /\ ~Exists(trip[s])
    /\ asked[s] # None
    /\ \A other \in Slots \ {s} : asked[other] # None => trip[other] # trip[s]

\* Only a create has a route, and only an existing one goes into a document.
AskedByCreates ==
  \A s \in Slots :
    /\ asked[s] # None <=> Creating(s) \/ At(s, "publishCreated")
    /\ pc[s] \in {"insert", "lateInsert"} => asked[s] \in Routes
    /\ pc[s] \notin {"idle", "notFound"} => trip[s] \in TripIds
    /\ At(s, "publishCreated") => Exists(trip[s])

\* A join knows its login; past its update, the login is in the document.
JoinsInHand ==
  \A s \in Slots :
    /\ pc[s] \in {"find", "update", "publishJoined", "ok", "lateUpdate"} =>
         login[s] \in Logins
    /\ pc[s] \in {"publishJoined", "ok"} => Joined(trip[s], login[s])

\* The request whose update modified the document is the only one to publish.
SolePublisher ==
  \A s \in Slots : At(s, "publishJoined") =>
    /\ joins[trip[s]][login[s]] = 0
    /\ \A other \in Slots \ {s} :
         At(other, "publishJoined") => <<trip[other], login[other]>> # <<trip[s], login[s]>>

\* What a request must find is there, and so are the trips that clients know.
FindersHaveTrip ==
  /\ \A t \in known : Exists(t)
  /\ \A s \in mustFind :
       /\ pc[s] \notin {"idle", "notFound"}
       /\ At(s, "findRoute") => asked[s] \in Routes
       /\ pc[s] \in {"find", "update", "view"} => Exists(trip[s])

IInv ==
  /\ TypeOK
  /\ FreshIds
  /\ AskedByCreates
  /\ JoinsInHand
  /\ SolePublisher
  /\ NobodyTwice
  /\ OneJoinEvent
  /\ EventsAreFacts
  /\ ToldIsJoined
  /\ JoinIsAnnounced
  /\ FindersHaveTrip
=============================================================================
