---------------------------- MODULE RouteCatalog ----------------------------
(* POST /v1/routes and GET /v1/routes: rows in PostgreSQL, a cached list per  *)
(* owner in Redis (cache-aside), a RouteCreated event in RabbitMQ.            *)
(*                                                                            *)
(* A slot is one request in flight, a coroutine of the server.  Handlers do   *)
(* not lock anything: between two remote calls of one handler any step of     *)
(* another one may happen, so each remote call is a step of its own and pc    *)
(* names the call the slot makes next.  A request refused before its first    *)
(* remote call (400, 401) changes nothing and is a stuttering step.           *)
(*                                                                            *)
(* A call that fails or times out is a fault; faults counts them so that TLC  *)
(* can bound them.  A list of routes is the set of its row ids: the order of  *)
(* the rows and their points play no part in the properties.                  *)
EXTENDS Naturals

CONSTANTS Owners,     \* logins that own routes
          RouteIds,   \* the ids that uuid_generate_v4 can still draw
          Slots,      \* requests that can be in flight at once
          None,       \* no owner: a free id, an idle slot
          Miss,       \* no cache entry
          MaxFaults   \* bound on the number of faults

ASSUME NoneAssumption == None \notin Owners
ASSUME MissAssumption == \A rows \in SUBSET RouteIds : rows # Miss
ASSUME MaxFaultsAssumption == MaxFaults \in Nat

VARIABLES
  table,     \* routes: the owner of each row, None for an id not in use
  cache,     \* Redis: the list under "cache:routes:" + owner, or Miss
  events,    \* ids whose RouteCreated event the broker has accepted
  pc,        \* the call each slot makes next
  owner,     \* the login of the slot's request
  list,      \* GET: the rows read; POST: the row inserted
  acked,     \* ids that a client received with a 200
  faults     \* failed calls and crashes so far

(* History of the invalidations, which no handler reads. *)
VARIABLES
  deleted,   \* ids whose POST's DEL reached Redis
  doubtful,  \* readers whose SELECT failed, or preceded a DEL of their key
  suspect    \* owners whose cache entry a doubtful reader wrote

handlerVars == <<pc, owner, list>>
vars == <<table, cache, events, pc, owner, list, acked, faults,
          deleted, doubtful, suspect>>

Redis == INSTANCE RedisCache WITH Keys <- Owners

PCs == {"idle",
        "lookup", "query", "fill",                           \* GET
        "insert", "invalidate", "publish", "respond",        \* POST
        "late"}                    \* INSERT given up by its handler

Rows(o) == {r \in RouteIds : table[r] = o}

-----------------------------------------------------------------------------

Init ==
  /\ table = [r \in RouteIds |-> None]
  /\ Redis!Init
  /\ events = {}
  /\ pc = [s \in Slots |-> "idle"]
  /\ owner = [s \in Slots |-> None]
  /\ list = [s \in Slots |-> {}]
  /\ acked = {}
  /\ faults = 0
  /\ deleted = {}
  /\ doubtful = {}
  /\ suspect = {}

Fault ==
  /\ faults < MaxFaults
  /\ faults' = faults + 1

At(s, label) == pc[s] = label

Goto(s, label) == pc' = [pc EXCEPT ![s] = label]

Start(s, o, label) ==
  /\ At(s, "idle")
  /\ Goto(s, label)
  /\ owner' = [owner EXCEPT ![s] = o]
  /\ UNCHANGED <<table, cache, events, list, acked, faults,
                 deleted, doubtful, suspect>>

\* The handler is done (or its abandoned INSERT is): the slot is free again.
Finish(s) ==
  /\ Goto(s, "idle")
  /\ owner' = [owner EXCEPT ![s] = None]
  /\ list' = [list EXCEPT ![s] = {}]
  /\ doubtful' = doubtful \ {s}

-----------------------------------------------------------------------------
(* GET /v1/routes *)

StartGet(s, o) == Start(s, o, "lookup")

LookupHit(s) ==
  /\ At(s, "lookup")
  /\ Redis!Hit(owner[s])
  /\ Finish(s)
  /\ UNCHANGED <<table, cache, events, acked, faults, deleted, suspect>>

LookupMiss(s) ==
  /\ At(s, "lookup")
  /\ ~Redis!Hit(owner[s])
  /\ Goto(s, "query")
  /\ UNCHANGED <<table, cache, events, owner, list, acked, faults,
                 deleted, doubtful, suspect>>

\* An error of Redis GET counts as a miss, whatever the cache holds.
LookupFails(s) ==
  /\ At(s, "lookup")
  /\ Fault
  /\ Goto(s, "query")
  /\ UNCHANGED <<table, cache, events, owner, list, acked,
                 deleted, doubtful, suspect>>

\* Mutant: the query without its WHERE owner_login = $1.
QueryAnyOwner(s) ==
  /\ At(s, "query")
  /\ Goto(s, "fill")
  /\ list' = [list EXCEPT ![s] = {r \in RouteIds : table[r] # None}]
  /\ UNCHANGED <<table, cache, events, owner, acked, faults,
                 deleted, doubtful, suspect>>

Query(s) ==
  /\ At(s, "query")
  /\ Goto(s, "fill")
  /\ list' = [list EXCEPT ![s] = Rows(owner[s])]
  /\ UNCHANGED <<table, cache, events, owner, acked, faults,
                 deleted, doubtful, suspect>>

\* GetRoutesByUser turns any error into an empty list, and the handler caches
\* it like any other list.
QueryFails(s) ==
  /\ At(s, "query")
  /\ Fault
  /\ Goto(s, "fill")
  /\ list' = [list EXCEPT ![s] = {}]
  /\ doubtful' = doubtful \cup {s}
  /\ UNCHANGED <<table, cache, events, owner, acked, deleted, suspect>>

Fill(s) ==
  /\ At(s, "fill")
  /\ Redis!Set(owner[s], list[s])
  /\ suspect' = IF s \in doubtful THEN suspect \cup {owner[s]}
                                  ELSE suspect \ {owner[s]}
  /\ Finish(s)
  /\ UNCHANGED <<table, events, acked, faults, deleted>>

FillLost(s) ==
  /\ At(s, "fill")
  /\ Fault
  /\ Finish(s)
  /\ UNCHANGED <<table, cache, events, acked, deleted, suspect>>

-----------------------------------------------------------------------------
(* POST /v1/routes *)

StartPost(s, o) == Start(s, o, "insert")

\* Mutant: an id that is already in use is drawn again and overwrites its row.
CommitOver(s, r) == table' = [table EXCEPT ![r] = owner[s]]

\* A row appears under a fresh id.
Commit(s, r) ==
  /\ table[r] = None
  /\ table' = [table EXCEPT ![r] = owner[s]]

Insert(s) ==
  /\ At(s, "insert")
  /\ \E r \in RouteIds :
       /\ Commit(s, r)
       /\ list' = [list EXCEPT ![s] = {r}]
  /\ Goto(s, "invalidate")
  /\ UNCHANGED <<cache, events, owner, acked, faults,
                 deleted, doubtful, suspect>>

\* Mutant: the handler does not test the id for "".
EmptyIdAccepted(s) ==
  /\ At(s, "insert")
  /\ list' = [list EXCEPT ![s] = {None}]
  /\ Goto(s, "invalidate")
  /\ UNCHANGED <<table, cache, events, owner, acked, faults,
                 deleted, doubtful, suspect>>

\* The owner is not registered, or the points are empty: AddRoute returns ""
\* and the client gets a 500.
InsertRejected(s) ==
  /\ At(s, "insert")
  /\ Finish(s)
  /\ UNCHANGED <<table, cache, events, acked, faults, deleted, suspect>>

\* Mutant: the id is drawn by the server and an error of the INSERT ignored.
InsertErrorIgnored(s) ==
  /\ At(s, "insert")
  /\ Fault
  /\ \E r \in RouteIds :
       /\ table[r] = None
       /\ list' = [list EXCEPT ![s] = {r}]
  /\ Goto(s, "invalidate")
  /\ UNCHANGED <<table, cache, events, owner, acked,
                 deleted, doubtful, suspect>>

\* The call to PostgreSQL ends in an error on this side only: the client gets
\* its 500 while the statement, or the reply to it, is still under way.
InsertTimeout(s) ==
  /\ At(s, "insert")
  /\ Fault
  /\ Goto(s, "late")
  /\ UNCHANGED <<table, cache, events, owner, list, acked,
                 deleted, doubtful, suspect>>

LateCommit(s) ==
  /\ At(s, "late")
  /\ \E r \in RouteIds : Commit(s, r)
  /\ Finish(s)
  /\ UNCHANGED <<cache, events, acked, faults, deleted, suspect>>

LateAbort(s) ==
  /\ At(s, "late")
  /\ Finish(s)
  /\ UNCHANGED <<table, cache, events, acked, faults, deleted, suspect>>

\* Mutant: the DEL names another key than the one GET /v1/routes uses.
InvalidateOtherKey(s) ==
  /\ At(s, "invalidate")
  /\ deleted' = deleted \cup list[s]
  /\ doubtful' = doubtful \cup {t \in Slots : /\ pc[t] = "fill"
                                              /\ owner[t] = owner[s]}
  /\ Goto(s, "publish")
  /\ UNCHANGED <<table, cache, events, owner, list, acked, faults, suspect>>

Invalidate(s) ==
  /\ At(s, "invalidate")
  /\ Redis!Invalidate(owner[s])
  /\ deleted' = deleted \cup list[s]
  /\ doubtful' = doubtful \cup {t \in Slots : /\ pc[t] = "fill"
                                              /\ owner[t] = owner[s]}
  /\ suspect' = suspect \ {owner[s]}
  /\ Goto(s, "publish")
  /\ UNCHANGED <<table, events, owner, list, acked, faults>>

InvalidateLost(s) ==
  /\ At(s, "invalidate")
  /\ Fault
  /\ Goto(s, "publish")
  /\ UNCHANGED <<table, cache, events, owner, list, acked,
                 deleted, doubtful, suspect>>

Publish(s) ==
  /\ At(s, "publish")
  /\ events' = events \cup list[s]
  /\ Goto(s, "respond")
  /\ UNCHANGED <<table, cache, owner, list, acked, faults,
                 deleted, doubtful, suspect>>

\* PublishReliable throws, whether or not the broker has the event; the
\* publisher logs it and the handler goes on.
PublishFails(s) ==
  /\ At(s, "publish")
  /\ Fault
  /\ \E sent \in {{}, list[s]} : events' = events \cup sent
  /\ Goto(s, "respond")
  /\ UNCHANGED <<table, cache, owner, list, acked,
                 deleted, doubtful, suspect>>

Respond(s) ==
  /\ At(s, "respond")
  /\ acked' = acked \cup list[s]
  /\ Finish(s)
  /\ UNCHANGED <<table, cache, events, faults, deleted, suspect>>

-----------------------------------------------------------------------------

\* Mutant: SET without a TTL.
NeverExpires(o) == o \notin Owners /\ UNCHANGED vars

Expire(o) ==
  /\ Redis!Expire(o)
  /\ suspect' = suspect \ {o}
  /\ UNCHANGED <<table, events, pc, owner, list, acked, faults,
                 deleted, doubtful>>

\* The server process dies and starts again with every handler gone.  A
\* command that is already on its way can still take effect: an INSERT is then
\* late, a SET stays where it was.
Crash ==
  /\ Fault
  /\ \E sent \in SUBSET {s \in Slots : pc[s] \in {"insert", "fill", "late"}} :
       /\ pc' = [s \in Slots |-> IF s \notin sent THEN "idle"
                                 ELSE IF pc[s] = "fill" THEN "fill" ELSE "late"]
       /\ owner' = [s \in Slots |-> IF s \in sent THEN owner[s] ELSE None]
       /\ list' = [s \in Slots |-> IF s \in sent THEN list[s] ELSE {}]
       /\ doubtful' = doubtful \cap sent
  /\ UNCHANGED <<table, cache, events, acked, deleted, suspect>>

\* What a slot does when every call is answered.
Serve(s) ==
  \/ LookupHit(s) \/ LookupMiss(s) \/ Query(s) \/ Fill(s)
  \/ Insert(s) \/ InsertRejected(s) \/ LateCommit(s) \/ LateAbort(s)
  \/ Invalidate(s) \/ Publish(s) \/ Respond(s)

Lose(s) ==
  \/ LookupFails(s) \/ QueryFails(s) \/ FillLost(s)
  \/ InsertTimeout(s) \/ InvalidateLost(s) \/ PublishFails(s)

Next ==
  \/ \E s \in Slots, o \in Owners : StartGet(s, o) \/ StartPost(s, o)
  \/ \E s \in Slots : Serve(s) \/ Lose(s)
  \/ \E o \in Owners : Expire(o)
  \/ Crash

Spec == Init /\ [][Next]_vars

\* Every remote call of a handler has a timeout, so a handler that is scheduled
\* ends; every cache entry was written with a TTL.
Fairness ==
  /\ \A s \in Slots : WF_vars(Serve(s))
  /\ \A o \in Owners : WF_vars(Expire(o))

FairSpec == Spec /\ Fairness

-----------------------------------------------------------------------------
(* Properties *)

\* The type invariant.
TypeOK ==
  /\ table \in [RouteIds -> Owners \cup {None}]
  /\ cache \in [Owners -> {Miss} \cup SUBSET RouteIds]
  /\ events \subseteq RouteIds
  /\ pc \in [Slots -> PCs]
  /\ owner \in [Slots -> Owners \cup {None}]
  /\ \A s \in Slots : owner[s] = None <=> pc[s] = "idle"
  /\ list \in [Slots -> SUBSET RouteIds]
  /\ acked \subseteq RouteIds
  /\ faults \in 0 .. MaxFaults
  /\ deleted \subseteq RouteIds
  /\ doubtful \subseteq {s \in Slots : pc[s] = "fill"}
  /\ suspect \subseteq Owners

\* GET /v1/routes, from the cache or from PostgreSQL, shows only committed
\* routes of the owner it was asked for, whatever fails or overlaps.
NoForeignRoutes ==
  /\ \A o \in Owners : Redis!Hit(o) => cache[o] \subseteq Rows(o)
  /\ \A s \in Slots : At(s, "fill") => list[s] \subseteq Rows(owner[s])

\* A RouteCreated event, or an id given to a client, is about a row that
\* exists: neither is produced by an INSERT that failed or is in doubt.
EventsAreFacts == \A r \in events \cup acked : table[r] # None

\* Once the DEL of a row's POST has reached Redis, a cached list without that
\* row can only come from a reader that read PostgreSQL before the DEL and
\* wrote Redis after it, or whose SELECT failed.
StaleExplained ==
  \A o \in Owners :
    Redis!Hit(o) /\ o \notin suspect => Rows(o) \cap deleted \subseteq cache[o]

Contract == INSTANCE RouteContract
              WITH rows <- table, shown <- cache, announced <- events,
                   known <- acked

\* Every step of the handlers is one step of the contract, or none: no handler
\* does two visible things at once, and no row, event or answer is undone.
ImplementsContract == Contract!Spec

Fresh == \A o \in Owners : cache[o] \in {Miss, Rows(o)}

\* When rows stop appearing and calls stop failing, every cached list becomes
\* and stays the list in PostgreSQL: the TTL repairs what races and lost
\* invalidations leave behind.
Converges == <>[]Fresh

-----------------------------------------------------------------------------
(* Invariants that support the ones above: see RouteCatalogProofs *)

\* A POST past its INSERT holds a row of its owner.
InHand ==
  \A s \in Slots :
    pc[s] \in {"invalidate", "publish", "respond"} =>
      list[s] \subseteq Rows(owner[s])

DeletedAreRows == \A r \in deleted : table[r] # None

\* What StaleExplained says of an entry, for a list on its way to the cache.
ReaderExplained ==
  \A s \in Slots :
    At(s, "fill") /\ s \notin doubtful =>
      Rows(owner[s]) \cap deleted \subseteq list[s]

IInv ==
  /\ TypeOK
  /\ InHand
  /\ NoForeignRoutes
  /\ EventsAreFacts
  /\ DeletedAreRows
  /\ StaleExplained
  /\ ReaderExplained

-----------------------------------------------------------------------------
(* What the code's comments and documents say, and the code does not keep *)

\* api_handlers.cpp:250-251: the cache is invalidated "so that GET /v1/routes
\* returns the up-to-date list".  Once a POST has been answered, no cached list
\* may miss its route.
ReadYourWrites ==
  \A o \in Owners : Redis!Hit(o) => acked \cap Rows(o) \subseteq cache[o]

\* event_driven_design.md:50: RouteCreated is delivered "at-least-once".  A
\* route that was created and acknowledged has an event in the broker.
AckedIsPublished == acked \subseteq events
=============================================================================
