---------------------------- MODULE UserDirectory ----------------------------
(* POST /v1/users and GET /v1/users: one row per login in PostgreSQL, a       *)
(* cached profile per login in Redis (cache-aside), a UserCreated event in    *)
(* RabbitMQ.  Nothing updates or deletes a row, and only a profile that was   *)
(* found is cached, so the races that RouteCatalog shows cannot hurt here.    *)
(*                                                                            *)
(* As in RouteCatalog a slot is one request in flight and each remote call is *)
(* a step.  GET /v1/users/search reads one snapshot of the rows and changes   *)
(* nothing; it has no action.                                                 *)
EXTENDS Naturals

CONSTANTS Logins,
          Profiles,   \* what a POST submits: names and password
          Invalid,    \* profiles that the CHECK constraints of users refuse
          Slots,      \* requests that can be in flight at once
          None,       \* no row, no login, no profile
          Miss,       \* no cache entry
          MaxFaults   \* bound on the number of faults

ASSUME NoneAssumption == None \notin Logins /\ None \notin Profiles
ASSUME MissAssumption == Miss \notin Profiles
ASSUME InvalidAssumption == Invalid \subseteq Profiles
ASSUME MaxFaultsAssumption == MaxFaults \in Nat

VARIABLES
  users,     \* the profile in each login's row, or None
  cache,     \* Redis: the profile under "cache:user:" + login, or Miss
  events,    \* profiles in the UserCreated events of each login
  pc,        \* the call each slot makes next, or the answer it has given
  login,     \* the login of the slot's request
  profile,   \* GET: the profile read; POST: the profile submitted
  faults

(* History, which no handler reads. *)
VARIABLES
  wins,      \* POSTs answered with a 200, by login
  mustFind   \* GETs that began after such an answer and whose SELECT worked

handlerVars == <<pc, login, profile>>
vars == <<users, cache, events, pc, login, profile, faults, wins, mustFind>>

Redis == INSTANCE RedisCache WITH Keys <- Logins

PCs == {"idle",
        "lookup", "query", "fill", "found", "notFound",    \* GET
        "insert", "invalidate", "publish", "respond",      \* POST
        "conflict",                                        \* 409 given
        "late"}           \* 409 given, and the INSERT is still under way

Init ==
  /\ users = [l \in Logins |-> None]
  /\ Redis!Init
  /\ events = [l \in Logins |-> {}]
  /\ pc = [s \in Slots |-> "idle"]
  /\ login = [s \in Slots |-> None]
  /\ profile = [s \in Slots |-> None]
  /\ faults = 0
  /\ wins = [l \in Logins |-> 0]
  /\ mustFind = {}

Fault ==
  /\ faults < MaxFaults
  /\ faults' = faults + 1

At(s, label) == pc[s] = label

Goto(s, label) == pc' = [pc EXCEPT ![s] = label]

Finish(s) ==
  /\ Goto(s, "idle")
  /\ login' = [login EXCEPT ![s] = None]
  /\ profile' = [profile EXCEPT ![s] = None]
  /\ mustFind' = mustFind \ {s}

\* The answer has been given, and the slot is free again.
Leave(s) ==
  /\ pc[s] \in {"found", "notFound", "conflict"}
  /\ Finish(s)
  /\ UNCHANGED <<users, cache, events, faults, wins>>

-----------------------------------------------------------------------------
(* GET /v1/users *)

StartGet(s, l) ==
  /\ At(s, "idle")
  /\ Goto(s, "lookup")
  /\ login' = [login EXCEPT ![s] = l]
  /\ mustFind' = IF wins[l] > 0 THEN mustFind \cup {s} ELSE mustFind
  /\ UNCHANGED <<users, cache, events, profile, faults, wins>>

\* Mutant: the key lacks the login, and the entry is whoever was read last.
HitOfAnyLogin(s) ==
  /\ At(s, "lookup")
  /\ \E l \in Logins : Redis!Hit(l) /\ profile' = [profile EXCEPT ![s] = cache[l]]
  /\ Goto(s, "found")
  /\ UNCHANGED <<users, cache, events, login, faults, wins, mustFind>>

LookupHit(s) ==
  /\ At(s, "lookup")
  /\ Redis!Hit(login[s])
  /\ Goto(s, "found")
  /\ profile' = [profile EXCEPT ![s] = cache[login[s]]]
  /\ UNCHANGED <<users, cache, events, login, faults, wins, mustFind>>

LookupMiss(s) ==
  /\ At(s, "lookup")
  /\ ~Redis!Hit(login[s])
  /\ Goto(s, "query")
  /\ UNCHANGED <<users, cache, events, login, profile, faults, wins, mustFind>>

LookupFails(s) ==
  /\ At(s, "lookup")
  /\ Fault
  /\ Goto(s, "query")
  /\ UNCHANGED <<users, cache, events, login, profile, wins, mustFind>>

QueryFound(s) ==
  /\ At(s, "query")
  /\ users[login[s]] # None
  /\ Goto(s, "fill")
  /\ profile' = [profile EXCEPT ![s] = users[login[s]]]
  /\ UNCHANGED <<users, cache, events, login, faults, wins, mustFind>>

\* Mutants: the handler caches a user it did not find; the SELECT runs on a
\* replica that may lack the row.
MissingCached(s) ==
  /\ At(s, "query")
  /\ users[login[s]] = None
  /\ Goto(s, "fill")
  /\ UNCHANGED <<users, cache, events, login, profile, faults, wins, mustFind>>

ReplicaEmpty(s) ==
  /\ At(s, "query")
  /\ Goto(s, "notFound")
  /\ UNCHANGED <<users, cache, events, login, profile, faults, wins, mustFind>>

QueryEmpty(s) ==
  /\ At(s, "query")
  /\ users[login[s]] = None
  /\ Goto(s, "notFound")
  /\ UNCHANGED <<users, cache, events, login, profile, faults, wins, mustFind>>

\* GetUserByLogin turns any error into "no such user": a 404, not a 500.
QueryFails(s) ==
  /\ At(s, "query")
  /\ Fault
  /\ Goto(s, "notFound")
  /\ mustFind' = mustFind \ {s}
  /\ UNCHANGED <<users, cache, events, login, profile, wins>>

Fill(s) ==
  /\ At(s, "fill")
  /\ Redis!Set(login[s], profile[s])
  /\ Finish(s)
  /\ UNCHANGED <<users, events, faults, wins>>

FillLost(s) ==
  /\ At(s, "fill")
  /\ Fault
  /\ Finish(s)
  /\ UNCHANGED <<users, cache, events, wins>>

-----------------------------------------------------------------------------
(* POST /v1/users *)

StartPost(s, l, p) ==
  /\ At(s, "idle")
  /\ Goto(s, "insert")
  /\ login' = [login EXCEPT ![s] = l]
  /\ profile' = [profile EXCEPT ![s] = p]
  /\ UNCHANGED <<users, cache, events, faults, wins, mustFind>>

\* Mutant: ON CONFLICT (login) DO UPDATE.
Upsert(s) ==
  /\ profile[s] \notin Invalid
  /\ users' = [users EXCEPT ![login[s]] = profile[s]]

\* INSERT ... ON CONFLICT (login) DO NOTHING finds the login free.
Commit(s) ==
  /\ profile[s] \notin Invalid
  /\ users[login[s]] = None
  /\ users' = [users EXCEPT ![login[s]] = profile[s]]

Insert(s) ==
  /\ At(s, "insert")
  /\ Commit(s)
  /\ Goto(s, "invalidate")
  /\ UNCHANGED <<cache, events, login, profile, faults, wins, mustFind>>

\* Mutant: AddUser does not test RowsAffected.
RowsAffectedIgnored(s) ==
  /\ At(s, "insert")
  /\ users[login[s]] # None
  /\ Goto(s, "invalidate")
  /\ UNCHANGED <<users, cache, events, login, profile, faults, wins, mustFind>>

\* No row is affected, or a CHECK constraint raises an error that AddUser
\* catches: a 409 either way.
InsertRefused(s) ==
  /\ At(s, "insert")
  /\ profile[s] \in Invalid \/ users[login[s]] # None
  /\ Goto(s, "conflict")
  /\ UNCHANGED <<users, cache, events, login, profile, faults, wins, mustFind>>

\* The call ends in an error on this side only: a 409, while the statement, or
\* the reply to it, is still under way.
InsertTimeout(s) ==
  /\ At(s, "insert")
  /\ Fault
  /\ Goto(s, "late")
  /\ UNCHANGED <<users, cache, events, login, profile, wins, mustFind>>

LateCommit(s) ==
  /\ At(s, "late")
  /\ Commit(s)
  /\ Finish(s)
  /\ UNCHANGED <<cache, events, faults, wins>>

LateAbort(s) ==
  /\ At(s, "late")
  /\ Finish(s)
  /\ UNCHANGED <<users, cache, events, faults, wins>>

Invalidate(s) ==
  /\ At(s, "invalidate")
  /\ Redis!Invalidate(login[s])
  /\ Goto(s, "publish")
  /\ UNCHANGED <<users, events, login, profile, faults, wins, mustFind>>

InvalidateLost(s) ==
  /\ At(s, "invalidate")
  /\ Fault
  /\ Goto(s, "publish")
  /\ UNCHANGED <<users, cache, events, login, profile, wins, mustFind>>

Publish(s) ==
  /\ At(s, "publish")
  /\ events' = [events EXCEPT ![login[s]] = @ \cup {profile[s]}]
  /\ Goto(s, "respond")
  /\ UNCHANGED <<users, cache, login, profile, faults, wins, mustFind>>

\* The publisher swallows the error; the broker may have the event even so.
PublishFails(s) ==
  /\ At(s, "publish")
  /\ Fault
  /\ \E sent \in {{}, {profile[s]}} :
       events' = [events EXCEPT ![login[s]] = @ \cup sent]
  /\ Goto(s, "respond")
  /\ UNCHANGED <<users, cache, login, profile, wins, mustFind>>

Respond(s) ==
  /\ At(s, "respond")
  /\ wins' = [wins EXCEPT ![login[s]] = @ + 1]
  /\ Finish(s)
  /\ UNCHANGED <<users, cache, events, faults>>

-----------------------------------------------------------------------------

Expire(l) ==
  /\ Redis!Expire(l)
  /\ UNCHANGED <<users, events, pc, login, profile, faults, wins, mustFind>>

\* The server process dies; a command that is on its way can still take effect.
Crash ==
  /\ Fault
  /\ \E sent \in SUBSET {s \in Slots : pc[s] \in {"insert", "fill", "late"}} :
       /\ pc' = [s \in Slots |-> IF s \notin sent THEN "idle"
                                 ELSE IF pc[s] = "fill" THEN "fill" ELSE "late"]
       /\ login' = [s \in Slots |-> IF s \in sent THEN login[s] ELSE None]
       /\ profile' = [s \in Slots |-> IF s \in sent THEN profile[s] ELSE None]
       /\ mustFind' = mustFind \cap sent
  /\ UNCHANGED <<users, cache, events, wins>>

Serve(s) ==
  \/ LookupHit(s) \/ LookupMiss(s) \/ QueryFound(s) \/ QueryEmpty(s) \/ Fill(s)
  \/ Insert(s) \/ InsertRefused(s) \/ LateCommit(s) \/ LateAbort(s)
  \/ Invalidate(s) \/ Publish(s) \/ Respond(s) \/ Leave(s)

Lose(s) ==
  \/ LookupFails(s) \/ QueryFails(s) \/ FillLost(s)
  \/ InsertTimeout(s) \/ InvalidateLost(s) \/ PublishFails(s)

Next ==
  \/ \E s \in Slots, l \in Logins : StartGet(s, l)
  \/ \E s \in Slots, l \in Logins, p \in Profiles : StartPost(s, l, p)
  \/ \E s \in Slots : Serve(s) \/ Lose(s)
  \/ \E l \in Logins : Expire(l)
  \/ Crash

Spec == Init /\ [][Next]_vars

-----------------------------------------------------------------------------
(* Properties *)

\* The type invariant.
TypeOK ==
  /\ users \in [Logins -> Profiles \cup {None}]
  /\ cache \in [Logins -> Profiles \cup {Miss}]
  /\ events \in [Logins -> SUBSET Profiles]
  /\ pc \in [Slots -> PCs]
  /\ login \in [Slots -> Logins \cup {None}]
  /\ \A s \in Slots : login[s] = None <=> pc[s] = "idle"
  /\ profile \in [Slots -> Profiles \cup {None}]
  /\ \A s \in Slots : profile[s] = None =>
                        pc[s] \in {"idle", "lookup", "query", "notFound"}
  /\ faults \in 0 .. MaxFaults
  /\ wins \in [Logins -> Nat]
  /\ mustFind \subseteq Slots

\* The cache is never stale: an entry is the row of its login, whatever fails
\* and overlaps (and although DEL may be lost and SET come late).
CachedProfileIsRow == \A l \in Logins : Redis!Hit(l) => cache[l] = users[l]

\* Of all the POSTs of a login, concurrent or not, at most one is answered
\* with a 200, and a UserCreated event tells the names in the row.
OneWinner ==
  \A l \in Logins :
    /\ wins[l] <= 1
    /\ wins[l] = 1 => users[l] # None
    /\ events[l] \subseteq {users[l]}

\* A GET that starts after a POST of its login was answered with a 200 is not
\* answered with a 404, unless its own SELECT fails.
CreatedIsFound == \A s \in mustFind : ~At(s, "notFound")

Given == [s \in Slots |->
            IF pc[s] \in {"fill", "found", "invalidate", "publish", "respond"}
            THEN <<login[s], profile[s]>> ELSE None]

Storage == INSTANCE UserStorage WITH Callers <- Slots, reply <- Given

\* The cache and the late statements cannot be told from a map behind a mutex:
\* a registration that is answered with a 200 and a profile that is read, be it
\* from Redis, are what the map says at one moment of the request.
ImplementsStorage == Storage!Spec

-----------------------------------------------------------------------------
(* Invariants that support the ones above: see UserDirectoryProofs *)

\* A profile on its way to the cache is a row.
FoundIsRow ==
  \A s \in Slots : At(s, "fill") => profile[s] = users[login[s]]

Winning == {s \in Slots : pc[s] \in {"invalidate", "publish", "respond"}}

\* A POST past its INSERT holds the row it wrote, and no other one ever will.
SoleWriter ==
  \A s \in Winning :
    /\ profile[s] = users[login[s]]
    /\ wins[login[s]] = 0
    /\ \A t \in Winning : login[t] = login[s] => t = s

\* A reader that must find its user has not answered, and the row is there.
FinderHasRow ==
  \A s \in mustFind :
    /\ pc[s] \in {"lookup", "query", "fill", "found"}
    /\ users[login[s]] # None

IInv ==
  /\ TypeOK
  /\ CachedProfileIsRow
  /\ FoundIsRow
  /\ SoleWriter
  /\ OneWinner
  /\ FinderHasRow

-----------------------------------------------------------------------------
(* What the documents say, and the code does not keep *)

\* openapi.yaml:153-154: POST /v1/users answers 409 when "User already exists".
ConflictMeansExists ==
  \A s \in Slots : pc[s] \in {"conflict", "late"} => users[login[s]] # None
=============================================================================
