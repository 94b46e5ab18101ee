------------------------------ MODULE Sessions ------------------------------
(* POST /v1/login past its limiter, the collection auth_tokens in MongoDB,    *)
(* and AuthMiddleware, which stands before POST /v1/routes and /v1/trips.     *)
(*                                                                            *)
(* As in RouteCatalog a slot is one request in flight and each remote call is *)
(* a step.  The service reads its clock before a call: for the expires_at of  *)
(* a document on its way, and for the filter of a look-up.  Time may pass, or *)
(* the process die, before MongoDB gets either.  Nothing deletes a document.  *)
(*                                                                            *)
(* A request without a bearer token is refused before any call, and one that  *)
(* the limiter refuses ends before this module begins: both are stuttering.   *)
EXTENDS Naturals

CONSTANTS Logins,
          Passwords,
          Tokens,     \* the tokens that GenerateUuid can still draw
          Forged,     \* a bearer token that it never draws
          Life,       \* 24 hours, in ticks of the clock
          Slots,      \* requests that can be in flight at once
          None,
          MaxTime,    \* bound on the clock
          MaxFaults   \* bound on the number of faults

\* What a password check is remembered by: see issued.
Checks == [login : Logins, password : Passwords, at : Nat]

ASSUME NoneAssumption ==
  /\ None \notin Logins \cup Passwords
  /\ None \notin Tokens \cup {Forged}
  /\ None \notin Checks
ASSUME ForgedAssumption == Forged \notin Tokens
ASSUME LifeAssumption == Life \in Nat \ {0}
ASSUME MaxTimeAssumption == MaxTime \in Nat
ASSUME MaxFaultsAssumption == MaxFaults \in Nat

VARIABLES
  users,      \* the password in each login's row, or None
  docs,       \* auth_tokens
  wire,       \* documents under way that no handler waits for any more
  now,
  handed,     \* tokens that a client received with a 200
  pc,         \* the call each slot makes next, or where it is
  login,      \* the login of a POST /v1/login; X-User-Login of a request let in
  password,   \* the password of a POST /v1/login
  token,      \* the token it will hand out, or that a request carries
  clock,      \* what the slot read from the clock: expires_at, or "now"
  faults

(* History, which no handler reads. *)
VARIABLES
  issued,     \* by token: login, password and time of the check behind it
  sure,       \* tokens whose insert was acknowledged, or that were accepted
  mustPass    \* requests with a sure token of less than Life, no call failed

slotVars == <<pc, login, password, token, clock>>
storeVars == <<users, docs, wire, handed, sure, issued>>
vars == <<users, docs, wire, now, handed, pc, login, password, token, clock,
          faults, issued, sure, mustPass>>

PCs == {"idle",
        "verify", "insert", "answer",       \* POST /v1/login
        "find", "serve", "refused"}         \* a request behind the middleware

Init ==
  /\ users = [l \in Logins |-> None]
  /\ docs = {}
  /\ wire = {}
  /\ now = 0
  /\ handed = {}
  /\ pc = [s \in Slots |-> "idle"]
  /\ login = [s \in Slots |-> None]
  /\ password = [s \in Slots |-> None]
  /\ token = [s \in Slots |-> None]
  /\ clock = [s \in Slots |-> 0]
  /\ faults = 0
  /\ issued = [t \in Tokens |-> None]
  /\ sure = {}
  /\ mustPass = {}

Fault ==
  /\ faults < MaxFaults
  /\ faults' = faults + 1

At(s, label) == pc[s] = label

Goto(s, label) == pc' = [pc EXCEPT ![s] = label]

Finish(s) ==
  /\ Goto(s, "idle")
  /\ login' = [login EXCEPT ![s] = None]
  /\ password' = [password EXCEPT ![s] = None]
  /\ token' = [token EXCEPT ![s] = None]
  /\ clock' = [clock EXCEPT ![s] = 0]
  /\ mustPass' = mustPass \ {s}

\* POST /v1/users, see UserDirectory: a row is written once.
Register(l, p) ==
  /\ users[l] = None
  /\ users' = [users EXCEPT ![l] = p]
  /\ UNCHANGED <<docs, wire, now, handed, slotVars, faults, issued, sure, mustPass>>

-----------------------------------------------------------------------------
(* POST /v1/login *)

\* The token is the one that GenerateUuid will draw; a request that finds none
\* left does not start (the bound on logins).
StartLogin(s, l, p, t) ==
  /\ At(s, "idle")
  /\ issued[t] = None
  /\ \A other \in Slots : token[other] # t
  /\ Goto(s, "verify")
  /\ login' = [login EXCEPT ![s] = l]
  /\ password' = [password EXCEPT ![s] = p]
  /\ token' = [token EXCEPT ![s] = t]
  /\ UNCHANGED <<storeVars, now, clock, faults, mustPass>>

\* Mutant: WHERE login = $1, without the password.
Exists(s) == users[login[s]] # None

\* WHERE login = $1 AND password_hash = $2
Matches(s) == users[login[s]] = password[s]

\* LoginUser says yes; InsertAuthToken reads the clock.
Verify(s) ==
  /\ At(s, "verify")
  /\ Matches(s)
  /\ issued' = [issued EXCEPT ![token[s]] =
                  [login |-> login[s], password |-> password[s], at |-> now]]
  /\ clock' = [clock EXCEPT ![s] = now + Life]
  /\ Goto(s, "insert")
  /\ UNCHANGED <<users, docs, wire, now, handed, login, password, token, faults,
                 sure, mustPass>>

\* A 401: no such row, or an error, which LoginUser turns into "no".
Reject(s) ==
  /\ At(s, "verify")
  /\ \/ ~Matches(s) /\ UNCHANGED faults
     \/ Fault
  /\ Finish(s)
  /\ UNCHANGED <<storeVars, now>>

\* Mutant: created_at in place of expires_at.
DocumentOfAge(s) == [id |-> token[s], login |-> login[s], created_at |-> now]

Document(s) == [id |-> token[s], login |-> login[s], expires_at |-> clock[s]]

InsertToken(s) ==
  /\ At(s, "insert")
  /\ docs' = docs \cup {Document(s)}
  /\ sure' = sure \cup {token[s]}
  /\ Goto(s, "answer")
  /\ UNCHANGED <<users, wire, now, handed, login, password, token, clock, faults,
                 issued, mustPass>>

\* InsertAuthToken swallows the error: the client is handed the token all the
\* same, and the document may still come into being.
InsertTokenFails(s) ==
  /\ At(s, "insert")
  /\ Fault
  /\ wire' = wire \cup {Document(s)}
  /\ Goto(s, "answer")
  /\ UNCHANGED <<users, docs, now, handed, login, password, token, clock, issued,
                 sure, mustPass>>

Answer(s) ==
  /\ At(s, "answer")
  /\ handed' = handed \cup {token[s]}
  /\ Finish(s)
  /\ UNCHANGED <<users, docs, wire, now, faults, issued, sure>>

\* Mutant: the server sets expires_at when the document gets there.
LateInsertStamped(d) ==
  /\ docs' = docs \cup {[d EXCEPT !.expires_at = now + Life]}
  /\ wire' = wire \ {d}
  /\ UNCHANGED <<users, now, handed, slotVars, faults, issued, sure, mustPass>>

LateInsert(d) ==
  /\ docs' = docs \cup {d}
  /\ wire' = wire \ {d}
  /\ UNCHANGED <<users, now, handed, slotVars, faults, issued, sure, mustPass>>

LateLost(d) ==
  /\ wire' = wire \ {d}
  /\ UNCHANGED <<users, docs, now, handed, slotVars, faults, issued, sure, mustPass>>

-----------------------------------------------------------------------------
(* AuthMiddleware *)

\* GetLoginByToken reads the clock before it calls MongoDB.
StartRequest(s, t) ==
  /\ At(s, "idle")
  /\ Goto(s, "find")
  /\ token' = [token EXCEPT ![s] = t]
  /\ clock' = [clock EXCEPT ![s] = now]
  /\ mustPass' = IF t \in sure /\ now < issued[t].at + Life
                 THEN mustPass \cup {s} ELSE mustPass
  /\ UNCHANGED <<storeVars, now, login, password, faults>>

\* Mutants: the filter lacks _id; or MongoDB's clock decides, at the look-up.
AnyToken(s, d) == d.expires_at > clock[s]

AgeAtLookup(s, d) == d.id = token[s] /\ d.expires_at > now

\* The filter of FindOne.
Filter(s, d) == d.id = token[s] /\ d.expires_at > clock[s]

\* The login goes into the request's context, and the handler runs.
FindToken(s) ==
  /\ At(s, "find")
  /\ \E d \in docs : Filter(s, d) /\ login' = [login EXCEPT ![s] = d.login]
  /\ sure' = sure \cup ({token[s]} \ {Forged})
  /\ Goto(s, "serve")
  /\ UNCHANGED <<users, docs, wire, now, handed, password, token, clock, faults,
                 issued, mustPass>>

\* A 401: there is no such document, or an error, which counts as none.
NoToken(s) ==
  /\ At(s, "find")
  /\ \A d \in docs : ~Filter(s, d)
  /\ Goto(s, "refused")
  /\ UNCHANGED <<storeVars, now, login, password, token, clock, faults, mustPass>>

FindTokenFails(s) ==
  /\ At(s, "find")
  /\ Fault
  /\ Goto(s, "refused")
  /\ mustPass' = mustPass \ {s}
  /\ UNCHANGED <<storeVars, now, login, password, token, clock>>

\* The handler behind the middleware has answered, or the 401 has gone out.
Leave(s) ==
  /\ pc[s] \in {"serve", "refused"}
  /\ Finish(s)
  /\ UNCHANGED <<storeVars, now, faults>>

-----------------------------------------------------------------------------

Tick ==
  /\ now < MaxTime
  /\ now' = now + 1
  /\ UNCHANGED <<storeVars, slotVars, faults, mustPass>>

\* The server process dies; an insert that was sent may still take effect.
Crash ==
  /\ Fault
  /\ \E sent \in SUBSET {s \in Slots : At(s, "insert")} :
       wire' = wire \cup {Document(s) : s \in sent}
  /\ pc' = [s \in Slots |-> "idle"]
  /\ login' = [s \in Slots |-> None]
  /\ password' = [s \in Slots |-> None]
  /\ token' = [s \in Slots |-> None]
  /\ clock' = [s \in Slots |-> 0]
  /\ mustPass' = {}
  /\ UNCHANGED <<users, docs, now, handed, issued, sure>>

Login(s) ==
  \/ Verify(s) \/ Reject(s) \/ InsertToken(s) \/ InsertTokenFails(s) \/ Answer(s)

Guard(s) == FindToken(s) \/ NoToken(s) \/ FindTokenFails(s) \/ Leave(s)

Next ==
  \/ \E l \in Logins, p \in Passwords :
       \/ Register(l, p)
       \/ \E s \in Slots, t \in Tokens : StartLogin(s, l, p, t)
  \/ \E s \in Slots : Login(s) \/ Guard(s)
  \/ \E s \in Slots, t \in handed \cup {Forged} : StartRequest(s, t)
  \/ \E d \in wire : LateInsert(d) \/ LateLost(d)
  \/ Tick
  \/ Crash

Spec == Init /\ [][Next]_vars

-----------------------------------------------------------------------------
(* Properties *)

Documents == [id : Tokens, login : Logins, expires_at : Nat]

\* The type invariant.
TypeOK ==
  /\ users \in [Logins -> Passwords \cup {None}]
  /\ docs \subseteq Documents
  /\ wire \subseteq Documents
  /\ now \in 0 .. MaxTime
  /\ handed \subseteq Tokens
  /\ pc \in [Slots -> PCs]
  /\ login \in [Slots -> Logins \cup {None}]
  /\ password \in [Slots -> Passwords \cup {None}]
  /\ token \in [Slots -> Tokens \cup {Forged, None}]
  /\ clock \in [Slots -> Nat]
  /\ faults \in 0 .. MaxFaults
  /\ issued \in [Tokens -> Checks \cup {None}]
  /\ sure \subseteq Tokens
  /\ mustPass \subseteq Slots

\* A request is let in as the user whose password came with the login that
\* drew its token, and as nobody else; never with a token nobody drew.
OnlyVerified ==
  \A s \in Slots : At(s, "serve") =>
    /\ token[s] \in Tokens
    /\ issued[token[s]] # None
    /\ issued[token[s]].login = login[s]
    /\ issued[token[s]].password = users[login[s]]

\* No request that arrives Life or more after the password was checked is let
\* in, however late the document of its token came into being.
ExpiresInTime ==
  \A s \in Slots : At(s, "serve") => clock[s] < issued[token[s]].at + Life

\* A token that was stored before it was handed out, or that was accepted once,
\* is not refused to a request that arrives within Life of the password check,
\* however long its look-up takes, unless that look-up fails.
GoodTokenPasses == \A s \in mustPass : ~At(s, "refused")

TokenMap == {<<d.id, d.login>> : d \in docs}

LetIn == [s \in Slots |-> IF At(s, "serve") THEN <<token[s], login[s]>> ELSE None]

Storage == INSTANCE SessionStorage
             WITH Callers <- Slots, tokens <- TokenMap, reply <- LetIn

\* With clock, failures and late inserts taken away, what remains is a map of
\* tokens: one is added by a login with the right password and stays, and a
\* request is let in by what the map says at one moment while it waits.
ImplementsStorage == Storage!Spec

-----------------------------------------------------------------------------
(* The inductive invariant: what SessionsProofs shows of every state *)

\* Every document says what was checked when its token was drawn.
DocumentsAreIssued ==
  \A d \in docs \cup wire :
    /\ issued[d.id] # None
    /\ d.login = issued[d.id].login
    /\ d.expires_at = issued[d.id].at + Life

\* What was checked is the row.
IssuedIsRow ==
  \A t \in Tokens : issued[t] # None =>
    /\ users[issued[t].login] = issued[t].password
    /\ issued[t].at <= now

LoggingIn(s) == pc[s] \in {"verify", "insert", "answer"}

\* A login under way has a token to itself, which is new until the check.
OwnToken ==
  \A s \in Slots : LoggingIn(s) =>
    /\ token[s] \in Tokens
    /\ login[s] \in Logins
    /\ password[s] \in Passwords
    /\ token[s] \notin handed
    /\ \A other \in Slots \ {s} : token[other] # token[s]
    /\ At(s, "verify") => issued[token[s]] = None
    /\ pc[s] \in {"insert", "answer"} =>
         /\ issued[token[s]] # None
         /\ issued[token[s]].login = login[s]
         /\ clock[s] = issued[token[s]].at + Life
    /\ At(s, "insert") => \A d \in docs \cup wire : d.id # token[s]

\* A request carries a token that has been handed out, or a forged one.
CarriedIsHanded ==
  /\ \A s \in Slots : pc[s] \in {"find", "serve", "refused"} =>
                        token[s] \in handed \cup {Forged}
  /\ \A t \in handed : issued[t] # None

\* A sure token has its document.
SureIsStored == \A t \in sure : \E d \in docs : d.id = t

\* Of a token at most one document exists or is under way.
OneDocument ==
  /\ docs \cap wire = {}
  /\ \A d, e \in docs \cup wire : d.id = e.id => d = e

\* A request that must pass arrived in time with a sure token.
PassersAreSure ==
  \A s \in mustPass :
    /\ pc[s] \in {"find", "serve"}
    /\ token[s] \in sure
    /\ clock[s] < issued[token[s]].at + Life

IInv ==
  /\ TypeOK
  /\ DocumentsAreIssued
  /\ IssuedIsRow
  /\ OwnToken
  /\ CarriedIsHanded
  /\ SureIsStored
  /\ OneDocument
  /\ PassersAreSure
  /\ OnlyVerified
  /\ ExpiresInTime
=============================================================================
