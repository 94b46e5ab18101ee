----------------------------- MODULE RateLimiter -----------------------------
(* RateLimiterComponent: the fixed-window counter in front of POST /v1/login. *)
(* Each client address has one Redis key; a Lua script, atomic in Redis,      *)
(* counts a request and says whether it is allowed.                           *)
(*                                                                            *)
(* Time is a count of ticks of one second.  The script's answers are the same *)
(* for every count above Limit, so count stops at Limit + 1.                  *)
EXTENDS Integers

CONSTANTS Clients,    \* client addresses
          Requests,   \* requests that can be in flight, or just answered
          Limit,      \* kLoginRateLimit
          Window,     \* kLoginRateWindow, in ticks
          None,       \* no client: a request slot not in use
          MaxFaults   \* bound on the number of failed calls

ASSUME LimitAssumption == Limit \in Nat \ {0}
ASSUME WindowAssumption == Window \in Nat \ {0}
ASSUME NoneAssumption == None \notin Clients
ASSUME MaxFaultsAssumption == MaxFaults \in Nat

VARIABLES
  count,    \* the value of each client's key; 0 if there is no key
  ttl,      \* ticks until the key expires; 0 if it has no expiry
  late,     \* scripts whose caller has given up, by client
  pc,       \* "idle", "sent" (script under way) or "answered"
  client,   \* the address of each request
  reply,    \* the RateLimitResult of each request
  faults

(* History, which the code does not read. *)
VARIABLES
  live,     \* requests answered by the script from a key that still exists
  since,    \* ticks since each such answer
  recent    \* recent[c][i]: ticks since the i-th last request of c that the
            \* script allowed; Window if that many, or more, or none

redisVars == <<count, ttl, recent>>
vars == <<count, ttl, late, pc, client, reply, faults, live, since, recent>>

\* How far back the history goes: as many requests as two windows allow.
Depth == 1 .. 2 * Limit

\* The result Check starts from, and keeps when Redis fails: fail-open.
DefaultReply == [allowed |-> TRUE, current |-> 0, reset |-> Window]

Init ==
  /\ count = [c \in Clients |-> 0]
  /\ ttl = [c \in Clients |-> 0]
  /\ late = [c \in Clients |-> 0]
  /\ pc = [r \in Requests |-> "idle"]
  /\ client = [r \in Requests |-> None]
  /\ reply = [r \in Requests |-> DefaultReply]
  /\ faults = 0
  /\ live = {}
  /\ since = [r \in Requests |-> 0]
  /\ recent = [c \in Clients |-> [i \in Depth |-> Window]]

-----------------------------------------------------------------------------
(* The script *)

\* Mutant: SETNX in place of INCR.
SetOnce(c) == IF count[c] = 0 THEN 1 ELSE count[c]

\* INCR.
Incremented(c) == IF count[c] > Limit THEN count[c] ELSE count[c] + 1

\* Mutant: the limit is compared with the count before INCR.
AllowsOneMore(c) == count[c] <= Limit

\* "if current > limit then 0 else 1".
Allows(c) == Incremented(c) <= Limit

\* Mutants: PEXPIRE's unit; EXPIRE on the second request; EXPIRE on every one.
ExpiryInMilliseconds(c) ==
  IF Incremented(c) = 1 THEN 1000 * Window ELSE ttl[c]

ExpiryOfSecond(c) == IF count[c] = 1 THEN Window ELSE ttl[c]

ExpiryRenewed(c) == IF Incremented(c) > 0 THEN Window ELSE ttl[c]

\* EXPIRE, for the request that creates the key only.
Expiry(c) == IF Incremented(c) = 1 THEN Window ELSE ttl[c]

\* TTL: seconds are rounded to the nearest, so a key in its last half second
\* reports 0.  A key without expiry reports -1, and the script then Window.
ReportedTtl(c) ==
  CASE Incremented(c) = 1 -> {Window}
    [] Incremented(c) # 1 /\ ttl[c] = 0 -> {Window}
    [] Incremented(c) # 1 /\ ttl[c] # 0 -> {ttl[c] - 1, ttl[c]}

\* One more request of c is allowed.
Allowed(c) == [i \in Depth |-> IF i = 1 THEN 0 ELSE recent[c][i - 1]]

Script(c) ==
  /\ count' = [count EXCEPT ![c] = Incremented(c)]
  /\ ttl' = [ttl EXCEPT ![c] = Expiry(c)]
  /\ recent' = IF Allows(c) THEN [recent EXCEPT ![c] = Allowed(c)] ELSE recent

-----------------------------------------------------------------------------
(* RateLimiterComponent::Check *)

\* A request comes in and Check sends the script.
Arrive(r, c) ==
  /\ pc[r] = "idle"
  /\ pc' = [pc EXCEPT ![r] = "sent"]
  /\ client' = [client EXCEPT ![r] = c]
  /\ UNCHANGED <<redisVars, late, reply, faults, live, since>>

Answer(r, result) ==
  /\ pc' = [pc EXCEPT ![r] = "answered"]
  /\ reply' = [reply EXCEPT ![r] = result]
  /\ UNCHANGED client

\* The script runs and its array of three comes back.
Eval(r) ==
  /\ pc[r] = "sent"
  /\ \E t \in ReportedTtl(client[r]) :
       Answer(r, [allowed |-> Allows(client[r]),
                  current |-> Incremented(client[r]),
                  reset   |-> t])
  /\ Script(client[r])
  /\ live' = live \cup {r}
  /\ since' = [since EXCEPT ![r] = 0]
  /\ UNCHANGED <<late, faults>>

\* Redis fails or times out: the request is allowed, and the script, if it was
\* sent, may still run (or have run) without its caller.
EvalFails(r) ==
  /\ pc[r] = "sent"
  /\ faults < MaxFaults
  /\ faults' = faults + 1
  /\ Answer(r, DefaultReply)
  /\ late' = [late EXCEPT ![client[r]] = @ + 1]
  /\ UNCHANGED <<redisVars, live, since>>

LateEval(c) ==
  /\ late[c] > 0
  /\ late' = [late EXCEPT ![c] = @ - 1]
  /\ Script(c)
  /\ UNCHANGED <<pc, client, reply, faults, live, since>>

LateDrop(c) ==
  /\ late[c] > 0
  /\ late' = [late EXCEPT ![c] = @ - 1]
  /\ UNCHANGED <<redisVars, pc, client, reply, faults, live, since>>

\* The response has been used; the slot is free for another request.
Leave(r) ==
  /\ pc[r] = "answered"
  /\ pc' = [pc EXCEPT ![r] = "idle"]
  /\ client' = [client EXCEPT ![r] = None]
  /\ reply' = [reply EXCEPT ![r] = DefaultReply]
  /\ live' = live \ {r}
  /\ since' = [since EXCEPT ![r] = 0]
  /\ UNCHANGED <<redisVars, late, faults>>

\* One second passes; keys whose time is over disappear.
Tick ==
  /\ ttl' = [c \in Clients |-> IF ttl[c] = 0 THEN 0 ELSE ttl[c] - 1]
  /\ count' = [c \in Clients |-> IF ttl[c] = 1 THEN 0 ELSE count[c]]
  /\ recent' = [c \in Clients |->
                  [i \in Depth |-> IF recent[c][i] = Window THEN Window
                                   ELSE recent[c][i] + 1]]
  /\ live' = {r \in live : ttl[client[r]] # 1}
  /\ since' = [r \in Requests |-> IF r \in live' THEN since[r] + 1 ELSE 0]
  /\ UNCHANGED <<late, pc, client, reply, faults>>

Next ==
  \/ \E r \in Requests, c \in Clients : Arrive(r, c)
  \/ \E r \in Requests : Eval(r) \/ EvalFails(r) \/ Leave(r)
  \/ \E c \in Clients : LateEval(c) \/ LateDrop(c)
  \/ Tick

Spec == Init /\ [][Next]_vars

\* Time passes.  Nothing is assumed of the clients.
FairSpec == Spec /\ WF_vars(Tick)

-----------------------------------------------------------------------------
(* SetRateLimitHeaders *)

Remaining(r) == IF reply[r].current > Limit THEN 0 ELSE Limit - reply[r].current

-----------------------------------------------------------------------------
(* Properties *)

\* The type invariant.
TypeOK ==
  /\ count \in [Clients -> 0 .. Limit + 1]
  /\ ttl \in [Clients -> 0 .. Window]
  /\ late \in [Clients -> Nat]
  /\ pc \in [Requests -> {"idle", "sent", "answered"}]
  /\ client \in [Requests -> Clients \cup {None}]
  /\ \A r \in Requests : client[r] = None <=> pc[r] = "idle"
  /\ reply \in [Requests -> [allowed : BOOLEAN, current : 0 .. Limit + 1,
                             reset : 0 .. Window]]
  /\ faults \in 0 .. MaxFaults
  /\ live \subseteq {r \in Requests : pc[r] = "answered"}
  /\ since \in [Requests -> Nat]
  /\ recent \in [Clients -> [Depth -> 0 .. Window]]

\* A key never exists without an expiry, whichever request creates it and
\* whoever waits for the answer: no client is locked out for good, and the
\* script's branch for a negative TTL is never taken.
KeyAlwaysExpires == \A c \in Clients : count[c] > 0 <=> ttl[c] > 0

\* Whoever is refused with X-RateLimit-Reset: t finds the window that refused
\* it over t + 1 seconds later at most (TTL rounds), however many requests
\* arrive in the meantime.
RefusalEnds ==
  \A r \in live :
    ~reply[r].allowed => ttl[client[r]] + since[r] <= reply[r].reset + 1

\* In one window no two requests are allowed under the same number, and
\* X-RateLimit-Remaining never promises less than what is left: the counter
\* has no races (rate_limiter.hpp:25-26).
NumberedOnce ==
  \A r \in live :
    /\ Limit - count[client[r]] <= Remaining(r)
    /\ \A q \in live \ {r} :
         client[q] = client[r] /\ reply[q].allowed /\ reply[r].allowed
           => reply[q].current # reply[r].current

\* Any Window seconds overlap at most two windows of the counter, and the
\* request that opens the first is outside: the script allows fewer than twice
\* the limit, and of the last 2 * Limit requests it allowed the first is Window
\* seconds old.
SlidingBound == \A c \in Clients : recent[c][2 * Limit] = Window

\* A client over the limit is let in again in the end, even if it never stops
\* sending requests.
NoLockout == \A c \in Clients : count[c] > Limit ~> count[c] = 0

-----------------------------------------------------------------------------
(* Invariants that support the ones above: see RateLimiterProofs *)

\* The key that numbered a live request is there.
LiveHasKey == \A r \in live : count[client[r]] > 0

\* The number of an answer that the script gave.
LiveNumbers ==
  \A r \in live :
    /\ reply[r].current \in 1 .. count[client[r]]
    /\ reply[r].allowed => reply[r].current <= Limit

\* The history is in the order of the requests.
InOrder ==
  \A c \in Clients : \A i, j \in Depth : i <= j => recent[c][i] <= recent[c][j]

\* The requests that the script has allowed in the window of c.
InWindow(c) == IF count[c] > Limit THEN Limit ELSE count[c]

\* The first of them is as old as the window.
OpenerIsOldest ==
  \A c \in Clients :
    count[c] > 0 => recent[c][InWindow(c)] >= Window - ttl[c]

\* Of the windows before, at most Limit - 1 requests can still be less than
\* Window seconds old.
EarlierWindows ==
  \A c \in Clients : recent[c][InWindow(c) + Limit] = Window

IInv ==
  /\ TypeOK
  /\ KeyAlwaysExpires
  /\ LiveHasKey
  /\ LiveNumbers
  /\ RefusalEnds
  /\ NumberedOnce
  /\ InOrder
  /\ OpenerIsOldest
  /\ EarlierWindows

-----------------------------------------------------------------------------
(* What the documents say, and the code does not keep *)

\* performance_design.md:284: "limited to 10 attempts a minute per IP".
LimitPerMinute == \A c \in Clients : recent[c][Limit + 1] = Window
=============================================================================
