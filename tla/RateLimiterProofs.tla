------------------------- MODULE RateLimiterProofs -------------------------
(* The safety of RateLimiter for every limit, window and set of clients and   *)
(* requests.                                                                  *)
(*                                                                            *)
(* RefusalEnds and NumberedOnce speak of answers given while a key lives;     *)
(* they are inductive together with what such an answer says of its key:      *)
(* the key is there (LiveHasKey), has an expiry (KeyAlwaysExpires) and has    *)
(* counted the answered request (LiveNumbers).                                *)
(*                                                                            *)
(* SlidingBound speaks of any Window ticks, the script only of the window of  *)
(* its key.  The history is in order (InOrder), and the window under way has  *)
(* allowed InWindow(c) requests, of which the first is as old as the window   *)
(* (OpenerIsOldest): when the window ends they are all behind one that is     *)
(* Window ticks old.  So at most Limit - 1 of the windows before are less     *)
(* than that (EarlierWindows), and Limit of this one.                         *)
EXTENDS RateLimiter, TLAPS

\* The assumptions of RateLimiter in one formula.
ConstantsOK ==
  /\ Limit \in Nat \ {0}
  /\ Window \in Nat \ {0}
  /\ None \notin Clients
  /\ MaxFaults \in Nat

\* They hold.
LEMMA Constants == ConstantsOK
  BY LimitAssumption, WindowAssumption, NoneAssumption, MaxFaultsAssumption
  DEF ConstantsOK

\* The initial state satisfies the inductive invariant.
LEMMA InitInv == Init => IInv
  BY Constants
  DEF Init, DefaultReply, Depth, IInv, TypeOK, KeyAlwaysExpires, LiveHasKey,
      LiveNumbers, RefusalEnds, NumberedOnce, InOrder, OpenerIsOldest, InWindow,
      EarlierWindows, ConstantsOK

-----------------------------------------------------------------------------
(* Type correctness *)

\* What the script computes is in range, the header's seconds included.
LEMMA ScriptType ==
  ASSUME TypeOK, NEW c \in Clients
  PROVE  /\ Incremented(c) \in 1 .. Limit + 1
         /\ Allows(c) \in BOOLEAN
         /\ Expiry(c) \in 0 .. Window
         /\ ReportedTtl(c) \subseteq 0 .. Window
  BY Constants DEF TypeOK, Incremented, Allows, Expiry, ReportedTtl, ConstantsOK

\* The script leaves its key well typed.
LEMMA ScriptKeepsType ==
  ASSUME TypeOK, NEW c \in Clients, Script(c)
  PROVE  /\ count' \in [Clients -> 0 .. Limit + 1]
         /\ ttl' \in [Clients -> 0 .. Window]
         /\ recent' \in [Clients -> [Depth -> 0 .. Window]]
<1>1. Allowed(c) \in [Depth -> 0 .. Window]
  <2>1. \A i \in Depth :
          (IF i = 1 THEN 0 ELSE recent[c][i - 1]) \in 0 .. Window
    <3>1. \A i \in Depth : i # 1 => i - 1 \in Depth
      BY Constants DEF Depth, ConstantsOK
    <3>2. 0 \in 0 .. Window
      BY Constants DEF ConstantsOK
    <3> QED
      BY <3>1, <3>2 DEF TypeOK
  <2> QED
    BY <2>1 DEF Allowed
<1>2. count' \in [Clients -> 0 .. Limit + 1] /\ ttl' \in [Clients -> 0 .. Window]
  BY ScriptType, Constants DEF TypeOK, Script, ConstantsOK
<1>3. recent' \in [Clients -> [Depth -> 0 .. Window]]
  BY <1>1 DEF TypeOK, Script
<1> QED
  BY <1>2, <1>3

\* No step breaks the type invariant.
LEMMA NextType == TypeOK /\ [Next]_vars => TypeOK'
<1> SUFFICES ASSUME TypeOK, [Next]_vars PROVE TypeOK'
  OBVIOUS
<1> USE Constants DEF ConstantsOK
<1>1. ASSUME NEW r \in Requests, NEW c \in Clients, Arrive(r, c) PROVE TypeOK'
  BY <1>1 DEF TypeOK, Arrive, redisVars
<1>2. ASSUME NEW r \in Requests, Eval(r) PROVE TypeOK'
  <2>1. client[r] \in Clients
    BY <1>2 DEF Eval, TypeOK
  <2>2. PICK t \in ReportedTtl(client[r]) :
          Answer(r, [allowed |-> Allows(client[r]),
                     current |-> Incremented(client[r]), reset |-> t])
    BY <1>2 DEF Eval
  <2>3. [allowed |-> Allows(client[r]), current |-> Incremented(client[r]),
         reset |-> t]
          \in [allowed : BOOLEAN, current : 0 .. Limit + 1, reset : 0 .. Window]
    BY <2>1, ScriptType
  <2>4. Script(client[r]) /\ UNCHANGED <<late, faults>>
    BY <1>2 DEF Eval
  <2> QED
    BY <1>2, <2>1, <2>2, <2>3, <2>4, ScriptKeepsType
    DEF TypeOK, Eval, Answer
<1>3. ASSUME NEW r \in Requests, EvalFails(r) PROVE TypeOK'
  BY <1>3 DEF TypeOK, EvalFails, Answer, DefaultReply, redisVars
<1>4. ASSUME NEW c \in Clients, LateEval(c) PROVE TypeOK'
  BY <1>4, ScriptKeepsType DEF TypeOK, LateEval
<1>5. ASSUME NEW c \in Clients, LateDrop(c) PROVE TypeOK'
  BY <1>5 DEF TypeOK, LateDrop, redisVars
<1>6. ASSUME NEW r \in Requests, Leave(r) PROVE TypeOK'
  BY <1>6 DEF TypeOK, Leave, DefaultReply, redisVars
<1>7. CASE Tick
  <2>1. \A c \in Clients, i \in Depth :
          (IF recent[c][i] = Window THEN Window ELSE recent[c][i] + 1)
            \in 0 .. Window
    <3> TAKE c \in Clients, i \in Depth
    <3>1. recent[c][i] \in 0 .. Window
      BY DEF TypeOK
    <3> QED
      BY <3>1
  <2>2. recent' \in [Clients -> [Depth -> 0 .. Window]]
    BY <1>7, <2>1 DEF Tick
  <2>3. ttl' \in [Clients -> 0 .. Window]
    <3>1. \A c \in Clients :
            (IF ttl[c] = 0 THEN 0 ELSE ttl[c] - 1) \in 0 .. Window
      <4> TAKE c \in Clients
      <4>1. ttl[c] \in 0 .. Window
        BY DEF TypeOK
      <4> QED
        BY <4>1
    <3> QED
      BY <1>7, <3>1 DEF Tick
  <2>5. count' \in [Clients -> 0 .. Limit + 1]
    <3>1. \A c \in Clients :
            (IF ttl[c] = 1 THEN 0 ELSE count[c]) \in 0 .. Limit + 1
      BY DEF TypeOK
    <3> QED
      BY <1>7, <3>1 DEF Tick
  <2>4. live' \subseteq live /\ since' \in [Requests -> Nat]
    BY <1>7 DEF TypeOK, Tick
  <2> QED
    BY <1>7, <2>2, <2>3, <2>4, <2>5 DEF TypeOK, Tick
<1>8. CASE UNCHANGED vars
  BY <1>8 DEF TypeOK, vars
<1> QED
  BY <1>1, <1>2, <1>3, <1>4, <1>5, <1>6, <1>7, <1>8 DEF Next

\* Every reachable state is well typed.
THEOREM TypeCorrect == Spec => []TypeOK
<1>1. Init => TypeOK
  BY InitInv DEF IInv
<1> QED
  BY <1>1, NextType, PTL DEF Spec

-----------------------------------------------------------------------------
(* The inductive invariant *)

\* The conjuncts of IInv that type correctness does not cover.
Safety ==
  /\ KeyAlwaysExpires
  /\ LiveHasKey
  /\ LiveNumbers
  /\ RefusalEnds
  /\ NumberedOnce

\* What the script does to its key, as numbers.
LEMMA ScriptFacts ==
  ASSUME TypeOK, NEW c \in Clients, Script(c)
  PROVE  /\ count[c] \in Nat /\ ttl[c] \in Nat
         /\ count'[c] = Incremented(c)
         /\ ttl'[c] = Expiry(c)
         /\ \A d \in Clients \ {c} : count'[d] = count[d] /\ ttl'[d] = ttl[d]
         /\ count[c] <= Incremented(c)
         /\ Incremented(c) \in Nat \ {0}
         /\ Allows(c) <=> count[c] < Limit
         /\ Allows(c) => Incremented(c) = count[c] + 1
         /\ count[c] = 0 => Expiry(c) = Window
         /\ count[c] # 0 => Expiry(c) = ttl[c]
<1>1. count[c] \in 0 .. Limit + 1 /\ ttl[c] \in 0 .. Window
  BY DEF TypeOK
<1>2. count[c] \in Nat /\ ttl[c] \in Nat /\ Limit \in Nat \ {0}
  BY <1>1, Constants DEF ConstantsOK
<1>3. /\ count'[c] = Incremented(c)
      /\ ttl'[c] = Expiry(c)
      /\ \A d \in Clients \ {c} : count'[d] = count[d] /\ ttl'[d] = ttl[d]
  BY DEF TypeOK, Script
<1>4. count[c] <= Incremented(c) /\ Incremented(c) \in Nat \ {0}
  BY <1>2 DEF Incremented
<1>5. /\ Allows(c) <=> count[c] < Limit
      /\ Allows(c) => Incremented(c) = count[c] + 1
  BY <1>2 DEF Incremented, Allows
<1>6. Incremented(c) = 1 <=> count[c] = 0
  BY <1>2 DEF Incremented
<1> QED
  BY <1>2, <1>3, <1>4, <1>5, <1>6 DEF Expiry

\* What is known of a live request, as numbers.
LEMMA LiveFacts ==
  ASSUME IInv, NEW q \in live
  PROVE  /\ q \in Requests
         /\ client[q] \in Clients
         /\ reply[q].current \in Nat \ {0}
         /\ reply[q].current <= count[client[q]]
         /\ reply[q].allowed => reply[q].current <= Limit
         /\ reply[q].reset \in Nat
         /\ since[q] \in Nat
         /\ count[client[q]] \in Nat \ {0}
         /\ ttl[client[q]] \in Nat \ {0}
<1>1. q \in Requests /\ pc[q] = "answered" /\ client[q] \in Clients
  BY DEF IInv, TypeOK
<1>2. reply[q] \in [allowed : BOOLEAN, current : 0 .. Limit + 1, reset : 0 .. Window]
  BY <1>1 DEF IInv, TypeOK
<1>3. reply[q].reset \in Nat /\ since[q] \in Nat
  BY <1>1, <1>2, Constants DEF IInv, TypeOK, ConstantsOK
<1>4. /\ count[client[q]] \in 0 .. Limit + 1 /\ count[client[q]] > 0
      /\ ttl[client[q]] \in 0 .. Window /\ ttl[client[q]] > 0
  BY <1>1 DEF IInv, TypeOK, LiveHasKey, KeyAlwaysExpires
<1>5. /\ reply[q].current \in 1 .. count[client[q]]
      /\ reply[q].allowed => reply[q].current <= Limit
  BY DEF IInv, LiveNumbers
<1> QED
  BY <1>1, <1>3, <1>4, <1>5, Constants DEF ConstantsOK

\* The script numbers a request: the one step that the counter is about.
LEMMA EvalSafety ==
  ASSUME IInv, NEW r \in Requests, Eval(r) PROVE Safety'
<1> DEFINE c == client[r]
<1>1. TypeOK /\ c \in Clients /\ Script(c) /\ r \notin live
  BY DEF IInv, TypeOK, Eval
<1>2. PICK t \in ReportedTtl(c) :
        Answer(r, [allowed |-> Allows(c), current |-> Incremented(c),
                   reset |-> t])
  BY DEF Eval
<1>3. /\ reply'[r] = [allowed |-> Allows(c), current |-> Incremented(c),
                      reset |-> t]
      /\ since'[r] = 0
      /\ live' = live \cup {r}
      /\ client' = client
      /\ \A q \in live : reply'[q] = reply[q] /\ since'[q] = since[q]
  BY <1>1, <1>2 DEF Eval, Answer, IInv, TypeOK
<1>4. /\ count[c] \in Nat /\ ttl[c] \in Nat
      /\ count'[c] = Incremented(c)
      /\ ttl'[c] = Expiry(c)
      /\ \A d \in Clients \ {c} : count'[d] = count[d] /\ ttl'[d] = ttl[d]
      /\ count[c] <= Incremented(c)
      /\ Incremented(c) \in Nat \ {0}
      /\ Allows(c) <=> count[c] < Limit
      /\ Allows(c) => Incremented(c) = count[c] + 1
      /\ count[c] = 0 => Expiry(c) = Window
      /\ count[c] # 0 => Expiry(c) = ttl[c]
  BY <1>1, ScriptFacts
<1>5. Limit \in Nat \ {0} /\ Window \in Nat \ {0}
  BY Constants DEF ConstantsOK
<1>6. ASSUME NEW q \in live
      PROVE  /\ client[q] \in Clients
             /\ count'[client[q]] \in Nat \ {0}
             /\ count'[client[q]] >= count[client[q]]
             /\ ttl'[client[q]] = ttl[client[q]]
  BY <1>4, LiveFacts
<1>7. KeyAlwaysExpires'
  BY <1>1, <1>4, <1>5 DEF IInv, KeyAlwaysExpires
<1>8. LiveHasKey'
  BY <1>3, <1>4, <1>6 DEF LiveHasKey
<1>9. LiveNumbers'
  <2>1. ASSUME NEW q \in live
        PROVE  /\ reply'[q].current \in 1 .. count'[client'[q]]
               /\ reply'[q].allowed => reply'[q].current <= Limit
    BY <1>3, <1>6, LiveFacts
  <2>2. /\ reply'[r].current \in 1 .. count'[client'[r]]
        /\ reply'[r].allowed => reply'[r].current <= Limit
    BY <1>3, <1>4, <1>5
  <2> QED
    BY <1>3, <2>1, <2>2 DEF LiveNumbers
<1>10. RefusalEnds'
  <2>1. ASSUME NEW q \in live, ~reply'[q].allowed
        PROVE  ttl'[client'[q]] + since'[q] <= reply'[q].reset + 1
    BY <1>3, <1>6, <2>1 DEF IInv, RefusalEnds
  <2>2. ttl'[c] <= t + 1 /\ t \in Nat
    <3>1. CASE count[c] = 0
      BY <1>4, <1>5, <3>1 DEF ReportedTtl, Incremented
    <3>2. CASE count[c] # 0
      <4>1. ttl[c] # 0
        BY <1>1, <1>4, <3>2 DEF IInv, KeyAlwaysExpires
      <4>2. Incremented(c) # 1
        BY <1>4, <1>5, <3>2 DEF Incremented
      <4>3. t \in {ttl[c] - 1, ttl[c]}
        BY <4>1, <4>2 DEF ReportedTtl
      <4> QED
        BY <1>4, <3>2, <4>1, <4>3
    <3> QED
      BY <3>1, <3>2
  <2>3. ttl'[client'[r]] + since'[r] <= reply'[r].reset + 1
    BY <1>1, <1>3, <1>4, <1>5, <2>2
  <2> QED
    BY <1>3, <2>1, <2>3 DEF RefusalEnds
<1>11. NumberedOnce'
  <2>1. ASSUME NEW q \in live
        PROVE  Limit - count'[client'[q]] <= Remaining(q)'
    BY <1>3, <1>5, <1>6, LiveFacts DEF Remaining
  <2>2. Limit - count'[client'[r]] <= Remaining(r)'
    BY <1>3, <1>4, <1>5 DEF Remaining
  <2>3. ASSUME NEW q \in live, client[q] = c, reply[q].allowed, Allows(c)
        PROVE  reply[q].current # Incremented(c)
    BY <1>4, <2>3, LiveFacts
  <2>4. ASSUME NEW q \in live, NEW p \in live \ {q}, client[p] = client[q],
               reply[p].allowed, reply[q].allowed
        PROVE  reply[p].current # reply[q].current
    BY <2>4 DEF IInv, NumberedOnce
  <2> QED
    BY <1>3, <2>1, <2>2, <2>3, <2>4 DEF NumberedOnce
<1> QED
  BY <1>7, <1>8, <1>9, <1>10, <1>11 DEF Safety

\* No other step breaks the invariant either.
LEMMA NextSafety == IInv /\ [Next]_vars => Safety'
<1> SUFFICES ASSUME IInv, [Next]_vars PROVE Safety'
  OBVIOUS
<1>t. TypeOK /\ Limit \in Nat \ {0} /\ Window \in Nat \ {0}
  BY Constants DEF IInv, ConstantsOK
<1>1. ASSUME NEW r \in Requests, Eval(r) PROVE Safety'
  BY <1>1, EvalSafety
\* A script without a caller counts, and answers nobody.
<1>2. ASSUME NEW c \in Clients, LateEval(c) PROVE Safety'
  <2>1. Script(c) /\ UNCHANGED <<client, reply, live, since>>
    BY <1>2 DEF LateEval
  <2>2. /\ \A d \in Clients \ {c} : count'[d] = count[d] /\ ttl'[d] = ttl[d]
        /\ count'[c] \in Nat \ {0} /\ ttl'[c] = Expiry(c)
        /\ count[c] <= count'[c]
        /\ count[c] = 0 => Expiry(c) = Window
        /\ count[c] # 0 => Expiry(c) = ttl[c]
    BY <1>t, <2>1, ScriptFacts
  <2>3. ASSUME NEW q \in live
        PROVE  /\ count'[client[q]] \in Nat \ {0}
               /\ count[client[q]] <= count'[client[q]]
               /\ ttl'[client[q]] = ttl[client[q]]
    BY <2>2, LiveFacts
  <2>4. KeyAlwaysExpires'
    BY <1>t, <2>2 DEF IInv, TypeOK, KeyAlwaysExpires
  <2>5. LiveHasKey' /\ RefusalEnds'
    BY <2>1, <2>3 DEF IInv, LiveHasKey, RefusalEnds
  <2>6. LiveNumbers'
    BY <2>1, <2>3, LiveFacts DEF LiveNumbers
  <2>7. NumberedOnce'
    <3>1. ASSUME NEW q \in live
          PROVE  Limit - count'[client[q]] <= Remaining(q)
      BY <1>t, <2>3, LiveFacts DEF Remaining
    <3> QED
      BY <2>1, <3>1 DEF IInv, NumberedOnce, Remaining
  <2> QED
    BY <2>4, <2>5, <2>6, <2>7 DEF Safety
\* A live answer whose key survives the tick is one second older, and its key
\* one second closer to its end.
<1>3. CASE Tick
  <2>1. /\ live' = {q \in live : ttl[client[q]] # 1}
        /\ UNCHANGED <<client, reply>>
    BY <1>3 DEF Tick
  <2>2. ASSUME NEW q \in live'
        PROVE  /\ q \in live
               /\ count'[client[q]] = count[client[q]]
               /\ ttl'[client[q]] = ttl[client[q]] - 1
               /\ since'[q] = since[q] + 1
    BY <1>3, <2>1, LiveFacts DEF Tick
  <2>3. KeyAlwaysExpires'
    <3>1. ASSUME NEW c \in Clients PROVE count'[c] > 0 <=> ttl'[c] > 0
      <4>1. count[c] \in Nat /\ ttl[c] \in Nat /\ (count[c] > 0 <=> ttl[c] > 0)
        BY <1>t DEF IInv, TypeOK, KeyAlwaysExpires
      <4>2. /\ ttl'[c] = (IF ttl[c] = 0 THEN 0 ELSE ttl[c] - 1)
            /\ count'[c] = (IF ttl[c] = 1 THEN 0 ELSE count[c])
        BY <1>3 DEF Tick
      <4> QED
        BY <4>1, <4>2
    <3> QED
      BY <3>1 DEF KeyAlwaysExpires
  <2>4. LiveHasKey' /\ LiveNumbers'
    BY <2>1, <2>2 DEF IInv, LiveHasKey, LiveNumbers
  <2>5. RefusalEnds'
    <3>1. ASSUME NEW q \in live', ~reply[q].allowed
          PROVE  ttl'[client[q]] + since'[q] <= reply[q].reset + 1
      <4>1. ttl[client[q]] + since[q] <= reply[q].reset + 1
        BY <2>2, <3>1 DEF IInv, RefusalEnds
      <4> QED
        BY <2>2, <4>1, LiveFacts
    <3> QED
      BY <2>1, <3>1 DEF RefusalEnds
  <2>6. NumberedOnce'
    BY <2>1, <2>2 DEF IInv, NumberedOnce, Remaining
  <2> QED
    BY <2>3, <2>4, <2>5, <2>6 DEF Safety
\* The other steps leave the keys alone and no live request but one that goes.
<1>4. ASSUME UNCHANGED <<count, ttl>>, live' \subseteq live,
             \A q \in live' : /\ client'[q] = client[q]
                              /\ reply'[q] = reply[q]
                              /\ since'[q] = since[q]
      PROVE  Safety'
  BY <1>4 DEF IInv, Safety, KeyAlwaysExpires, LiveHasKey, LiveNumbers,
              RefusalEnds, NumberedOnce, Remaining
<1>5. ASSUME NEW r \in Requests, NEW c \in Clients, Arrive(r, c) PROVE Safety'
  BY <1>4, <1>5, <1>t DEF Arrive, redisVars, TypeOK
<1>6. ASSUME NEW r \in Requests, EvalFails(r) PROVE Safety'
  BY <1>4, <1>6, <1>t DEF EvalFails, Answer, redisVars, TypeOK
<1>7. ASSUME NEW c \in Clients, LateDrop(c) PROVE Safety'
  BY <1>4, <1>7 DEF LateDrop, redisVars
<1>8. ASSUME NEW r \in Requests, Leave(r) PROVE Safety'
  BY <1>4, <1>8, <1>t DEF Leave, redisVars, TypeOK
<1>9. CASE UNCHANGED vars
  BY <1>4, <1>9 DEF vars
<1> QED
  BY <1>1, <1>2, <1>3, <1>5, <1>6, <1>7, <1>8, <1>9 DEF Next

-----------------------------------------------------------------------------
(* The history of a client *)

\* The conjuncts of IInv about the history.
History ==
  /\ InOrder
  /\ OpenerIsOldest
  /\ EarlierWindows

\* The history of one client, as numbers.
LEMMA HistoryFacts ==
  ASSUME TypeOK, NEW c \in Clients
  PROVE  /\ count[c] \in Nat /\ count[c] <= Limit + 1
         /\ ttl[c] \in Nat /\ ttl[c] <= Window
         /\ Limit \in Nat \ {0} /\ Window \in Nat \ {0}
         /\ InWindow(c) \in 0 .. Limit
         /\ Depth = 1 .. 2 * Limit
         /\ \A i \in Depth : recent[c][i] \in Nat /\ recent[c][i] <= Window
<1>1. count[c] \in 0 .. Limit + 1 /\ ttl[c] \in 0 .. Window
  BY DEF TypeOK
<1>2. Limit \in Nat \ {0} /\ Window \in Nat \ {0}
  BY Constants DEF ConstantsOK
<1>3. InWindow(c) \in 0 .. Limit
  BY <1>1, <1>2 DEF InWindow
<1>4. ASSUME NEW i \in Depth PROVE recent[c][i] \in 0 .. Window
  BY DEF TypeOK
<1> QED
  BY <1>1, <1>2, <1>3, <1>4 DEF Depth

\* The script allows a request, or leaves the history alone.
LEMMA ScriptHistory ==
  ASSUME IInv, NEW c \in Clients, Script(c) PROVE History'
<1>t. TypeOK /\ InOrder /\ OpenerIsOldest /\ EarlierWindows
  BY DEF IInv
<1>1. /\ Limit \in Nat \ {0} /\ Window \in Nat \ {0}
      /\ Depth = 1 .. 2 * Limit
  BY <1>t, HistoryFacts
<1>2. ASSUME NEW d \in Clients \ {c}
      PROVE  /\ count'[d] = count[d] /\ ttl'[d] = ttl[d]
             /\ recent'[d] = recent[d] /\ InWindow(d)' = InWindow(d)
  <2>1. count'[d] = count[d] /\ ttl'[d] = ttl[d]
    BY <1>t, ScriptFacts
  <2>2. recent'[d] = recent[d]
    BY <1>t DEF Script, TypeOK
  <2> QED
    BY <2>1, <2>2 DEF InWindow
<1>3. /\ count[c] \in Nat /\ ttl[c] \in Nat
      /\ count'[c] = Incremented(c) /\ ttl'[c] = Expiry(c)
      /\ count[c] <= Incremented(c) /\ Incremented(c) \in Nat \ {0}
      /\ Allows(c) <=> count[c] < Limit
      /\ Allows(c) => Incremented(c) = count[c] + 1
      /\ count[c] = 0 => Expiry(c) = Window
      /\ count[c] # 0 => Expiry(c) = ttl[c]
  BY <1>t, ScriptFacts
<1>4. ASSUME NEW i \in Depth
      PROVE  recent[c][i] \in Nat /\ recent[c][i] <= Window
  BY <1>t, HistoryFacts
\* What the script leaves of the key it is run on.
<1>5. /\ \A i, j \in Depth : i <= j => recent'[c][i] <= recent'[c][j]
      /\ recent'[c][InWindow(c)'] >= Window - ttl'[c]
      /\ recent'[c][InWindow(c)' + Limit] = Window
  <2>1. CASE Allows(c)
    <3>1. \A i \in Depth :
            recent'[c][i] = IF i = 1 THEN 0 ELSE recent[c][i - 1]
      BY <1>t, <2>1 DEF Script, Allowed, TypeOK
    <3>2. InWindow(c) = count[c] /\ InWindow(c)' = count[c] + 1
      BY <1>1, <1>3, <2>1 DEF InWindow
    <3>3. ASSUME NEW i \in Depth, NEW j \in Depth, i <= j
          PROVE  recent'[c][i] <= recent'[c][j]
      <4>1. CASE i = 1
        <5>1. j # 1 => j - 1 \in Depth
          BY <1>1
        <5> QED
          BY <1>4, <3>1, <4>1, <5>1
      <4>2. CASE i # 1
        <5>1. i - 1 \in Depth /\ j - 1 \in Depth /\ j # 1 /\ i - 1 <= j - 1
          BY <1>1, <3>3, <4>2
        <5> QED
          BY <1>t, <3>1, <4>2, <5>1 DEF InOrder
      <4> QED
        BY <4>1, <4>2
    <3>4. recent'[c][InWindow(c)'] >= Window - ttl'[c]
      <4>1. InWindow(c)' \in Depth
        BY <1>1, <1>3, <2>1, <3>2
      <4>2. CASE count[c] = 0
        BY <1>1, <1>3, <3>1, <3>2, <4>1, <4>2
      <4>3. CASE count[c] # 0
        <5>1. recent'[c][InWindow(c)'] = recent[c][InWindow(c)]
          BY <1>3, <3>1, <3>2, <4>1, <4>3
        <5>2. recent[c][InWindow(c)] >= Window - ttl[c]
          BY <1>t, <1>3, <4>3 DEF OpenerIsOldest
        <5> QED
          BY <1>3, <4>3, <5>1, <5>2
      <4> QED
        BY <4>2, <4>3
    <3>5. recent'[c][InWindow(c)' + Limit] = Window
      <4>1. /\ InWindow(c)' + Limit \in Depth
            /\ InWindow(c)' + Limit # 1
            /\ (InWindow(c)' + Limit) - 1 = InWindow(c) + Limit
        BY <1>1, <1>3, <2>1, <3>2
      <4>2. recent[c][InWindow(c) + Limit] = Window
        BY <1>t DEF EarlierWindows
      <4> QED
        BY <3>1, <4>1, <4>2
    <3> QED
      BY <3>3, <3>4, <3>5
  <2>2. CASE ~Allows(c)
    <3>1. recent' = recent
      BY <2>2 DEF Script
    <3>2. count[c] >= Limit /\ InWindow(c) = Limit /\ InWindow(c)' = Limit
      BY <1>1, <1>3, <2>2 DEF InWindow
    <3>3. count[c] > 0 /\ ttl'[c] = ttl[c]
      BY <1>1, <1>3, <3>2
    <3> QED
      BY <1>t, <3>1, <3>2, <3>3 DEF InOrder, OpenerIsOldest, EarlierWindows
  <2> QED
    BY <2>1, <2>2
<1>6. InOrder'
  BY <1>t, <1>2, <1>5 DEF InOrder
<1>7. OpenerIsOldest'
  BY <1>t, <1>2, <1>5 DEF OpenerIsOldest
<1>8. EarlierWindows'
  BY <1>t, <1>2, <1>5 DEF EarlierWindows
<1> QED
  BY <1>6, <1>7, <1>8 DEF History

\* A second more: where a window ends, its requests are as old as it was.
LEMMA TickHistory ==
  ASSUME IInv, Tick PROVE History'
<1>t. TypeOK /\ InOrder /\ OpenerIsOldest /\ EarlierWindows /\ KeyAlwaysExpires
  BY DEF IInv
<1>1. ASSUME NEW c \in Clients, NEW i \in Depth
      PROVE  recent'[c][i] = IF recent[c][i] = Window THEN Window
                             ELSE recent[c][i] + 1
  BY DEF Tick
<1>2. ASSUME NEW c \in Clients, NEW i \in Depth, NEW j \in Depth, i <= j
      PROVE  recent'[c][i] <= recent'[c][j]
  <2>1. /\ recent[c][i] \in Nat /\ recent[c][i] <= Window
        /\ recent[c][j] \in Nat /\ recent[c][j] <= Window /\ Window \in Nat
    BY <1>t, HistoryFacts
  <2>2. recent[c][i] <= recent[c][j]
    BY <1>t, <1>2 DEF InOrder
  <2>3. /\ recent'[c][i] = IF recent[c][i] = Window THEN Window ELSE recent[c][i] + 1
        /\ recent'[c][j] = IF recent[c][j] = Window THEN Window ELSE recent[c][j] + 1
    BY <1>1
  <2> QED
    BY <2>1, <2>2, <2>3
<1>3. ASSUME NEW c \in Clients
      PROVE  /\ count'[c] > 0 => recent'[c][InWindow(c)'] >= Window - ttl'[c]
             /\ recent'[c][InWindow(c)' + Limit] = Window
  <2>1. /\ count[c] \in Nat /\ ttl[c] \in Nat /\ (count[c] > 0 <=> ttl[c] > 0)
        /\ Limit \in Nat \ {0} /\ Window \in Nat \ {0}
        /\ InWindow(c) \in 0 .. Limit
        /\ Depth = 1 .. 2 * Limit
    BY <1>t, HistoryFacts DEF KeyAlwaysExpires
  <2>2. /\ ttl'[c] = (IF ttl[c] = 0 THEN 0 ELSE ttl[c] - 1)
        /\ count'[c] = (IF ttl[c] = 1 THEN 0 ELSE count[c])
    BY DEF Tick
  <2>3. recent[c][InWindow(c) + Limit] = Window
    BY <1>t DEF EarlierWindows
  <2>4. InWindow(c) + Limit \in Depth
    BY <2>1
  <2>5. CASE ttl[c] = 0
    <3>1. count'[c] = 0 /\ InWindow(c)' = 0 /\ InWindow(c) = 0
      BY <2>1, <2>2, <2>5 DEF InWindow
    <3> QED
      BY <1>1, <2>3, <2>4, <3>1
  <2>6. CASE ttl[c] # 0
    <3>1. /\ count[c] > 0 /\ InWindow(c) \in Depth
          /\ recent[c][InWindow(c)] >= Window - ttl[c]
      BY <1>t, <2>1, <2>6 DEF OpenerIsOldest, InWindow
    <3>2. recent[c][InWindow(c)] \in Nat /\ recent[c][InWindow(c)] <= Window
      BY <1>t, <3>1, HistoryFacts
    <3>3. recent'[c][InWindow(c)] >= Window - (ttl[c] - 1)
      <4>1. recent'[c][InWindow(c)] = IF recent[c][InWindow(c)] = Window
                                      THEN Window ELSE recent[c][InWindow(c)] + 1
        BY <1>1, <3>1
      <4> QED
        BY <2>1, <2>6, <3>1, <3>2, <4>1
    <3>4. CASE ttl[c] = 1
      <4>1. count'[c] = 0 /\ InWindow(c)' = 0
        BY <2>1, <2>2, <3>4 DEF InWindow
      <4>2. recent'[c][InWindow(c)] <= recent'[c][Limit] /\ Limit \in Depth
        BY <1>2, <2>1, <3>1
      <4>3. recent'[c][InWindow(c)] \in Nat /\ recent'[c][InWindow(c)] >= Window
        BY <1>1, <2>1, <3>1, <3>2, <3>3, <3>4
      <4>4. recent'[c][Limit] \in Nat /\ recent'[c][Limit] <= Window
        <5>1. recent[c][Limit] \in Nat /\ recent[c][Limit] <= Window
          BY <1>t, <4>2, HistoryFacts
        <5> QED
          BY <1>1, <2>1, <4>2, <5>1
      <4>5. recent'[c][Limit] = Window
        BY <2>1, <4>2, <4>3, <4>4
      <4> QED
        BY <2>1, <4>1, <4>5
    <3>5. CASE ttl[c] # 1
      <4>1. InWindow(c)' = InWindow(c) /\ ttl'[c] = ttl[c] - 1
        BY <2>2, <2>6, <3>5 DEF InWindow
      <4> QED
        BY <1>1, <2>3, <2>4, <3>3, <4>1
    <3> QED
      BY <3>4, <3>5
  <2> QED
    BY <2>5, <2>6
<1> QED
  BY <1>2, <1>3 DEF History, InOrder, OpenerIsOldest, EarlierWindows

\* No step breaks the order of the history.
LEMMA NextHistory == IInv /\ [Next]_vars => History'
<1> SUFFICES ASSUME IInv, [Next]_vars PROVE History'
  OBVIOUS
<1>1. ASSUME NEW c \in Clients, Script(c) PROVE History'
  BY <1>1, ScriptHistory
<1>2. ASSUME UNCHANGED <<count, ttl, recent>> PROVE History'
  BY <1>2 DEF IInv, History, InOrder, OpenerIsOldest, EarlierWindows, InWindow
<1>3. ASSUME NEW r \in Requests, Eval(r) PROVE History'
  <2>1. client[r] \in Clients /\ Script(client[r])
    BY <1>3 DEF Eval, IInv, TypeOK
  <2> QED
    BY <1>1, <2>1
<1>4. ASSUME NEW c \in Clients, LateEval(c) PROVE History'
  BY <1>1, <1>4 DEF LateEval
<1>5. CASE Tick
  BY <1>5, TickHistory
<1>6. ASSUME NEW r \in Requests, NEW c \in Clients, Arrive(r, c) PROVE History'
  BY <1>2, <1>6 DEF Arrive, redisVars
<1>7. ASSUME NEW r \in Requests, EvalFails(r) PROVE History'
  BY <1>2, <1>7 DEF EvalFails, redisVars
<1>8. ASSUME NEW c \in Clients, LateDrop(c) PROVE History'
  BY <1>2, <1>8 DEF LateDrop, redisVars
<1>9. ASSUME NEW r \in Requests, Leave(r) PROVE History'
  BY <1>2, <1>9 DEF Leave, redisVars
<1>10. CASE UNCHANGED vars
  BY <1>2, <1>10 DEF vars
<1> QED
  BY <1>3, <1>4, <1>5, <1>6, <1>7, <1>8, <1>9, <1>10 DEF Next

\* The inductive invariant holds in every reachable state.
THEOREM Invariant == Spec => []IInv
<1>1. IInv /\ [Next]_vars => IInv'
  BY NextType, NextSafety, NextHistory DEF IInv, Safety, History
<1> QED
  BY InitInv, <1>1, PTL DEF Spec

-----------------------------------------------------------------------------
(* The safety properties *)

\* No key is ever without an expiry: nobody is locked out for good.
THEOREM KeyAlwaysExpiresHolds == Spec => []KeyAlwaysExpires
<1>1. IInv => KeyAlwaysExpires
  BY DEF IInv
<1> QED
  BY Invariant, <1>1, PTL

\* X-RateLimit-Reset tells a refused client the truth.
THEOREM RefusalEndsHolds == Spec => []RefusalEnds
<1>1. IInv => RefusalEnds
  BY DEF IInv
<1> QED
  BY Invariant, <1>1, PTL

\* No Window seconds, wherever they begin, see twice the limit allowed.
THEOREM SlidingBoundHolds == Spec => []SlidingBound
<1>1. IInv => SlidingBound
  <2> SUFFICES ASSUME IInv, NEW c \in Clients PROVE recent[c][2 * Limit] = Window
    BY DEF SlidingBound
  <2>1. TypeOK /\ InOrder /\ EarlierWindows
    BY DEF IInv
  <2>2. /\ InWindow(c) \in 0 .. Limit /\ Limit \in Nat \ {0}
        /\ Depth = 1 .. 2 * Limit /\ Window \in Nat
        /\ recent[c][InWindow(c) + Limit] = Window
    BY <2>1, HistoryFacts DEF EarlierWindows
  <2>3. InWindow(c) + Limit \in Depth /\ 2 * Limit \in Depth
        /\ InWindow(c) + Limit <= 2 * Limit
    BY <2>2
  <2>4. recent[c][InWindow(c) + Limit] <= recent[c][2 * Limit]
    BY <2>1, <2>3 DEF InOrder
  <2>5. recent[c][2 * Limit] \in Nat /\ recent[c][2 * Limit] <= Window
    BY <2>1, <2>3, HistoryFacts
  <2> QED
    BY <2>2, <2>4, <2>5
<1> QED
  BY Invariant, <1>1, PTL

\* The requests of a window are numbered without races.
THEOREM NumberedOnceHolds == Spec => []NumberedOnce
<1>1. IInv => NumberedOnce
  BY DEF IInv
<1> QED
  BY Invariant, <1>1, PTL
=============================================================================
