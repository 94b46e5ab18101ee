---------------------------- MODULE SessionStorage ----------------------------
(* The sessions that the service began with: the maps users_ and tokens_ of   *)
(* src/storage.cpp.  LoginUser checks the password under one mutex and stores *)
(* the token under the other; users_ only grows, so this is one step.  Tokens *)
(* never expire here.  Sessions implements it: whoever a request is let in    *)
(* as, it is by a token in the map.                                           *)
CONSTANTS Logins, Passwords, Tokens, Callers, None

VARIABLES users,    \* the password of each login, or None
          tokens,   \* <<token, login>>, of each token one at most
          reply     \* <<token, login>> that a caller has been given, or None

vars == <<users, tokens, reply>>

Init ==
  /\ users = [l \in Logins |-> None]
  /\ tokens = {}
  /\ reply = [c \in Callers |-> None]

AddUser(l, p) ==
  /\ users[l] = None
  /\ users' = [users EXCEPT ![l] = p]
  /\ UNCHANGED <<tokens, reply>>

\* The token is a new one.
LoginUser(l, p, t) ==
  /\ users[l] = p
  /\ \A m \in Logins : <<t, m>> \notin tokens
  /\ tokens' = tokens \cup {<<t, l>>}
  /\ UNCHANGED <<users, reply>>

GetLoginByToken(c, t, l) ==
  /\ <<t, l>> \in tokens
  /\ reply' = [reply EXCEPT ![c] = <<t, l>>]
  /\ UNCHANGED <<users, tokens>>

Return ==
  /\ \E gone \in SUBSET Callers :
       reply' = [c \in Callers |-> IF c \in gone THEN None ELSE reply[c]]
  /\ UNCHANGED <<users, tokens>>

Next ==
  \/ \E l \in Logins, p \in Passwords :
       AddUser(l, p) \/ \E t \in Tokens : LoginUser(l, p, t)
  \/ \E c \in Callers, t \in Tokens, l \in Logins : GetLoginByToken(c, t, l)
  \/ Return

Spec == Init /\ [][Next]_vars
=============================================================================
