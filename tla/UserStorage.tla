----------------------------- MODULE UserStorage -----------------------------
(* The registry of users that the service began with: the map users_ of       *)
(* src/storage.cpp, behind a mutex, so that every call is one step.  There is *)
(* no statement under way, no cache and no event.  UserDirectory implements   *)
(* it, with callers that may die before they learn what their call returned.  *)
CONSTANTS Logins, Profiles, Callers, None

VARIABLES users,   \* the profile of each login, or None
          reply    \* the user that a caller has been given or added, or None

vars == <<users, reply>>

Init ==
  /\ users = [l \in Logins |-> None]
  /\ reply = [c \in Callers |-> None]

\* False, and no change, when the login is taken.
AddUser(l, p) ==
  /\ users[l] = None
  /\ users' = [users EXCEPT ![l] = p]

GetUserByLogin(l) == users[l]

Give(c, l, p) == reply' = [reply EXCEPT ![c] = <<l, p>>]

Next ==
  \/ \E l \in Logins, p \in Profiles :
       AddUser(l, p) /\ (UNCHANGED reply \/ \E c \in Callers : Give(c, l, p))
  \/ \E c \in Callers, l \in Logins :
       /\ GetUserByLogin(l) # None
       /\ Give(c, l, GetUserByLogin(l))
       /\ UNCHANGED users
  \/ \E gone \in SUBSET Callers :
       /\ reply' = [c \in Callers |-> IF c \in gone THEN None ELSE reply[c]]
       /\ UNCHANGED users

Spec == Init /\ [][Next]_vars
=============================================================================
