----------------------------- MODULE TripStorage -----------------------------
(* The trips that the service began with: the map trips_ of src/storage.cpp,  *)
(* behind a mutex, so that a join is one step.  Trips implements it although  *)
(* JoinTrip looks and adds in two calls, either of which may fail or be late. *)
EXTENDS Sequences, SequencesExt

CONSTANTS Routes, TripIds, Logins, Callers, None

VARIABLES route,         \* the route of each trip, or None
          participants,  \* the logins in each trip
          reply          \* <<trip, login>> that a caller has been told "ok"
                         \* about, or None

vars == <<route, participants, reply>>

Init ==
  /\ route = [t \in TripIds |-> None]
  /\ participants = [t \in TripIds |-> <<>>]
  /\ reply = [c \in Callers |-> None]

\* The id is a new one.
AddTrip(t, r) ==
  /\ route[t] = None
  /\ route' = [route EXCEPT ![t] = r]
  /\ participants' = [participants EXCEPT ![t] = <<>>]
  /\ UNCHANGED reply

\* False, and no change, when there is no such trip.
AddUserToTrip(t, l) ==
  /\ route[t] # None
  /\ participants' = IF l \in ToSet(participants[t]) THEN participants
                     ELSE [participants EXCEPT ![t] = Append(@, l)]
  /\ UNCHANGED route

Tell(c, t, l) == reply' = [reply EXCEPT ![c] = <<t, l>>]

Next ==
  \/ \E t \in TripIds, r \in Routes : AddTrip(t, r)
  \/ \E t \in TripIds, l \in Logins :
       /\ AddUserToTrip(t, l)
       /\ UNCHANGED reply \/ \E c \in Callers : Tell(c, t, l)
  \/ \E gone \in SUBSET Callers :
       /\ reply' = [c \in Callers |-> IF c \in gone THEN None ELSE reply[c]]
       /\ UNCHANGED <<route, participants>>

Spec == Init /\ [][Next]_vars
=============================================================================
