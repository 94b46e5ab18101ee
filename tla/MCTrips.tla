------------------------------ MODULE MCTrips ------------------------------
(* Trips with two slots, trips and logins: two requests that join one login   *)
(* to one trip while the trip appears, fails to appear, or appears late.      *)
EXTENDS Trips

Symmetry == Permutations(Slots) \cup Permutations(Logins) \cup Permutations(TripIds)
=============================================================================
