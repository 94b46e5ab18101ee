---------------------------- MODULE RouteContract ----------------------------
(* What /v1/routes promises whatever fails and overlaps, with no handler, no  *)
(* timeout and no crash in sight: routes appear one by one and never change   *)
(* hands or vanish; the list kept for an owner is some of that owner's routes *)
(* or is absent; only an existing route is announced or given to a client,    *)
(* and that is never taken back.  RouteCatalog implements it.                 *)
CONSTANTS Owners, RouteIds, None, Miss

VARIABLES rows,       \* the owner of each route, or None
          shown,      \* the list kept for each owner, or Miss
          announced,  \* routes with an event
          known       \* routes whose id a client has

vars == <<rows, shown, announced, known>>

Owned(o) == {r \in RouteIds : rows[r] = o}

Init ==
  /\ rows = [r \in RouteIds |-> None]
  /\ shown = [o \in Owners |-> Miss]
  /\ announced = {}
  /\ known = {}

Create(r, o) ==
  /\ rows[r] = None
  /\ rows' = [rows EXCEPT ![r] = o]
  /\ UNCHANGED <<shown, announced, known>>

Show(o) ==
  /\ \E some \in SUBSET Owned(o) : shown' = [shown EXCEPT ![o] = some]
  /\ UNCHANGED <<rows, announced, known>>

Forget(o) ==
  /\ shown' = [shown EXCEPT ![o] = Miss]
  /\ UNCHANGED <<rows, announced, known>>

Announce(r) ==
  /\ rows[r] # None
  /\ announced' = announced \cup {r}
  /\ UNCHANGED <<rows, shown, known>>

Tell(r) ==
  /\ rows[r] # None
  /\ known' = known \cup {r}
  /\ UNCHANGED <<rows, shown, announced>>

Next ==
  \/ \E r \in RouteIds, o \in Owners : Create(r, o)
  \/ \E o \in Owners : Show(o) \/ Forget(o)
  \/ \E r \in RouteIds : Announce(r) \/ Tell(r)

Spec == Init /\ [][Next]_vars
=============================================================================
