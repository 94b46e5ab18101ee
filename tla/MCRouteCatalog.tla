--------------------------- MODULE MCRouteCatalog ---------------------------
(* RouteCatalog with small sets.  Two slots are the fewest that overlap a     *)
(* reader and a writer; the cfg files fix the sets as model values.           *)
EXTENDS RouteCatalog, TLC

\* Interchangeable values (safety runs only).
Symmetry == Permutations(Slots) \cup Permutations(RouteIds)
              \cup Permutations(Owners)
=============================================================================
