--------------------------- MODULE MCRoutePoints ---------------------------
(* RoutePoints for every text of at most MaxLength characters.                *)
EXTENDS RoutePoints
=============================================================================
