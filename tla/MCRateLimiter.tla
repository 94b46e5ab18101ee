---------------------------- MODULE MCRateLimiter ----------------------------
(* RateLimiter with a limit of two and a window of three ticks: the fewest    *)
(* for which a window has a middle, and two windows can meet in one.          *)
EXTENDS RateLimiter
=============================================================================
