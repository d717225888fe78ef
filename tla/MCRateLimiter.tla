--------------------------- MODULE MCRateLimiter ---------------------------
(***************************************************************************)
(* A small instance of RateLimiter: two requests at once, one more every   *)
(* two ticks; sweeps every three ticks, of what was idle for longer than   *)
(* it takes to fill up, and by a sweeper that may wait for the lock.       *)
(***************************************************************************)
EXTENDS RateLimiter
=============================================================================
