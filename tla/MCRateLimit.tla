----------------------------- MODULE MCRateLimit -----------------------------
(* RateLimit with three requests in flight, a limit of two and windows of three. *)
EXTENDS RateLimit

CONSTANTS r1, r2, r3

MCRequests == {r1, r2, r3}
=============================================================================
