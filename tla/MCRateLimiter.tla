--------------------------- MODULE MCRateLimiter ---------------------------
(* A small instance of RateLimiter for TLC: a rate below the floor, one     *)
(* above it that can be halved twice, and off.                              *)
EXTENDS RateLimiter
=============================================================================
