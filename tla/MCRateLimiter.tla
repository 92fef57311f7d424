---------------------------- MODULE MCRateLimiter ---------------------------
(***************************************************************************)
(* Values of RateLimiter's constants for TLC.                              *)
(***************************************************************************)
EXTENDS RateLimiter, TLC

\* Requests are told apart by nothing but their history, and so are servers
\* and keys.
Interchangeable == Permutations(Requests) \cup Permutations(Servers) \cup Permutations(Keys)
=============================================================================
