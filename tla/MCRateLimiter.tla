---------------------------- MODULE MCRateLimiter ----------------------------
(* RateLimiter with two worker threads and two client addresses, which are
   interchangeable. *)
EXTENDS RateLimiter, TLC

Symmetry == Permutations(Threads) \cup Permutations(Keys)
=============================================================================
