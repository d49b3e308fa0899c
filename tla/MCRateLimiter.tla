--------------------------- MODULE MCRateLimiter ---------------------------
(***************************************************************************)
(* RateLimiter on small instances: a limit of two requests per two units.  *)
(***************************************************************************)
EXTENDS RateLimiter, TLC

Symmetry == Permutations(Keys)

=============================================================================
