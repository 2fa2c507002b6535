---------------------------- MODULE MCRateLimiter ----------------------------
(* RateLimiter with values for TLC. *)
EXTENDS RateLimiter, TLC

CONSTANTS k1, k2

MCKeys == {k1, k2}

\* One key limited in both ways, one whose request limit is switched off.
MCQps == k1 :> 2 @@ k2 :> 0
MCTpm == k1 :> 4 @@ k2 :> 2
=============================================================================
