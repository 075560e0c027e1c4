----------------------------- MODULE MCRollout -----------------------------
(* Rollout for TLC: up to two devices of a network, beside Core.           *)
EXTENDS Rollout

CONSTANTS d1, d2

=============================================================================
