----------------------------- MODULE MCRollouts -----------------------------
EXTENDS Rollouts, TLC

CONSTANT a1

\* Agents do not interact: one that the second of three tiers covers.
MCBucket == a1 :> 50
MCTiers == <<10, 60, 100>>
=============================================================================
