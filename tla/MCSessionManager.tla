-------------------------- MODULE MCSessionManager --------------------------
(***************************************************************************)
(* Instances of SessionManager for TLC: hours are scaled down to ticks.    *)
(***************************************************************************)
EXTENDS SessionManager, TLC

CONSTANTS p1, p2, k1, k2

MCSymmetry == Permutations({p1, p2}) \cup Permutations({k1, k2})

=============================================================================
