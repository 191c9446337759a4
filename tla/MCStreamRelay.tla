---------------------------- MODULE MCStreamRelay ----------------------------
(***************************************************************************)
(* Instances of StreamRelay for TLC: all constants come from the .cfg.     *)
(***************************************************************************)
EXTENDS StreamRelay, TLC

=============================================================================
