------------------------- MODULE MCPluginLifecycle -------------------------
(***************************************************************************)
(* Instances of PluginLifecycle for TLC.                                   *)
(***************************************************************************)
EXTENDS PluginLifecycle

CONSTANTS k1, k2

Config(shared, keys, rank, poll) ==
  [shared |-> shared, keys |-> keys, rank |-> rank, poll |-> poll]

\* A key is added, reprioritised or dropped, scheduling is switched off, and there
\* is a refresh worker or not.
MCConfigs ==
  { Config(TRUE, {k1}, "low", TRUE), Config(TRUE, {k1, k2}, "high", FALSE),
    Config(FALSE, {k1}, "low", FALSE) }

Host(overlap, faults, requests, configs) ==
  [overlap |-> overlap, faults |-> faults, requests |-> requests, configs |-> configs]

\* One host makes one call after the other while things fail, another one makes them
\* at the same time.
MCHosts == { Host(FALSE, TRUE, {"r1"}, MCConfigs),
             Host(TRUE, FALSE, {}, {k \in MCConfigs : k.shared}) }

\* A host that makes one call after the other, and two executor calls.
MCPatientHost == { Host(FALSE, FALSE, {"r1", "r2"}, MCConfigs) }

=============================================================================
