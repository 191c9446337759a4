\* A reconfiguration while a request runs.
SPECIFICATION Spec
CONSTANTS
  k1 = "k1"
  k2 = "k2"
  Calls = {"c1", "c2"}
  Requests = {"r1", "r2"}
  Keys = {"k1", "k2"}
  Foreign = {"u1"}
  Configs <- MCConfigs
  MaxInflight = 1
  Hosts <- MCPatientHost
INVARIANT ProcessWideCap
CHECK_DEADLOCK FALSE
