\* Two registrations and a shutdown, one after the other with failures and a request,
\* or all at once.
SPECIFICATION FairSpec
CONSTANTS
  k1 = "k1"
  k2 = "k2"
  Calls = {"c1", "c2"}
  Requests = {"r1"}
  Keys = {"k1", "k2"}
  Foreign = {"u1"}
  Configs <- MCConfigs
  MaxInflight = 1
  Hosts <- MCHosts
INVARIANTS TypeOK SyncExact NoOrphanWorker
PROPERTIES ForeignKept ReplacedWorkerExits
CHECK_DEADLOCK FALSE
