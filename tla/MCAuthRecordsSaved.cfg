\* The host loads, refreshes, saves and schedules in any order.
SPECIFICATION Spec
CONSTANTS
  Pools <- MCPools
  Configs <- MCConfigs
  BadProxies = {"bad"}
INVARIANTS PoolSurvives OwnSettings DialsOwn DisabledStays
