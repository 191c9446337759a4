\* A key's own cooldown policy against the plugin-wide one.
SPECIFICATION Spec
CONSTANTS
  Pools <- MCPools
  Configs <- MCConfigs
  BadProxies = {"bad"}
INVARIANTS CoolingOverride
