\* A catalog without clashes: routing leads back to what was offered.
SPECIFICATION CatalogSpec
CONSTANTS
  Auths = {"a1", "a2"}
  Worker = "worker"
  Configured <- MCConfigured
  AuthModels <- MCAuthModels
  Listings <- MCListings
INVARIANTS CatalogTypeOK RoutesHome PinnedRoutesHome ConfiguredAdvertised
