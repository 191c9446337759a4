\* Two calls compete for one slot and fail over across lists of keys, one of them with
\* a key listed twice; one call is cancellable, and the upstream may stay silent.
SPECIFICATION FairSpec
CONSTANTS
  r1 = r1
  s1 = s1
  k1 = k1
  k2 = k2
  viaHost = viaHost
  viaProxy = viaProxy
  rejected = rejected
  Requests = {r1, s1}
  StreamRequests = {s1}
  Members <- Entries
  Pools <- Lists
  BadClients <- NoClients
  MaxInflight = 1
  Statuses = {200, 401, 403}
  Cancellable = {s1}
  HintAfter = 2
  MaxChunks = 1
  ErrBodyLimit = 2
INVARIANTS TypeOK InflightExact CapRespected TimeoutsCounted FailoverOrder FailoverComplete
PROPERTIES ImplementsAdmission ReadsEnd
