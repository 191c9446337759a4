\* More keys with sessions than the cap: evictions race with initialisations.
SPECIFICATION SessionSpec
CONSTANTS
  p1 = p1
  p2 = p2
  k1 = k1
  k2 = k2
  Procs = {p1, p2}
  Keys = {k1, k2}
  SessionCap = 1
  SessionMin = 1
  SessionJitter = 2
  InitMin = 1
  InitJitter = 2
  MaxTime = 3
INVARIANTS TypeOK DeviceUnlessRobbed
PROPERTIES SessionSticky InitFresh
SYMMETRY MCSymmetry
