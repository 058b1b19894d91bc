SPECIFICATION Spec
CONSTANTS
  Incident = {i1}
  Runner = {r1, r2}
  Measurement = {m1, m2}
  None = None
  MaxSweeps = 2
  MaxCrashes = 1
  LeaseCoversRun = FALSE
SYMMETRY Symmetry
INVARIANTS VersionsContiguous
PROPERTIES ClosedNeverReopens
