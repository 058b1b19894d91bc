SPECIFICATION FairSpec
CONSTANTS
  Incident = {i1, i2}
  Runner = {r1}
  Measurement = {m1, m2}
  None = None
  MaxSweeps = 2
  MaxCrashes = 1
  LeaseCoversRun = TRUE
INVARIANTS InvestigatingIsClaimed PaidOnceUntilCrash
PROPERTIES AbandonedClaimReturns InvestigationEnds DetectedIsInvestigated
