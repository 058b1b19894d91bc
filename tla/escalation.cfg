SPECIFICATION FairSpec
CONSTANTS
  Incident = {i1}
  Reader = {r1, r2}
  None = None
  MaxChanges = 2
  MaxRuns = 2
  MaxCrashes = 1
INVARIANTS FiresAtMostOnce WatchIsSilent PagesAreDiagnosed BandWasReached
PROPERTIES DueChannelIsRecorded
