SPECIFICATION FairSpec
CONSTANTS
  Partition = {p1, p2}
  Good = {g1}
  Refused = {d1}
  Unstorable = {}
  Poison = {x1}
  BrokerError = BrokerError
  BatchSize = 2
  MaxLog = 2
  MaxFaults = 2
CHECK_DEADLOCK FALSE
INVARIANTS NothingLost StopDrains
PROPERTIES CountsExactlyOnce EverythingHandled
