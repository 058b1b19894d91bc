SPECIFICATION FairSpec
CONSTANTS
  Any = Any
  None = None
  MaxAttempts = 2
  Merchants = {"merchant-b", "merchant-c"}
  Providers <- MCProviders
  Banks <- MCBanks
  Scenarios <- MCScenarios
  Target = "merchant-b"
  TargetProvider = "adyen"
  ByHand <- MCByHand
  Pressers = {p1, p2}
  SpikeMultiplier = 1
  MaxCommands = 2
INVARIANTS NewestCommandRules StageShownIsRunning PaymentsAreAccountedFor TruthIsClosed BrokenPaymentsAreNotAbandoned
PROPERTIES CommandsAreHeard
