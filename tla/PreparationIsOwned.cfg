SPECIFICATION FairSpec
CONSTANTS
  Capabilities <- TwoCapabilities
  ScopeOf <- MixedScopes
  MaxAttempts = 2
  MaxCalls = 2
  MaxCrashes = 1
  MaxRemedies = 1
INVARIANTS TypeOK LiveIsAccounted
PROPERTIES ReadyIsWhole RemovalIsSafe WorkspaceIsSettled
CHECK_DEADLOCK FALSE
