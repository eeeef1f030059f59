\* Liveness of one attempt through two crashes and two remedies.
CONSTANTS
  Executions = {e1}
  MaxAttempts = 1
  Pollers = {s1}
  HostLimit = 1
  ProjectOf <- OneProject
  ProjectLimit <- NoProjectLimit
  None = None
  Faults = {"claimed", "prepare", "preparing", "launch", "record", "cleanup", "commit", "skill", "finish"}
  MaxCrashes = 2
  MaxRemedies = 2
SPECIFICATION FairSpec
PROPERTIES WorkIsAccounted RetryIsTaken CapacityIsFreed
\* The operator may leave every execution at a terminal state.
CHECK_DEADLOCK FALSE
