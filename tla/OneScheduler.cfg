\* Safety of the deployed configuration: one scheduler, every fault, a crash, a remedy.
CONSTANTS
  Executions = {e1}
  MaxAttempts = 2
  Pollers = {s1}
  HostLimit = 1
  ProjectOf <- OneProject
  ProjectLimit <- NoProjectLimit
  None = None
  Faults = {"claimed", "prepare", "preparing", "launch", "record", "cleanup", "commit", "skill", "finish"}
  MaxCrashes = 1
  MaxRemedies = 1
SPECIFICATION Spec
INVARIANTS TypeOK ExclusiveWorkspace LaunchesAuthorized CanceledIsClosed AttentionIsAnswerable
PROPERTY KeepsPromise
\* The operator may leave every execution at a terminal state.
CHECK_DEADLOCK FALSE
