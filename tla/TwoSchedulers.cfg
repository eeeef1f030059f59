\* Two schedulers on one ledger, leases running out at any moment.
CONSTANTS
  Executions = {e1}
  MaxAttempts = 2
  Pollers = {s1, s2}
  HostLimit = 1
  ProjectOf <- OneProject
  ProjectLimit <- NoProjectLimit
  None = None
  Faults = {"prepare", "commit"}
  MaxCrashes = 0
  MaxRemedies = 0
SPECIFICATION Spec
INVARIANT OneLauncher
\* The operator may leave every execution at a terminal state.
CHECK_DEADLOCK FALSE
