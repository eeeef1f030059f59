CONSTANTS
  Nowhere = Nowhere
  Nothing = Nothing
  NoState = Nowhere
  AnyNonterminal = Nothing
  Unlabelled = Unlabelled
  NoRequest = NoRequest
  States <- DefaultStates
  Work <- WorkStates
  Pickup = {"Todo", "Ready"}
  Terminal = {"Done", "Canceled", "Duplicate"}
  Edges <- KernelEdges
  MaxRetries <- KernelRetries
  SuccessLabels <- KernelSuccess
  Labels <- KernelLabels
  Statuses <- DefaultStates
  StatusOf <- KernelStatusOf
  MaxRuns = 6
SPECIFICATION KernelSpec
INVARIANTS
  KernelTypeOK
  RequestIsClaimable
  ResumesTheFailure
  RetriesAreBounded
  ReviewIsDeliberate
CHECK_DEADLOCK FALSE
