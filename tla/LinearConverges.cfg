CONSTANTS
  Nowhere = Nowhere
  Nothing = Nothing
  NoState = Nowhere
  AnyNonterminal = Nothing
  Unlabelled = Unlabelled
  NoRequest = NoRequest
  NoIssue = NoIssue
  NoWrite = NoWrite
  States <- SmallStates
  Work = {"Implementing", "Investigating"}
  Pickup = {"Ready"}
  Terminal = {"Done", "Canceled"}
  Edges <- SmallEdges
  MaxRetries <- NoRetries
  SuccessLabels = {"complete"}
  Labels <- SmallLabels
  Statuses = {"Ready", "Implementing", "Investigating", "Blocked", "Review", "Done", "Canceled", "Backlog"}
  StatusOf <- SmallStatusOf
  Faults = {"read", "refused", "readback", "attention"}
  MaxFaults = 1
  MaxEdits = 2
  MaxControl = 0
  MaxCrashes = 0
  LivePolls = FALSE
  MaxRuns = 3
SPECIFICATION FairSpec
PROPERTIES
  Converges
