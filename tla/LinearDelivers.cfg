CONSTANTS
  Nowhere = Nowhere
  Nothing = Nothing
  NoState = Nowhere
  AnyNonterminal = Nothing
  Unlabelled = Unlabelled
  NoRequest = NoRequest
  NoIssue = NoIssue
  NoWrite = NoWrite
  States <- SmallStates
  Work = {"Implementing", "Investigating"}
  Pickup = {"Ready"}
  Terminal = {"Done", "Canceled"}
  Edges <- SmallEdges
  MaxRetries <- NoRetries
  SuccessLabels = {"complete"}
  Labels <- SmallLabels
  Statuses = {"Ready", "Implementing", "Investigating", "Blocked", "Review", "Done", "Canceled", "Backlog"}
  StatusOf <- SmallStatusOf
  Faults = {"refused", "rejected", "lost", "unanswered"}
  MaxFaults = 1
  MaxEdits = 1
  MaxControl = 1
  MaxCrashes = 1
  LivePolls = TRUE
  MaxRuns = 3
SPECIFICATION FairSpec
INVARIANTS
  TypeOK
  AppliedOnce
PROPERTIES
  OutboxDrains
