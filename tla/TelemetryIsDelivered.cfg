SPECIFICATION FairSpec
CONSTANTS
  Log <- FiveRecords
  OptedOut <- Second
  Malformed <- Fifth
  BatchSize = 2
  MaxRestarts = 2
  MaxExpired = 1
INVARIANTS TypeOK ReceiptsAreEvidence OneOwnedBodyPerSpan
PROPERTIES EgressIsAllowed KeepsDeliveryPromise RecordsAreDelivered
CHECK_DEADLOCK FALSE
