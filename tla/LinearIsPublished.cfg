SPECIFICATION Spec
CONSTANTS
    MaxStates = 2
    MaxFaults = 2
    MaxPolicies = 1
    None = None
INVARIANTS TypeOK ActivitiesInOrder
PROPERTIES ConfirmedIsShown KeepsSessionPromise SummaryArrives
