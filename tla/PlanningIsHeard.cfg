CONSTANTS
    Prompts <- AllPrompts
    MaxPrompts = 2
    MaxEvents = 1
    API = API
    None = None
SPECIFICATION Spec
CHECK_DEADLOCK FALSE
INVARIANTS TypeOK AcceptedIsApplied LastWordHolds
PROPERTIES ApprovalIsInformed AnswersAreHeard
