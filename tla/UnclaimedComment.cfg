SPECIFICATION Spec
CONSTANTS
    MaxStates = 2
    MaxFaults = 2
    MaxPolicies = 0
    None = None

PROPERTIES CommentConverges
