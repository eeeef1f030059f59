CONSTANTS
    Prompts <- PauseAndResume
    MaxPrompts = 2
    MaxEvents = 0
    API = API
    None = None
SPECIFICATION Spec
CHECK_DEADLOCK FALSE
PROPERTIES ResumeIsHeard
