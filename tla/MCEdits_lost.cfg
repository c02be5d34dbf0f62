SPECIFICATION EditsSpec
CONSTANTS
    Sessions = {s1}
    FirstText <- MCText
    Blocks <- MCBlocks
    LightWords = {"", "brief", "mine", "end"}
    Python = TRUE
    MaxTyped = 1
    MaxSteps = 2

PROPERTY UserEditsSurvive
CHECK_DEADLOCK FALSE
