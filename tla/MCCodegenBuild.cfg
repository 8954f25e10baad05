SPECIFICATION Spec
CONSTANTS
    Projects <- OneTree
    Walk <- MCWalk
    NewConfigs <- MCNewConfigs
    NewCalls <- MCNewCalls
    Names <- MCNames
    MaxEdits = 1
PROPERTIES KeepsBuild
