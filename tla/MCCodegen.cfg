SPECIFICATION Spec
CONSTANTS
    Projects <- MCProjects
    Walk <- MCWalk
    NewConfigs <- MCNewConfigs
    NewCalls <- MCNewCalls
    Names <- MCNames
    MaxEdits = 2
INVARIANTS ResumedEqualsOnePass HookedOnce WrittenKept
PROPERTIES RerunWritesNothing TameKeepsBuild
