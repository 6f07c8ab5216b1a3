CONSTANTS
    Schedules = {"each", "other"}
    MaxTime = 3
    MaxEdits = 2
    MaxFaults = 1
    Occurs <- MCOccurs
    Settings <- MCSettings
SPECIFICATION Spec
INVARIANT TypeOK
INVARIANT NextQueued
INVARIANT OncePerOccurrence
CHECK_DEADLOCK FALSE
