SPECIFICATION Spec
CONSTANTS
    TopSlot = 1
    PageSize = 1
    Retries = 2
    Scripts = {"set", "load_nvm", "copy"}
    MaxEdits = 2
    MaxOps = 3
    MaxFaults = 2
    MaxCuts = 1
INVARIANTS CleanMeansApplied SavedSurvives
PROPERTY BootsWhole
CHECK_DEADLOCK FALSE
