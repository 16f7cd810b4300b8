SPECIFICATION Spec
CONSTANTS
    Cap = 5
    Vals <- MCVals
    PerSector = 3
    Builds = {TRUE}
    Singles <- EntryOnly
    Deployments <- MCDeployments
    Images <- AnyFirst
    Faults = {"torn", "flip", "verify"}
    Reformat = TRUE
INVARIANT CommittedRemounts
PROPERTY FailClosed
