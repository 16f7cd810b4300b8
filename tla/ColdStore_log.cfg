SPECIFICATION Spec
CONSTANTS
    Cap = 8
    Vals <- MCVals
    PerSector = 2
    Builds = {TRUE, FALSE}
    Singles <- MCSingles
    Deployments <- MCDeployments
    Images <- FormattedOnly
    Faults = {"late", "read", "reject", "unknown", "barrier", "load", "verify", "probe", "cut"}
    Reformat = FALSE
INVARIANTS TypeOK SelectedTrue MirrorAgrees
PROPERTY AtomicAppends
