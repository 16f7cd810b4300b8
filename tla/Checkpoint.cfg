SPECIFICATION CheckpointSpec
CONSTANTS
    Pkgs = {p, q}
    ClosedPkgs = {q}
    RolePkgs = {q}
    MaxInc = 2
    QCap = 1
    Chunks = 1
    None = None
INVARIANTS SavedRestores StoppedIsQuiet RunsWhatStarted
