SPECIFICATION Spec
CONSTANTS
    Pkgs = {p, q}
    ClosedPkgs = {q}
    MaxInc = 2
    QCap = 2
    Chunks = 1
    Ids = {i1, i2, i3}
    NoId = NoId
    Images = {"lab", "operator"}
    Asks <- BothLines
    Clobbers = TRUE
CONSTRAINT Focus
SYMMETRY Symmetry
INVARIANTS RunningWasStarted CausesServed StoppedIsQuiet AtMostOnce StageLeased
PROPERTIES EpochClean InstalledAsDeclared DoneMeansDone
