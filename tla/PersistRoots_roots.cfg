SPECIFICATION Spec
CONSTANTS
    Profiles = {"legacy", "i2", "m7"}
    SwapProfiles = {"i2"}
    MaxTxs = 3
INVARIANTS RootsCurrent SlamCurrent
