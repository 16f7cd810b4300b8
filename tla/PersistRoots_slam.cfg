SPECIFICATION Spec
CONSTANTS
    Profiles = {"m7"}
    SwapProfiles = {}
    MaxTxs = 3
INVARIANT SlamReadable
