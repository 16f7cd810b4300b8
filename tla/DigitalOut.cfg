SPECIFICATION Spec
CONSTANTS
    Channels = {P1, P2, ALARM}
    Stray = Stray
    MaxInc = 3
INVARIANTS TypeOK ShadowTrue InhibitedLow
PROPERTIES BreakBeforeMake FatalStaysLow EnergizedWithLicence
