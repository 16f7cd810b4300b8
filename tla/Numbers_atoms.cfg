SPECIFICATION NSpec
CONSTANTS
    Slots = 3
    Capacity = 12
    Header = 1
    Half = 2
    LimbBits = 2
    MaxLimbs = 3
    Radix = 3
    DecimalMax = 3
    Contents <- MCContents
    Digest <- MCDigest
    Literals <- MCLiterals
INVARIANTS WordsAreValues ArithmeticExact
