SPECIFICATION Spec
CONSTANTS
    Lives = {TRUE, FALSE}
    Bounded = TRUE
    Tokens = {t1, t2, t3}
    NoTok = NoTok
    QCap = 3
    IrqCap = 1
    TimerMax = 2
    MaxEffects = 2
    MaxCauses = 1
    MaxSvc = 2
INVARIANTS TypeOK OnceEach PreflightCovers CompletionsTruthful
PROPERTIES WaitingKept TimersKept AtomicTransactions
SYMMETRY TokenSymmetry
