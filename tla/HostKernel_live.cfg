SPECIFICATION FairSpec
CONSTANTS
    Lives = {TRUE}
    Bounded = FALSE
    Tokens = {t1, t2}
    NoTok = NoTok
    QCap = 2
    IrqCap = 1
    TimerMax = 1
    MaxEffects = 1
    MaxCauses = 1
    MaxSvc = 1
PROPERTIES DueTimersFire NoStarvation
