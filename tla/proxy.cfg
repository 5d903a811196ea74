SPECIFICATION FairSpec
CONSTANTS
    Txns = {t1, t2}
    Plain = {p1}
    Loose = {l1}
    None = None
    NSteps = 2
    MaxMishaps = 2
CHECK_DEADLOCK FALSE
INVARIANTS NoWaitCycle FlagMatches AllOrNothing FoldedWaited AckedDurable
PROPERTIES WritesAnswered
