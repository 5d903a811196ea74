SPECIFICATION Spec
CONSTANTS
    Txns = {t1}
    Plain = {p1, p2}
    Loose = {}
    None = None
    NSteps = 1
    MaxMishaps = 0
INVARIANT NeverFolded
CHECK_DEADLOCK FALSE
