SPECIFICATION FairSpec
CONSTANTS
    Thread = {t1, t2, t3}
    outer = outer
    inner = inner
    left = left
    right = right
    above = above
    Flag = {outer, inner, left, right, above}
    Needs <- MCNeeds
INVARIANTS
    RunsOnce
    LockedOnCycles
PROPERTIES
    ReturnsAfterEffect
    AbstractSpec
    CallsReturn
