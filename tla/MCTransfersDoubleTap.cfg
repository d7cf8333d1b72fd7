\* Two taps on an account-to-account transfer while positions open; no fault.
SPECIFICATION Spec
CONSTANTS
    Transfers = {t1, t2}
    Requests <- Tap
    Positions <- FullyUsed
    MaxOpen = 2
    Faults = {}
    Savings = Savings
    Accounts = {std, cent}
    Scale <- MCScale
    Initial <- MCInitial
    Keys = {k1, k2}
    NoKey = NoKey
    std = std
    cent = cent
    k1 = k1
    k2 = k2
INVARIANTS DoubleTapsSafe
CHECK_DEADLOCK FALSE
