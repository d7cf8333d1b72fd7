\* The answer of an engine call is lost.
SPECIFICATION Spec
CONSTANTS
    Transfers = {t1, t2}
    Requests <- InRequests
    Positions <- Flat
    MaxOpen = 1
    Faults = {"lost_reply"}
    Savings = Savings
    Accounts = {std, cent}
    Scale <- MCScale
    Initial <- MCInitial
    Keys = {k1, k2}
    NoKey = NoKey
    std = std
    cent = cent
    k1 = k1
    k2 = k2
INVARIANTS SingleLegsAgree
CHECK_DEADLOCK FALSE
