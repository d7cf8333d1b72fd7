\* Every fault, two requests of any kind at once or one after the other, trading.
SPECIFICATION Spec
CONSTANTS
    Transfers = {t1, t2}
    Requests <- AllRequests
    Positions <- Busy
    MaxOpen = 2
    Faults = {"abort", "engine_down", "lost_reply", "db_fail", "lost_commit"}
    Savings = Savings
    Accounts = {std, cent}
    Scale <- MCScale
    Initial <- MCInitial
    Keys = {k1, k2}
    NoKey = NoKey
    std = std
    cent = cent
    k1 = k1
    k2 = k2
INVARIANTS TypeOK SavingsDebitedOnce RowTellsTruth AnswersTellTruth BooksCovered MirrorAgrees KeyMovesOnce
PROPERTIES ImplementsContract
SYMMETRY Alike
CHECK_DEADLOCK FALSE
