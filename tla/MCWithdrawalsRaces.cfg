\* Every fault at once, two admin requests in flight, amounts that do not fit together.
SPECIFICATION Spec
CONSTANTS
    Users = {alice}
    Withdrawals = {w1, w2}
    NoWithdrawal = NoWithdrawal
    Amounts = {1, 2}
    Admins = {a1, a2}
    NumPayers = 1
    Notifying = {1}
    InitialSavings = 2
    MaxMoves = 2
    Faults = {"abort", "lost_reply", "garbled_reply", "duplicate", "early_hook", "reversal", "bank_reject"}
SYMMETRY Symmetry
INVARIANTS TypeOK ApproveExclusive ClosedMeansRefunded SavingsAccounted
PROPERTIES UsdtRowsStayClosed
CHECK_DEADLOCK FALSE
