\* A payout settles before its handler returned and the webhook repeats.
SPECIFICATION Spec
CONSTANTS
    Users = {alice}
    Withdrawals = {w1}
    NoWithdrawal = NoWithdrawal
    Amounts = {1}
    Admins = {a1}
    NumPayers = 1
    Notifying = {1}
    InitialSavings = 1
    MaxMoves = 2
    Faults = {"early_hook", "duplicate"}
INVARIANTS RefundedAtMostOnce
CHECK_DEADLOCK FALSE
