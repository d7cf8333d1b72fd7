\* Handlers that die, webhooks that repeat, two providers, one admin.
SPECIFICATION Spec
CONSTANTS
    Users = {alice}
    Withdrawals = {w1, w2, w3}
    NoWithdrawal = NoWithdrawal
    Amounts = {1, 2}
    Admins = {a1}
    NumPayers = 2
    Notifying = {1}
    InitialSavings = 3
    MaxMoves = 2
    Faults = {"abort", "duplicate"}
SYMMETRY Symmetry
INVARIANTS SettledOnce
PROPERTIES ImplementsContract
CHECK_DEADLOCK FALSE
