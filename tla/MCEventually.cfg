\* Staking, deposits, the account view, payouts and transfers, one at a time: what
\* was paid is credited, what was taken arrives, what ended is told.
SPECIFICATION MCSpec
CONSTANTS
    Refs = {r1}
    Visitors <- MCVisitors
    Algorithms <- MCAlgorithms
    Amounts = {1, 2}
    MaxHooks = 2
    StakeFaults = {"crash", "paystack", "declined"}
    Charges = {d1, d2}
    Dollars <- MCDollars
    DepositCap = 4
    ChargeHooks = 2
    ChargeFaults = {"row_lost", "paystack", "claim", "cut", "left"}
    Shown = {a1, a2}
    Bought <- MCBought
    Pots = {0, 2}
    ViewTopups = 1
    ViewSwitches = 2
    ViewDrops = 1
    Guest = Guest
    NoState = NoState
    Owners = {alice}
    Withdrawals = {w1, w2}
    NoWithdrawal = NoWithdrawal
    PayoutAmounts = {1}
    Sessions = {admin1}
    NumPayers = 2
    Notifying = {1}
    InitialSavings = 2
    PayoutMoves = 2
    PayoutFaults = {"lost_reply", "garbled_reply", "duplicate"}
    Transfers = {t1, t2}
    TransferRequests <- MCRequests
    Savings = Savings
    Accounts = {std, cent}
    Units <- MCUnits
    Keys = {key}
    NoKey = NoKey
    Funds <- MCFunds
    Positions <- MCPositions
    MaxOpen = 2
    TransferFaults = {"engine_down", "db_fail"}
    ann = ann
    bob = bob
    d1 = d1
    d2 = d2
    a1 = a1
    a2 = a2
    o1 = o1
    std = std
    cent = cent
    key = key
    alice = alice
INVARIANTS TypesOK RowsAgree AnnouncedOnce CreditedOnce HistorySound
PROPERTIES PaidActivates PaidIsCredited EndedIsWritten LivePayoutsSettle LiveApprovalsEnd LiveNothingInLimbo
CHECK_DEADLOCK FALSE
