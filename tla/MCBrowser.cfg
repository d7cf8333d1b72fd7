\* The session, provisioning, the trading forms, the money sheets and the demo
\* engine, one at a time.
SPECIFICATION MCSpec
CONSTANTS
    Users = {u1, u2}
    Accounts = {a1, a2, n1, b1}
    Primary <- MCPrimary
    Extra <- MCExtra
    BrokerOf <- MCBroker
    DemoOf <- MCDemo
    Nobody = Nobody
    None = None
    Guest = Guest
    Reloads = 1
    Logins = 2
    Links = 1
    MaxCalls = 2
    Credits = 2
    Trades = 2
    PageLoads = 3
    DeskSymbols <- MCDeskSymbols
    WithSpot <- MCWithSpot
    DeskAccounts <- MCDeskAccounts
    DeskReal <- MCDeskReal
    DeskOrders = 2
    DeskChanges = 1
    DeskDeposits = 1
    SheetDests = {e1, e2}
    SheetAmounts = {1}
    SheetAccounts = {a1}
    Savings = Savings
    SheetOpens = 2
    SheetEdits = 4
    SheetPresses = 2
    DemoIds = {p1, p2, p3}
    DemoSymbols <- MCDemoSymbols
    DemoMids <- MCDemoMids
    DemoSpread <- MCDemoSpread
    DemoLeverage <- MCDemoLeverage
    DemoOrders <- MCDemoOrders
    DemoInitial = 30
    DemoCalls = 3
    ChartSymbols = {sx, fx}
    ChartAccounts = {a1, d1}
    ChartResolutions <- MCResolutions
    WithCandles <- MCWithCandles
    ChartMids = {1, 2}
    ChartList = {sx, fx}
    ChartCandles = 2
    ChartChanges = 3
    u1 = u1
    u2 = u2
    a1 = a1
    a2 = a2
    n1 = n1
    b1 = b1
    d1 = d1
    d2 = d2
    sx = sx
    fx = fx
    boom = boom
INVARIANTS TypesOK AccountIsOwn IntroducedOnce ShownIsTradeable MoneyKept IntentPlacedOnce SentAsReviewed ViewSound
PROPERTIES FollowsRustBook
CHECK_DEADLOCK FALSE
