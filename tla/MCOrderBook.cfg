\* Two orders or transfers, snapshots, and a restart between any two steps; and
\* three orders or transfers while the feed ticks.
SPECIFICATION MCSpec
CONSTANTS
    Ids = {p1, p2, p3}
    Symbols = {fx, boom}
    fx = fx
    boom = boom
    Quotes <- MCQuotes
    Leverage <- MCLeverage
    Menu <- MCMenu
    LpPrices = {11}
    Initial = 30
    Deltas <- MCDeltas
    Nothing = Nothing
    MaxCalls = 2
    MaxRestarts = 1
    MoreCalls = 3
INVARIANTS TypeOK BooksBalance TargetsHonoured
PROPERTIES WorstFirst FeedStopOutResolves
