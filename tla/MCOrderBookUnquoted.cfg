\* The spot position of a snapshot, closed before the first tick after the restart.
SPECIFICATION RestartSpec
CONSTANTS
    Ids = {p1, p2, p3}
    Symbols = {fx, boom}
    fx = fx
    boom = boom
    Quotes <- MCQuotes
    Leverage <- MCLeverage
    Menu <- SpotOnly
    LpPrices = {}
    Initial = 30
    Deltas <- MCDeltas
    Nothing = Nothing
    MaxCalls = 1
    MaxRestarts = 1
    MoreCalls = 0
INVARIANTS
    ClosedAtMarket
