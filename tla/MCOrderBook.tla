----------------------------- MODULE MCOrderBook -----------------------------
(***************************************************************************)
(* A small instance of OrderBook: two symbols of two quotes each, and      *)
(* orders that the next quote may ruin, fulfil or leave alone.  MCSpec     *)
(* explores two scenarios in one run: in `feed' the engine stays up, the   *)
(* client does more, and ticks keep coming.                                *)
(***************************************************************************)
EXTENDS OrderBook

CONSTANTS fx, boom

Around(n) == [bid |-> n - 1, mid |-> n, ask |-> n + 1]
MCQuotes  == [s \in Symbols |-> {Around(n) : n \in IF s = fx THEN {10, 7} ELSE {10, 13}}]

MCDeltas   == {-10}
MCLeverage == [s \in Symbols |-> IF s = fx THEN 10 ELSE 5]

Order(k, s, d, n, tp, sl, t) ==
    [kind |-> k, symbol |-> s, side |-> d, size |-> n, tp |-> tp, sl |-> sl, ticks |-> t]

\* CFDs without and with targets, on both sides and symbols; a spot
\* position with targets; an option of two ticks, and one that is refused.
MCMenu ==
    { Order("cfd", fx, "buy", 10, 0, 0, 0),
      Order("cfd", boom, "sell", 5, 5, 10, 0),
      Order("spot", fx, "buy", 1, 1, 3, 0),
      Order("binary", boom, "buy", 20, 0, 0, 2),
      Order("binary", boom, "sell", 20, 0, 0, 0) }

SpotOnly == {o \in MCMenu : o.kind = "spot"}

CONSTANT MoreCalls   \* MaxCalls of the scenario without restarts

VARIABLE scenario

Feed == INSTANCE OrderBook WITH LpPrices <- {}, MaxCalls <- MoreCalls, MaxRestarts <- 0

FeedStep(A) == scenario = "feed" /\ A /\ UNCHANGED scenario

MCNext ==
    \/ scenario = "restart" /\ Next /\ UNCHANGED scenario
    \/ FeedStep(Feed!Next)

allVars == <<vars, scenario>>

MCInit == Init /\ scenario \in {"restart", "feed"}

\* Each symbol's task ticks on a fixed cadence.
MCSpec ==
    /\ MCInit
    /\ [][MCNext]_allVars
    /\ WF_allVars(FeedStep(Feed!Tick))

RestartSpec == MCInit /\ scenario = "restart" /\ [][Next /\ UNCHANGED scenario]_allVars

Starved == UsedMargin(pos) # 0 /\ 2 * FreeMargin(balance, pos) < - UsedMargin(pos)

\* An account that has lost more than half of its used margin does not stay
\* so while ticks come: they close CFDs until it has not, and no order can
\* hold them off (OrderBook, StopOutResolves; on_tick, open_cfd).
FeedStopOutResolves == (scenario = "feed" /\ Starved) ~> ~ Starved
=============================================================================
