------------------------------ MODULE Browser ------------------------------
(***************************************************************************)
(* What runs in the browser, and the demo engine it was first written for: *)
(* the session, the provisioning of the engine, the trading forms, the     *)
(* sheets that move money and the market's view.  They share no state; the *)
(* page runs them side by side.  `focus' chooses the component that runs,  *)
(* the others stay where they began, so one run and one theorem is about   *)
(* all of them.                                                            *)
(***************************************************************************)
EXTENDS Session

-----------------------------------------------------------------------------
(* Provisioning of the engine. *)

CONSTANTS Credits, Trades, PageLoads

VARIABLES ledger, bookBalance, inFlight, shownBalance, reads, syncs, realised, irregular, spent

Provision == INSTANCE Provisioning WITH Deposits <- Credits

-----------------------------------------------------------------------------
(* TradeDesk. *)

CONSTANTS DeskSymbols, WithSpot, DeskAccounts, DeskReal, DeskOrders, DeskChanges, DeskDeposits

VARIABLES symbol, acct, market, tabs, flight, intent, depositOpen, ticket, funds, positions,
          closing, log, brought, deskUsed

Desk == INSTANCE TradeDesk WITH
    Symbols <- DeskSymbols, SpotSymbols <- WithSpot, Accounts <- DeskAccounts,
    RealAccounts <- DeskReal, Nothing <- None,
    MaxOrders <- DeskOrders, MaxChanges <- DeskChanges, MaxDeposits <- DeskDeposits

-----------------------------------------------------------------------------
(* MoneySheets. *)

CONSTANTS SheetDests, SheetAmounts, SheetAccounts, Savings, SheetOpens, SheetEdits, SheetPresses

VARIABLES sheet, channel, saved, wform, xform, closeTimers, kyc, tier, waiting, sent, moneyUsed

Sheets == INSTANCE MoneySheets WITH
    Dests <- SheetDests, Amounts <- SheetAmounts, RealAccounts <- SheetAccounts,
    MaxOpens <- SheetOpens, MaxEdits <- SheetEdits, MaxPresses <- SheetPresses, calls <- waiting

-----------------------------------------------------------------------------
(* DemoEngine. *)

CONSTANTS DemoIds, DemoSymbols, DemoMids, DemoSpread, DemoLeverage, DemoOrders, DemoInitial, DemoCalls

VARIABLES account, book, quotes, stats, orders

Demo == INSTANCE DemoEngine WITH
    Ids <- DemoIds, Symbols <- DemoSymbols, Mids <- DemoMids, HalfSpread <- DemoSpread,
    Leverage <- DemoLeverage, Orders <- DemoOrders, Initial <- DemoInitial, Nothing <- None,
    MaxCalls <- DemoCalls, calls <- orders

-----------------------------------------------------------------------------
(* MarketView. *)

CONSTANTS ChartSymbols, ChartAccounts, ChartResolutions, WithCandles, ChartMids, ChartList,
          ChartCandles, ChartChanges

VARIABLES chartSymbol, chartAcct, chart, ticks, live, bucket, cache, ranges, watch, heard, changes

View == INSTANCE MarketView WITH
    Symbols <- ChartSymbols, Accounts <- ChartAccounts, Resolutions <- ChartResolutions,
    Backfilled <- WithCandles, Mids <- ChartMids, DefaultList <- ChartList,
    Nothing <- None, MaxCandles <- ChartCandles, MaxChanges <- ChartChanges,
    symbol <- chartSymbol, acct <- chartAcct

-----------------------------------------------------------------------------

(* The bounds are numbers, the real accounts are accounts, the symbols with *)
(* spot trading and those of the first watchlist are symbols, prices are    *)
(* numbers; the demo's client asks for CFDs and options without targets, at *)
(* prices above the spread; `None' is none of the things that may be there. *)
ASSUME BrowserGiven ==
    /\ {Credits, Trades, PageLoads, DeskOrders, DeskChanges, DeskDeposits, SheetOpens, SheetEdits,
        SheetPresses, DemoCalls, ChartCandles, ChartChanges} \subseteq Nat
    /\ ChartCandles > 1
    /\ WithSpot \subseteq DeskSymbols /\ DeskReal \subseteq DeskAccounts
    /\ ChartMids \subseteq Int /\ ChartList \subseteq ChartSymbols
    /\ {"M1", "H1"} \subseteq ChartResolutions
    /\ IsFiniteSet(DemoIds) /\ DemoInitial \in Int
    /\ DemoOrders \subseteq [kind: {"cfd", "binary"}, symbol: DemoSymbols, side: {"buy", "sell"},
                             size: Nat, tp: {0}, sl: {0}, ticks: Nat]
    /\ DemoLeverage \in [DemoSymbols -> Nat \ {0}] /\ DemoSpread \in [DemoSymbols -> Nat]
    /\ \A s \in DemoSymbols : \A mid \in DemoMids[s] : mid \in Nat /\ mid > DemoSpread[s]
    /\ None \notin Nat \cup ChartMids \cup DeskSymbols
    /\ \A ids \in SUBSET ChartSymbols : ids # None
    /\ None \notin Demo!Holdings /\ None \notin Demo!Ticks /\ None \notin Demo!RustHoldings

VARIABLE focus

provisionPart == <<ledger, bookBalance, inFlight, shownBalance, reads, syncs, realised, irregular, spent>>
deskPart   == <<symbol, acct, market, tabs, flight, intent, depositOpen, ticket, funds, positions,
                closing, log, brought, deskUsed>>
sheetPart  == <<sheet, channel, saved, wform, xform, closeTimers, kyc, tier, waiting, sent, moneyUsed>>
demoPart   == <<account, book, quotes, stats, orders>>
viewPart   == <<chartSymbol, chartAcct, chart, ticks, live, bucket, cache, ranges, watch, heard, changes>>
allVars    == <<sessionVars, provisionPart, deskPart, sheetPart, demoPart, viewPart, focus>>

BrowserInit ==
    /\ Init /\ Provision!Init /\ Desk!Init /\ Sheets!Init /\ Demo!Init /\ View!Init
    /\ focus \in {"session", "provisioning", "desk", "sheets", "demo", "view"}

\* A step of one component.
BrowserNext ==
    \/ focus = "session" /\ Next
       /\ UNCHANGED <<provisionPart, deskPart, sheetPart, demoPart, viewPart, focus>>
    \/ focus = "provisioning" /\ Provision!Next
       /\ UNCHANGED <<sessionVars, deskPart, sheetPart, demoPart, viewPart, focus>>
    \/ focus = "desk" /\ Desk!Next
       /\ UNCHANGED <<sessionVars, provisionPart, sheetPart, demoPart, viewPart, focus>>
    \/ focus = "sheets" /\ Sheets!Next
       /\ UNCHANGED <<sessionVars, provisionPart, deskPart, demoPart, viewPart, focus>>
    \/ focus = "demo" /\ Demo!Next
       /\ UNCHANGED <<sessionVars, provisionPart, deskPart, sheetPart, viewPart, focus>>
    \/ focus = "view" /\ View!Next
       /\ UNCHANGED <<sessionVars, provisionPart, deskPart, sheetPart, demoPart, focus>>

BrowserSpec == BrowserInit /\ [][BrowserNext]_allVars

-----------------------------------------------------------------------------
(* Properties: those of Session, and these of the others. *)

\* The variables of the component in focus keep their types.
TypesOK ==
    /\ focus = "session" => TypeOK
    /\ focus = "provisioning" => Provision!TypeOK
    /\ focus = "desk" => Desk!TypeOK
    /\ focus = "sheets" => Sheets!TypeOK
    /\ focus = "demo" => Demo!TypeOK
    /\ focus = "view" => View!TypeOK

\* A lost push of a deposit is made good by the page (Provisioning,
\* ShownIsTradeable; page.tsx, create_account).
ShownIsTradeable == Provision!ShownIsTradeable

\* Calls that close a position twice pay it back once (TradeDesk, MoneyKept;
\* useSwipeToClose, close_cfd, close_spot).
MoneyKept == Desk!MoneyKept

\* A trade that waited for a deposit is placed once (TradeDesk,
\* IntentPlacedOnce; PendingTradeSheet, page.tsx).
IntentPlacedOnce == Desk!IntentPlacedOnce

\* What is withdrawn is what was reviewed (MoneySheets, SentAsReviewed;
\* WithdrawSheet).
SentAsReviewed == Sheets!SentAsReviewed

\* What is drawn is of what is selected, or on its way (MarketView, ViewSound;
\* useChartHistory, Chart, useTicks, useSessionHL).
ViewSound == View!ViewSound

\* The demo engine does what the Rust engine's book does, but for ties
\* (DemoEngine, FollowsRustBook; engine.js, order-book/src/lib.rs).
FollowsRustBook == Demo!FollowsRustBook

-----------------------------------------------------------------------------
(* What the repository says of the code and the code does not do. *)

\* A sync never takes away what trading realised (Provisioning,
\* RealisedKept; engine_service.rs, create_account).
RealisedKept == Provision!RealisedKept
=============================================================================
