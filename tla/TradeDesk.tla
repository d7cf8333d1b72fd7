----------------------------- MODULE TradeDesk -----------------------------
(***************************************************************************)
(* Placing and closing trades on the page: TradePanel (desktop),           *)
(* MobileTradeForm, MT5TradeTicket, the trade that waits for a deposit     *)
(* (page.tsx, PendingTradeSheet), and the rows that close positions        *)
(* (Positions, MobilePositions, SymbolActionsSheet).  Prices, and what the *)
(* rows say of them, are left out.                                         *)
(*                                                                         *)
(* Each form keeps its own tab; symbol and account are the page's and may  *)
(* change while an order is out.  Every order needs 1 of its account's     *)
(* money; sides are left out.                                              *)
(***************************************************************************)
EXTENDS Integers, FiniteSets

CONSTANTS
    Symbols, SpotSymbols,   \* SpotSymbols: crypto, metals, indices
    Accounts, RealAccounts, \* the others are demo accounts
    Nothing,                \* no order, no intent, no symbol
    MaxOrders,              \* bound: orders sent
    MaxChanges,             \* bound: changes of symbol, account or tab
    MaxDeposits             \* bound: deposits credited

VARIABLES
    symbol, acct,  \* selected; accountId
    market,        \* the symbols whose market is open and ticking
    tabs,          \* `mode' of the two forms
    flight,        \* the order each form waits for: `busy'
    intent,        \* pendingIntent
    depositOpen,   \* the deposit sheet
    ticket,        \* ticketFor: the symbol of the open MT5 ticket
    funds,         \* the engine: what each account can still pay with
    positions,     \* the engine: open positions
    closing,       \* DELETE calls on their way: <<position, 1 or 2>>
    log,           \* ghost: every order sent, and whether it was placed
    brought,       \* ghost: an account's first money, its deposits, and
                   \* what its options won or lost
    deskUsed       \* [orders, changes, deposits] so far

page == <<symbol, acct, market, tabs, depositOpen, ticket>>
engineSide == <<funds, positions, brought>>
deskVars == <<page, flight, intent, engineSide, closing, log, deskUsed>>

Forms == {"panel", "mobile", "ticket", "pending"}
Kinds == {"binary", "cfd", "spot"}
Take(what, bound) == deskUsed[what] < bound /\ deskUsed' = [deskUsed EXCEPT ![what] = @ + 1]

Init ==
    /\ symbol \in SpotSymbols /\ acct \in RealAccounts
    /\ market = Symbols
    /\ tabs = [panel |-> "binary", mobile |-> "spot"]
    /\ flight = [f \in Forms |-> Nothing]
    /\ intent = Nothing /\ depositOpen = FALSE /\ ticket = Nothing
    /\ funds = [a \in Accounts |-> IF a \in RealAccounts THEN 0 ELSE 2]
    /\ positions = {} /\ closing = {} /\ log = {} /\ brought = funds
    /\ deskUsed = [orders |-> 0, changes |-> 0, deposits |-> 0]

-----------------------------------------------------------------------------
(* What a form offers. *)

\* activeMode: Spot is only there for some symbols; the desktop falls back
\* to CFD, the phone to Rise/Fall.
PanelShows(tab)  == IF tab = "spot" /\ symbol \notin SpotSymbols THEN "cfd" ELSE tab
MobileShows(tab) == IF tab = "spot" /\ symbol \notin SpotSymbols THEN "binary" ELSE tab

\* The tabs a form offers.
OfferedTabs == IF symbol \in SpotSymbols THEN Kinds ELSE Kinds \ {"spot"}

\* isMarketOpen: in session by the clock and a fresh tick; both buttons are
\* disabled otherwise, and while the form waits.
CanPress(form, s) == s \in market /\ flight[form] = Nothing

\* The buttons of the desktop's three tabs; the tiles of the phone, on every
\* tab; the buttons of the ticket.
RiseFallOffered == PanelShows(tabs.panel) = "binary" /\ CanPress("panel", symbol)
CfdOffered      == PanelShows(tabs.panel) = "cfd" /\ CanPress("panel", symbol)
SpotOffered     == PanelShows(tabs.panel) = "spot" /\ CanPress("panel", symbol)
TilesOffered    == CanPress("mobile", symbol)
TicketOffered   == ticket # Nothing /\ CanPress("ticket", ticket)

\* The rows of the phone's Trade tab: those of the page's account, one kind
\* after the other.  An option waits for its ticks and cannot be closed.
Listed     == {p \in positions : p.acct = acct}
CfdRows    == {p \in Listed : p.kind = "cfd"}
SpotRows   == {p \in Listed : p.kind = "spot"}
OptionRows == {p \in Listed : p.kind = "binary"}
\* A row that can be swiped, with a Close button on it.
SwipeableRow(p) == p \in CfdRows \cup SpotRows

Funded(cash, i, a) == i # Nothing /\ cash[a] >= 1
\* The effect on intentFunded.
DepositSheet(opened, cash, i, a) ==
    depositOpen' = (opened /\ ~ (Funded(cash, i, a) /\ ~ Funded(funds, intent, acct)))

SelectSymbol(s) ==
    /\ s # symbol /\ Take("changes", MaxChanges)
    /\ symbol' = s
    /\ UNCHANGED <<acct, market, tabs, depositOpen, ticket, flight, intent, engineSide, closing, log>>

\* Demo or real, or another real account.
SwitchAccount(a) ==
    /\ a # acct /\ Take("changes", MaxChanges)
    /\ acct' = a
    /\ DepositSheet(depositOpen, funds, intent, a)
    /\ UNCHANGED <<symbol, market, tabs, ticket, flight, intent, engineSide, closing, log>>

PickTab(form, tab) ==
    /\ tab \in OfferedTabs /\ tab # tabs[form] /\ Take("changes", MaxChanges)
    /\ tabs' = [tabs EXCEPT ![form] = tab]
    /\ UNCHANGED <<symbol, acct, market, depositOpen, ticket, flight, intent, engineSide, closing, log>>

MarketTurns(s) ==
    /\ Take("changes", MaxChanges)
    /\ market' = IF s \in market THEN market \ {s} ELSE market \cup {s}
    /\ UNCHANGED <<symbol, acct, tabs, depositOpen, ticket, flight, intent, engineSide, closing, log>>

-----------------------------------------------------------------------------
(* Placing. *)

\* An order goes out: `number' tells orders apart, `source' the intents.
Send(form, a, s, kind, source) ==
    /\ Take("orders", MaxOrders)
    /\ LET o == [number |-> deskUsed.orders, form |-> form, acct |-> a, symbol |-> s, kind |-> kind,
                 source |-> source, state |-> "sent", answer |-> "due"]
       IN  /\ flight' = [flight EXCEPT ![form] = o.number]
           /\ log' = log \cup {o}

\* handleNeedDeposit
Capture(kind) ==
    /\ intent' = [acct |-> acct, symbol |-> symbol, kind |-> kind,
                  number |-> Cardinality(log)]
    /\ depositOpen' = TRUE
    /\ UNCHANGED <<flight, log, deskUsed>>

\* TradePanel.doTrade: the order is of the kind of `mode', which may be spot
\* where the panel shows CFD.  Only a real account is asked for a deposit; a
\* demo order is left to the engine.
PanelTrade ==
    /\ RiseFallOffered \/ CfdOffered \/ SpotOffered
    /\ IF acct \in RealAccounts /\ funds[acct] < 1
       THEN Capture(tabs.panel)
       ELSE Send("panel", acct, symbol, tabs.panel, Nothing) /\ UNCHANGED <<intent, depositOpen>>
    /\ UNCHANGED <<symbol, acct, market, tabs, ticket, engineSide, closing>>

\* MobileTradeForm.doTrade: the order is of the kind shown.  A demo account
\* without the money sees a warning.
MobileTrade ==
    /\ TilesOffered
    /\ \/ /\ funds[acct] < 1 /\ acct \in RealAccounts
          /\ Capture(MobileShows(tabs.mobile))
       \/ /\ funds[acct] >= 1
          /\ Send("mobile", acct, symbol, MobileShows(tabs.mobile), Nothing)
          /\ UNCHANGED <<intent, depositOpen>>
    /\ UNCHANGED <<symbol, acct, market, tabs, ticket, engineSide, closing>>

\* SymbolActionsSheet, New Order; the arrow of the ticket.
OpenTicket(s) ==
    /\ ticket = Nothing /\ Take("changes", MaxChanges)
    /\ ticket' = s /\ flight' = [flight EXCEPT !["ticket"] = Nothing]
    /\ UNCHANGED <<symbol, acct, market, tabs, depositOpen, intent, engineSide, closing, log>>

CloseTicket ==
    /\ ticket # Nothing /\ ticket' = Nothing
    /\ UNCHANGED <<symbol, acct, market, tabs, depositOpen, flight, intent, engineSide, closing, log, deskUsed>>

TicketTrade ==
    /\ TicketOffered
    /\ Send("ticket", acct, ticket, "cfd", Nothing)
    /\ UNCHANGED <<page, intent, engineSide, closing>>

-----------------------------------------------------------------------------
(* The trade that waited for a deposit. *)

\* A slip: the buttons stay enabled while the order is placed.
AlwaysReady == TRUE
\* The buttons of PendingTradeSheet.
PendingReady == flight["pending"] = Nothing

\* The sheet is up once the account selected can pay for the order.
ConfirmIntent ==
    /\ Funded(funds, intent, acct) /\ PendingReady
    /\ Send("pending", intent.acct, intent.symbol, intent.kind, intent.number)
    /\ UNCHANGED <<page, intent, engineSide, closing>>

\* `Not now', or a tap beside the sheet, which nothing disables.
DropIntent ==
    /\ Funded(funds, intent, acct)
    /\ intent' = Nothing
    /\ UNCHANGED <<page, flight, engineSide, closing, log, deskUsed>>

CloseDeposit ==
    /\ depositOpen /\ depositOpen' = FALSE
    /\ UNCHANGED <<symbol, acct, market, tabs, ticket, flight, intent, engineSide, closing, log, deskUsed>>

\* A deposit is credited and pushed to the page.
Deposit(a) ==
    /\ a \in RealAccounts /\ Take("deposits", MaxDeposits)
    /\ funds' = [funds EXCEPT ![a] = @ + 1] /\ brought' = [brought EXCEPT ![a] = @ + 1]
    /\ DepositSheet(depositOpen, funds', intent, acct)
    /\ UNCHANGED <<symbol, acct, market, tabs, ticket, flight, intent, positions, closing, log>>

-----------------------------------------------------------------------------
(* The engine and its answers. *)

\* place_order, place_binary, place_spot: refused without the money or with
\* the market closed, or for a stale price, a limit on risk or the answer of
\* the liquidity provider.
EngineTakes(o) ==
    /\ o.state = "sent"
    /\ \E ok \in {FALSE, funds[o.acct] >= 1 /\ o.symbol \in market} :
           /\ log' = (log \ {o}) \cup {[o EXCEPT !.state = IF ok THEN "placed" ELSE "refused"]}
           /\ funds' = IF ok THEN [funds EXCEPT ![o.acct] = @ - 1] ELSE funds
           /\ positions' = IF ok
                           THEN positions \cup {[number |-> o.number, acct |-> o.acct,
                                                  symbol |-> o.symbol, kind |-> o.kind]}
                           ELSE positions
           /\ DepositSheet(depositOpen, funds', intent, acct)
    /\ UNCHANGED <<symbol, acct, market, tabs, ticket, flight, intent, closing, brought, deskUsed>>

\* The last tick of an option: it pays more than its stake, or nothing.
OptionSettles(p) ==
    /\ p.kind = "binary" /\ positions' = positions \ {p}
    /\ \E gain \in {0, 2} :
           /\ funds' = [funds EXCEPT ![p.acct] = @ + gain]
           /\ brought' = [brought EXCEPT ![p.acct] = @ + gain - 1]
    /\ DepositSheet(depositOpen, funds', intent, acct)
    /\ UNCHANGED <<symbol, acct, market, tabs, ticket, flight, intent, closing, log, deskUsed>>

\* What the form does with an answer: a ticket that placed its order closes
\* the ticket that is open by then, a pending trade drops the intent there is.
Answered(o) ==
    /\ o.state \in {"placed", "refused"} /\ flight[o.form] = o.number
    /\ flight' = [flight EXCEPT ![o.form] = Nothing]
    /\ ticket' = IF o.form = "ticket" /\ o.state = "placed" THEN Nothing ELSE ticket
    /\ intent' = IF o.form = "pending" /\ o.state = "placed" THEN Nothing ELSE intent
    /\ UNCHANGED <<symbol, acct, market, tabs, depositOpen, engineSide, closing, log, deskUsed>>

\* An exception: `Request failed', whatever the engine did or will do.
AnswerLost(o) ==
    /\ flight[o.form] = o.number
    /\ flight' = [flight EXCEPT ![o.form] = Nothing]
    /\ log' = (log \ {o}) \cup {[o EXCEPT !.answer = "lost"]}
    /\ UNCHANGED <<page, intent, engineSide, closing, deskUsed>>

-----------------------------------------------------------------------------
(* Closing. *)

\* DELETE for each of them.  A button stays enabled and a swipe may fire
\* again, so a position can have two on their way; a third is left out.
SendClose(batch) ==
    /\ closing' = closing \cup {<<p, IF <<p, 1>> \in closing THEN 2 ELSE 1>> : p \in batch}
    /\ UNCHANGED <<page, flight, intent, engineSide, log, deskUsed>>

\* Close, in the desktop's tables of CFDs and of spot positions.
ClosePosition(p) == p \in Listed /\ p.kind # "binary" /\ SendClose({p})

\* Close, on a row of the phone.
PressClose(p) == SwipeableRow(p) /\ SendClose({p})

\* A swipe far enough closes 140 ms after the finger is lifted, and may fire
\* more than once.
SwipeClose(p) == SwipeableRow(p) /\ SendClose({p})

\* closeBatch: the profitable ones or the losers of a symbol.
CloseBatch(s) ==
    \E batch \in (SUBSET {p \in CfdRows \cup SpotRows : p.symbol = s}) \ {{}} : SendClose(batch)

\* A slip: what is paid back is not tied to what was removed.
Always(p) == TRUE
\* close_cfd and close_spot find the position, or answer PositionNotFound.
Found(p) == p \in positions

\* close_position, close_spot; the price is left out: it is the entry's.
EngineCloses(call) ==
    /\ closing' = closing \ {call}
    /\ positions' = positions \ {call[1]}
    /\ funds' = IF Found(call[1]) THEN [funds EXCEPT ![call[1].acct] = @ + 1] ELSE funds
    /\ DepositSheet(depositOpen, funds', intent, acct)
    /\ UNCHANGED <<symbol, acct, market, tabs, ticket, flight, intent, brought, log, deskUsed>>

Next ==
    \/ \E s \in Symbols : SelectSymbol(s) \/ MarketTurns(s) \/ OpenTicket(s) \/ CloseBatch(s)
    \/ \E a \in Accounts : SwitchAccount(a) \/ Deposit(a)
    \/ \E form \in {"panel", "mobile"}, tab \in Kinds : PickTab(form, tab)
    \/ PanelTrade \/ MobileTrade \/ TicketTrade \/ CloseTicket
    \/ ConfirmIntent \/ DropIntent \/ CloseDeposit
    \/ \E o \in log : EngineTakes(o) \/ Answered(o) \/ AnswerLost(o)
    \/ \E p \in positions : ClosePosition(p) \/ PressClose(p) \/ SwipeClose(p) \/ OptionSettles(p)
    \/ \E call \in closing : EngineCloses(call)

Spec == Init /\ [][Next]_deskVars

-----------------------------------------------------------------------------
(* Properties. *)

Orders == [number: 0..MaxOrders, form: Forms, acct: Accounts, symbol: Symbols, kind: Kinds,
           source: 0..MaxOrders \cup {Nothing}, state: {"sent", "placed", "refused"},
           answer: {"due", "lost"}]
Positions == [number: 0..MaxOrders, acct: Accounts, symbol: Symbols, kind: Kinds]

TypeOK ==
    /\ symbol \in Symbols /\ acct \in Accounts /\ market \subseteq Symbols
    /\ tabs \in [{"panel", "mobile"} -> Kinds]
    /\ flight \in [Forms -> 0..MaxOrders \cup {Nothing}]
    /\ depositOpen \in BOOLEAN /\ ticket \in Symbols \cup {Nothing}
    /\ funds \in [Accounts -> Nat] /\ brought \in [Accounts -> Int] /\ log \subseteq Orders
    /\ positions \subseteq Positions
    /\ closing \subseteq {p \in Positions : p.kind # "binary"} \X {1, 2}

\* An account's money and what it has in open positions are what it was
\* given and what its options won or lost: the calls that close a position
\* twice (Close and a swipe that fires again, a row and closeBatch, the
\* tables of the desktop and of the phone) pay it back once, and an order
\* refused, or confirmed again after a lost answer, takes nothing more than
\* it placed (useSwipeToClose, SymbolActionsSheet, close_cfd, close_spot).
MoneyKept ==
    \A a \in Accounts :
        funds[a] + Cardinality({p \in positions : p.acct = a}) = brought[a]

\* A trade that waited for a deposit is placed at most once, through
\* confirmations, refusals, sheets closed and opened, new deposits and
\* changes of account, unless an answer was lost and it was confirmed again
\* (PendingTradeSheet confirm, page.tsx onDone).
IntentPlacedOnce ==
    \A o, p \in log :
        (o # p /\ o.source = p.source /\ o.source # Nothing /\ "lost" \notin {o.answer, p.answer})
            => "placed" \notin {o.state} \cap {p.state}
=============================================================================
