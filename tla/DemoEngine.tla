----------------------------- MODULE DemoEngine -----------------------------
(***************************************************************************)
(* The JavaScript demo engine (src/engine): one account, CFDs and digital  *)
(* options.  Node runs each request and each tick of a feed to its end, so *)
(* each is one action; the events broadcast to the dashboard change        *)
(* nothing in the engine and are left out.                                 *)
(* It is the proof of concept of the Rust engine, and OrderBook is what it *)
(* has to follow: the two differ in the options that end where they began, *)
(* which lose their stake here and get it back there.                      *)
(***************************************************************************)
EXTENDS Integers, FiniteSetsExt

CONSTANTS
    Ids,          \* identifiers of positions and options
    Symbols,
    Mids,         \* mid prices each symbol's generator may give
    HalfSpread,   \* of each symbol
    Leverage,     \* of each symbol
    Orders,       \* what the client may ask for, as in OrderBook
    Initial,      \* STARTING_BALANCE
    Nothing,      \* no position; no quote
    MaxCalls      \* bound: orders

VARIABLES
    account,      \* [balance, realisedPnl]
    book,         \* positions and binaries; Nothing where there is none
    quotes,       \* the last tick of each symbol
    stats,        \* house: [clientPnl, binaries, wins, cfds]
    calls

demoVars == <<account, book, quotes, stats, calls>>

\* A CFD or an option, and a tick.  `marked' is OrderBook's ghost: a tick has
\* revalued the position.
Holdings == [order: Orders, entry: Int, margin: Nat, unrealisedPnl: Int, ticksLeft: Int, marked: BOOLEAN]
Ticks  == [bid: Int, mid: Int, ask: Int]

Init ==
    /\ account = [balance |-> Initial, realisedPnl |-> 0]
    /\ book = [i \in Ids |-> Nothing]
    /\ quotes = [s \in Symbols |-> Nothing]
    /\ stats = [clientPnl |-> 0, binaries |-> 0, wins |-> 0, cfds |-> 0]
    /\ calls = 0

-----------------------------------------------------------------------------

Positions(b) == {i \in Ids : b[i] # Nothing /\ b[i].order.kind = "cfd"}
Binaries(b)  == {i \in Ids : b[i] # Nothing /\ b[i].order.kind = "binary"}

UsedMargin(b)       == SumFunction([i \in Positions(b) |-> b[i].margin])
Equity(cash, b)     == cash + SumFunction([i \in Positions(b) |-> b[i].unrealisedPnl])
FreeMargin(cash, b) == Equity(cash, b) - UsedMargin(b)

\* A slip: the margin of the position that loses is not counted.
MarginLevelOfBalance(cash, b) == UsedMargin(b) # 0 /\ 2 * cash < UsedMargin(b)
\* marginLevel() < 50; it is Infinity when no margin is used.
StoppedOut(cash, b) == UsedMargin(b) # 0 /\ 2 * Equity(cash, b) < UsedMargin(b)

\* tick(): a generator's price with half the spread on either side.
Tick(s, mid) == [bid |-> mid - HalfSpread[s], mid |-> mid, ask |-> mid + HalfSpread[s]]

PnlFor(p, mark) ==
    (IF p.order.side = "buy" THEN mark - p.entry ELSE p.entry - mark) * p.order.size

Won(p, lastMid) == IF p.order.side = "buy" THEN lastMid > p.entry ELSE lastMid < p.entry
\* multiplier 1.85
Payout(p, lastMid) == IF Won(p, lastMid) THEN (p.order.size * 37) \div 20 ELSE 0

Fresh(o, entry, margin) ==
    [order |-> o, entry |-> entry, margin |-> margin, unrealisedPnl |-> 0, ticksLeft |-> o.ticks,
     marked |-> FALSE]

\* nextPosId, nextBinId: an identifier no open position has.
Free == {i \in Ids : book[i] = Nothing}
Placed(p) == Free # {} /\ book' = [book EXCEPT ![CHOOSE i \in Free : TRUE] = p]

Called == calls < MaxCalls /\ calls' = calls + 1

-----------------------------------------------------------------------------
(* The REST calls; a refused one answers 400 and changes nothing. *)

\* placeCfdOrder
PlaceCfdOrder(o) ==
    /\ o.kind = "cfd" /\ quotes[o.symbol] # Nothing /\ o.size > 0
    /\ LET q      == quotes[o.symbol]
           entry  == IF o.side = "buy" THEN q.ask ELSE q.bid
           margin == (o.size * entry) \div Leverage[o.symbol]
       IN  /\ margin <= FreeMargin(account.balance, book)
           /\ Placed(Fresh(o, entry, margin))
    /\ stats' = [stats EXCEPT !.cfds = @ + 1]
    /\ UNCHANGED <<account, quotes>>

\* placeBinary
PlaceBinary(o) ==
    /\ o.kind = "binary" /\ quotes[o.symbol] # Nothing /\ o.size > 0
    /\ o.ticks \in 1 .. 200 /\ o.size <= account.balance
    /\ account' = [account EXCEPT !.balance = @ - o.size]
    /\ Placed(Fresh(o, quotes[o.symbol].mid, 0))
    /\ stats' = [stats EXCEPT !.binaries = @ + 1]
    /\ UNCHANGED quotes

\* What closing position p at quote q wins or loses (closeCfd).
CloseGain(p, q) == PnlFor(p, IF p.order.side = "buy" THEN q.bid ELSE q.ask)

\* closeCfd: the quote is looked up before the position is removed.
CloseCfd(i) ==
    /\ i \in Positions(book) /\ quotes[book[i].order.symbol] # Nothing
    /\ LET pnl == CloseGain(book[i], quotes[book[i].order.symbol])
       IN  /\ account' = [balance |-> account.balance + pnl, realisedPnl |-> account.realisedPnl + pnl]
           /\ stats' = [stats EXCEPT !.clientPnl = @ + pnl]
    /\ book' = [book EXCEPT ![i] = Nothing]
    /\ UNCHANGED quotes

-----------------------------------------------------------------------------
(* A tick of a feed. *)

\* The symbol's positions are revalued.
Marked(s, q) ==
    [i \in Ids |->
        IF i \in Positions(book) /\ book[i].order.symbol = s
        THEN [book[i] EXCEPT !.unrealisedPnl = CloseGain(book[i], q), !.marked = TRUE]
        ELSE book[i]]

Worst(b) ==
    {i \in Positions(b) :
        \A j \in Positions(b) : b[i].unrealisedPnl <= b[j].unrealisedPnl}

CountDown(b, s) ==
    [i \in Ids |->
        IF i \in Binaries(b) /\ b[i].order.symbol = s
        THEN [b[i] EXCEPT !.ticksLeft = @ - 1] ELSE b[i]]

Payouts(b, ended, mid) == SumFunction([i \in ended |-> Payout(b[i], mid)])
HouseLoss(ended, mid) == SumFunction([i \in ended |-> Payout(book[i], mid) - book[i].order.size])

\* settleBinaries of symbol s, after closing `closed', which made `pnl'.
Settle(b, s, mid, closed, pnl) ==
    LET counted == CountDown(b, s)
        ended   == {i \in Binaries(b) : counted[i].order.symbol = s /\ counted[i].ticksLeft <= 0}
    IN  /\ book' = [i \in Ids |-> IF i \in ended \cup closed THEN Nothing ELSE counted[i]]
        /\ account' = [balance |-> account.balance + pnl + Payouts(b, ended, mid),
                       realisedPnl |-> account.realisedPnl + pnl]
        /\ stats' = [stats EXCEPT !.clientPnl = @ + pnl + HouseLoss(ended, mid),
                                  !.wins = @ + Cardinality({i \in ended : Won(b[i], mid)})]

\* The tick handler: mark to market, at most one stop-out, then the options.
OnTick(s, mid) ==
    LET q   == Tick(s, mid)
        now == [quotes EXCEPT ![s] = q]
        b   == Marked(s, q)
    IN  /\ quotes' = now
        /\ \/ /\ StoppedOut(account.balance, b)
              /\ \E i \in Worst(b) : Settle(b, s, mid, {i}, CloseGain(b[i], now[b[i].order.symbol]))
           \/ /\ ~ StoppedOut(account.balance, b)
              /\ Settle(b, s, mid, {}, 0)
        /\ UNCHANGED calls

\* The routes of server.js: an order that is refused is answered 400.
Request ==
    \/ \E o \in Orders : (PlaceCfdOrder(o) \/ PlaceBinary(o)) /\ Called
    \/ \E i \in Ids : CloseCfd(i) /\ UNCHANGED calls

\* Every symbol has a timer of its own.
Feeds == \E s \in Symbols : \E mid \in Mids[s] : OnTick(s, mid)

Next == Request \/ Feeds

Spec == Init /\ [][Next]_demoVars

-----------------------------------------------------------------------------
(* The Rust engine's book: the same state, without targets, snapshots,      *)
(* spots, transfers and restarts.                                           *)

RustHoldings ==
    [order: Orders, entry: Int, held: Nat, upnl: Int, left: Int, marked: BOOLEAN]
Mapped(p) ==
    [order |-> p.order, entry |-> p.entry,
     held |-> IF p.order.kind = "cfd" THEN p.margin ELSE p.order.size,
     upnl |-> p.unrealisedPnl, left |-> p.ticksLeft, marked |-> p.marked]

RustBook ==
    INSTANCE OrderBook WITH
        Menu <- Orders,
        Quotes <- [s \in Symbols |-> {Tick(s, mid) : mid \in Mids[s]}],
        LpPrices <- {}, Deltas <- {}, MaxRestarts <- 0,
        balance <- account.balance,
        pos <- [i \in Ids |-> IF book[i] = Nothing THEN Nothing ELSE Mapped(book[i])],
        quote <- quotes,
        house <- stats.clientPnl,
        saved <- [balance |-> Initial, pos |-> [i \in Ids |-> Nothing]],
        restarts <- 0, funded <- Initial, vanished <- FALSE

-----------------------------------------------------------------------------
(* Properties. *)

TypeOK ==
    /\ account \in [balance: Int, realisedPnl: Int]
    /\ book \in [Ids -> Holdings \cup {Nothing}]
    /\ \A i \in Binaries(book) : book[i].ticksLeft \in 1 .. book[i].order.ticks
    /\ \A s \in Symbols : quotes[s] # Nothing => \E mid \in Mids[s] : quotes[s] = Tick(s, mid)
    /\ stats \in [clientPnl: Int, binaries: Nat, wins: Nat, cfds: Nat]
    /\ stats.wins <= stats.binaries

\* An option that this step settles ends where it began.
TieSettled ==
    \E i \in Binaries(book) :
        /\ book'[i] = Nothing
        /\ quotes'[book[i].order.symbol].mid = book[i].entry

\* Every operation and tick of the demo does what the Rust engine's book does
\* with the same orders and quotes, margins, stop-outs and payouts included,
\* unless it settles a tie (placeCfdOrder, closeCfd, placeBinary, the tick
\* handler; on_tick, open_cfd, open_binary).
FollowsRustBook ==
    RustBook!Init /\ [][TieSettled \/ RustBook!Next]_demoVars
=============================================================================
