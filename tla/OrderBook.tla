------------------------------ MODULE OrderBook ------------------------------
(***************************************************************************)
(* The trading book of one account in the Rust engine: CFDs on margin,     *)
(* spot positions paid in full, digital options ("binaries"), and the      *)
(* ticks that revalue, close, stop out and settle them.  The engine runs   *)
(* every operation under one write lock, so each is one action.            *)
(*                                                                         *)
(* The book is in memory.  A snapshot of its balance, CFDs and spots is    *)
(* written now and then; a restart goes back to the last one, without      *)
(* options and without quotes.  Money is counted in whole units.           *)
(***************************************************************************)
EXTENDS Integers, FiniteSetsExt

CONSTANTS
    Ids,          \* identifiers of positions
    Symbols,
    Quotes,       \* the ticks each symbol's feed may give: [bid, mid, ask]
    Leverage,     \* ContractSpec.leverage of each symbol
    Menu,         \* what the client may order
    LpPrices,     \* fill prices an external liquidity provider may report
    Initial,      \* the balance at the start
    Deltas,       \* what transfers may add to the balance
    Nothing,      \* no position; no quote
    MaxCalls,     \* bound: orders and transfers
    MaxRestarts   \* bound: restarts of the engine

Kinds  == {"cfd", "spot", "binary"}
\* `size' is lots * contract_size, units, or the stake of an option.
\* A `tp' or an `sl' of 0 is none; `ticks' is the life of an option.
Orders == [kind: Kinds, symbol: Symbols, side: {"buy", "sell"},
           size: Nat, tp: Nat, sl: Nat, ticks: Nat]

\* `held' is the margin of a CFD, the stake of the others; `upnl' is
\* unrealised_pnl; `left' is ticks_left.  `marked' is a ghost: a tick has
\* revalued the position since it was opened.
Positions == [order: Menu, entry: Nat, held: Nat, upnl: Int, left: Nat, marked: BOOLEAN]

ASSUME BookAssumption ==
    /\ IsFiniteSet(Ids)
    /\ Nothing \notin Positions
    /\ Quotes \in [Symbols -> SUBSET [bid: Nat, mid: Nat, ask: Nat]]
    /\ \A s \in Symbols : Nothing \notin Quotes[s]
    /\ Leverage \in [Symbols -> Nat \ {0}]
    /\ Menu \subseteq Orders
    /\ \A o \in Menu : o.size > 0
    /\ LpPrices \subseteq Nat \ {0}
    /\ Initial \in Nat /\ Deltas \subseteq Int \ {0}
    /\ MaxCalls \in Nat /\ MaxRestarts \in Nat

VARIABLES
    balance,    \* account.balance
    pos,        \* positions, spots and binaries; Nothing where there is none
    quote,      \* the last tick of each symbol
    house,      \* house.total_client_pnl
    saved,      \* the snapshot on disk
    calls,      \* orders and transfers so far
    restarts,   \* restarts so far
    funded,     \* ghost: what the client brought in, counted from the restart
    vanished    \* ghost: since the restart, a position was removed unpaid

vars == <<balance, pos, quote, house, saved, calls, restarts, funded, vanished>>

Fresh(o, price, held) ==
    [order |-> o, entry |-> price, held |-> held, upnl |-> 0, left |-> o.ticks, marked |-> FALSE]

Live(book, kinds) == {i \in Ids : book[i] # Nothing /\ book[i].order.kind \in kinds}

Init ==
    /\ balance = Initial /\ funded = Initial /\ house = 0
    /\ pos = [i \in Ids |-> Nothing]
    /\ quote = [s \in Symbols |-> Nothing]
    /\ saved = [balance |-> Initial, pos |-> pos]
    /\ calls = 0 /\ restarts = 0 /\ vanished = FALSE

-----------------------------------------------------------------------------
(* Values. *)

\* A market order of side `side' fills at Fill and is closed at Exit.
Fill(o, q) == IF o.side = "buy" THEN q.ask ELSE q.bid
Exit(o, q) == IF o.side = "buy" THEN q.bid ELSE q.ask

\* pnl_for and spot_pnl: `units' of a spot are stake / entry.
Pnl(p, price) ==
    (IF p.order.side = "buy" THEN price - p.entry ELSE p.entry - price) * p.order.size

\* PAYOUT_MULTIPLIER = 1.85, a tie is refunded.
OptionPayout(p, mid) ==
    CASE mid = p.entry -> p.held
      [] mid > p.entry -> IF p.order.side = "buy" THEN (p.held * 37) \div 20 ELSE 0
      [] mid < p.entry -> IF p.order.side = "buy" THEN 0 ELSE (p.held * 37) \div 20

\* What the end of a position at quote q makes the client win or lose.
Gain(p, q) ==
    IF p.order.kind = "binary" THEN OptionPayout(p, q.mid) - p.held
                               ELSE Pnl(p, Exit(p.order, q))

\* What was taken from the balance when the position was opened.
Staked(p) == IF p.order.kind = "cfd" THEN 0 ELSE p.held

Stakes(book)           == SumFunction([i \in Live(book, Kinds) |-> Staked(book[i])])
UsedMargin(book)       == SumFunction([i \in Live(book, {"cfd"}) |-> book[i].held])
Equity(cash, book)     == cash + SumFunction([i \in Live(book, {"cfd"}) |-> book[i].upnl])
FreeMargin(cash, book) == Equity(cash, book) - UsedMargin(book)

\* A slip: the level is taken from the balance, the open losses left out.
BelowHalfOnBalance(cash, book) == 2 * cash < UsedMargin(book)
\* margin_level() < 50; it is infinite while no margin is used.
BelowHalf(cash, book) ==
    UsedMargin(book) # 0 /\ 2 * Equity(cash, book) < UsedMargin(book)

-----------------------------------------------------------------------------
(* Orders.  A refused order changes nothing. *)

Free == {i \in Ids : pos[i] = Nothing}

Called == calls < MaxCalls /\ calls' = calls + 1

Place(p) ==
    /\ Free # {}
    /\ pos' = [pos EXCEPT ![CHOOSE i \in Free : TRUE] = p]
    /\ UNCHANGED <<quote, house, saved, restarts, funded, vanished>>

\* open_cfd, open_cfd_with_lp_fill: the price of the provider, when it has
\* one, takes the place of the quote.
OpenCfd(o) ==
    /\ o.kind = "cfd" /\ quote[o.symbol] # Nothing /\ Called
    /\ \E entry \in {Fill(o, quote[o.symbol])} \cup LpPrices :
           LET margin == (o.size * entry) \div Leverage[o.symbol]
           IN  /\ margin <= FreeMargin(balance, pos)
               /\ Place(Fresh(o, entry, margin))
    /\ UNCHANGED balance

\* open_spot: units are stake / entry, so the stake is size * entry.
OpenSpot(o) ==
    /\ o.kind = "spot" /\ quote[o.symbol] # Nothing /\ Called
    /\ LET entry == Fill(o, quote[o.symbol])
           stake == o.size * entry
       IN  /\ stake <= balance
           /\ balance' = balance - stake
           /\ Place(Fresh(o, entry, stake))

\* A slip: the life of an option is not checked.
OpenAnyBinary(o) ==
    /\ o.kind = "binary" /\ quote[o.symbol] # Nothing /\ Called
    /\ o.size <= balance
    /\ balance' = balance - o.size
    /\ Place(Fresh(o, quote[o.symbol].mid, o.size))

\* open_binary
OpenBinary(o) ==
    /\ o.kind = "binary" /\ quote[o.symbol] # Nothing /\ Called
    /\ o.ticks \in 1 .. 200 /\ o.size <= balance
    /\ balance' = balance - o.size
    /\ Place(Fresh(o, quote[o.symbol].mid, o.size))

\* adjust_balance: one leg of a transfer.
AdjustBalance(delta) ==
    /\ Called
    /\ delta < 0 => FreeMargin(balance, pos) + delta >= 0
    /\ balance' = balance + delta /\ funded' = funded + delta
    /\ UNCHANGED <<pos, quote, house, saved, restarts, vanished>>

-----------------------------------------------------------------------------
(* The end of positions. *)

\* A slip: the stake is kept.
EndUnrefunded(ended, book, now) ==
    LET paid == {i \in ended : now[book[i].order.symbol] # Nothing}
        gain == SumFunction([i \in paid |-> Gain(book[i], now[book[i].order.symbol])])
    IN  /\ pos' = [i \in Ids |-> IF i \in ended THEN Nothing ELSE book[i]]
        /\ balance' = balance + gain
        /\ house' = house + gain
        /\ vanished' = (vanished \/ paid # ended)

\* close_cfd, close_spot and the settlement of options, for the positions
\* `ended' of `book': each is removed first, then paid out if its symbol has
\* a quote in `now'.
End(ended, book, now) ==
    LET paid == {i \in ended : now[book[i].order.symbol] # Nothing}
        gain == SumFunction([i \in paid |-> Gain(book[i], now[book[i].order.symbol])])
    IN  /\ pos' = [i \in Ids |-> IF i \in ended THEN Nothing ELSE book[i]]
        /\ balance' = balance + gain + SumFunction([i \in paid |-> Staked(book[i])])
        /\ house' = house + gain
        /\ vanished' = (vanished \/ paid # ended)

\* close_position, close_spot by the client.
Close(i) ==
    /\ i \in Live(pos, {"cfd", "spot"})
    /\ End({i}, pos, quote)
    /\ UNCHANGED <<quote, saved, calls, restarts, funded>>

\* A slip: a position is only marked at its first tick.
RemarkOnce(s, q) ==
    [i \in Ids |->
        IF pos[i] = Nothing THEN pos[i]
        ELSE CASE pos[i].order.symbol # s        -> pos[i]
               [] pos[i].order.kind = "binary"   -> [pos[i] EXCEPT !.left = @ - 1]
               [] pos[i].marked                  -> pos[i]
               [] OTHER -> [pos[i] EXCEPT !.upnl = Pnl(pos[i], Exit(pos[i].order, q)), !.marked = TRUE]]

\* Mark-to-market of the symbol's CFDs and spots; its options lose a tick.
Remark(s, q) ==
    [i \in Ids |->
        IF pos[i] = Nothing \/ pos[i].order.symbol # s THEN pos[i]
        ELSE IF pos[i].order.kind = "binary" THEN [pos[i] EXCEPT !.left = @ - 1]
        ELSE [pos[i] EXCEPT !.upnl = Pnl(pos[i], Exit(pos[i].order, q)), !.marked = TRUE]]

\* A slip: a target that is met exactly is not taken.
OverTarget(p) ==
    \/ p.order.tp > 0 /\ p.upnl > p.order.tp
    \/ p.order.sl > 0 /\ p.upnl <= - p.order.sl

\* Take-profit or stop-loss reached.
Triggered(p) ==
    \/ p.order.tp > 0 /\ p.upnl >= p.order.tp
    \/ p.order.sl > 0 /\ p.upnl <= - p.order.sl

Hit(book, s) ==
    {i \in Live(book, {"cfd", "spot"}) : book[i].order.symbol = s /\ Triggered(book[i])}

\* A slip: the first loser found rather than the worst.
Losing(book) == {i \in Live(book, {"cfd"}) : book[i].upnl < 0}

\* Any of the CFDs with the least unrealised profit, whatever its symbol.
Worst(book) ==
    {i \in Live(book, {"cfd"}) : \A j \in Live(book, {"cfd"}) : book[i].upnl <= book[j].upnl}

\* A slip: the ticks left are read before they are counted down.
ExpiredBefore(book, s) ==
    {i \in Live(book, {"binary"}) : book[i].order.symbol = s /\ pos[i].left = 0}

Expired(book, s) ==
    {i \in Live(book, {"binary"}) : book[i].order.symbol = s /\ book[i].left = 0}

\* A slip: the book keeps the last tick only, not the last of each symbol.
LastTick(s, q) == [x \in Symbols |-> IF x = s THEN q ELSE Nothing]

Requoted(s, q) == [quote EXCEPT ![s] = q]

\* on_tick: CFDs at their targets are closed, then one CFD if the margin
\* level is below half, then spots at their targets; options expire.
OnTick(s, q) ==
    LET now   == Requoted(s, q)
        book  == Remark(s, q)
        first == Hit(book, s) \cap Live(book, {"cfd"})
        kept  == [i \in Ids |-> IF i \in first THEN Nothing ELSE book[i]]
        cash  == balance + SumFunction([i \in first |-> Gain(book[i], q)])
        ended == Hit(book, s) \cup Expired(book, s)
    IN  /\ quote' = now
        /\ \/ BelowHalf(cash, kept) /\ \E i \in Worst(kept) : End(ended \cup {i}, book, now)
           \/ ~ BelowHalf(cash, kept) /\ End(ended, book, now)
        /\ UNCHANGED <<saved, calls, restarts, funded>>

-----------------------------------------------------------------------------
(* Snapshots and restarts. *)

\* BookSnapshot: the options are not part of it.
Snapshot == [i \in Ids |-> IF i \in Live(pos, {"binary"}) THEN Nothing ELSE pos[i]]

\* The snapshot is built under the lock and written by a task that nothing
\* orders or awaits: what is on disk is the image of some earlier moment.
Save ==
    /\ restarts < MaxRestarts    \* bound: no restart would read a later one
    /\ saved' = [balance |-> balance, pos |-> Snapshot]
    /\ UNCHANGED <<balance, pos, quote, house, calls, restarts, funded, vanished>>

\* Everything in memory is lost; SharedState::new restores the snapshot.
Restart ==
    /\ restarts < MaxRestarts /\ restarts' = restarts + 1
    /\ balance' = saved.balance /\ pos' = saved.pos
    /\ quote' = [s \in Symbols |-> Nothing]
    /\ house' = 0
    /\ funded' = saved.balance + Stakes(saved.pos)
    /\ vanished' = FALSE
    /\ UNCHANGED <<saved, calls>>

Tick == \E s \in Symbols : \E q \in Quotes[s] : OnTick(s, q)

Next ==
    \/ \E o \in Menu : OpenCfd(o) \/ OpenSpot(o) \/ OpenBinary(o)
    \/ \E d \in Deltas : AdjustBalance(d)
    \/ \E i \in Ids : Close(i)
    \/ Tick
    \/ Save
    \/ Restart

Spec == Init /\ [][Next]_vars
\* Each symbol's task ticks on a fixed cadence.
FairSpec == Spec /\ WF_vars(Tick)

-----------------------------------------------------------------------------
(* Properties. *)

TypeOK ==
    /\ balance \in Int /\ house \in Int /\ funded \in Int
    /\ pos \in [Ids -> Positions \cup {Nothing}]
    /\ quote \in [Symbols -> [bid: Nat, mid: Nat, ask: Nat] \cup {Nothing}]
    /\ saved \in [balance: Int, pos: [Ids -> Positions \cup {Nothing}]]
    /\ calls \in Nat /\ restarts \in 0 .. MaxRestarts /\ vanished \in BOOLEAN

\* What the client has, stakes included, is what was brought in and what the
\* house recorded as won or lost: no interleaving of orders, closings,
\* ticks and transfers pays a position twice or not at all (close_cfd,
\* close_spot, on_tick).
BooksBalance ==
    ~ vanished => balance + Stakes(pos) = funded + house

\* Until the engine restarts, every open position can be valued and no
\* closing drops it: the NoQuote branch of close_cfd and close_spot, which
\* comes after the removal, is out of reach.
QuotesKnown ==
    restarts = 0 => ~ vanished /\ \A i \in Live(pos, Kinds) : quote[pos[i].order.symbol] # Nothing

\* No open position is past its take-profit or stop-loss: whichever tick
\* reaches one closes the position, after a restart too (on_tick).
TargetsHonoured ==
    \A i \in Live(pos, {"cfd", "spot"}) :
        LET o == pos[i].order
        IN  (o.tp > 0 => pos[i].upnl < o.tp) /\ (o.sl > 0 => pos[i].upnl > - o.sl)

\* Once revalued, a position counts in the margin for exactly what closing
\* it now would pay, although closings, orders and ticks of other symbols
\* do not touch it (on_tick, close_cfd, close_spot).
MarksCurrent ==
    \A i \in Live(pos, {"cfd", "spot"}) :
        LET p == pos[i]
            q == quote[p.order.symbol]
        IN  IF p.marked THEN q # Nothing => p.upnl = Gain(p, q) ELSE p.upnl = 0

\* No option outlives its ticks, and none that is open has run out of them
\* (on_tick, open_binary).
OptionsRunning ==
    \A i \in Live(pos, {"binary"}) : pos[i].left \in 1 .. pos[i].order.ticks

\* In a tick (the steps that change a quote, but for restarts), the level of
\* a CFD at the new quotes.
Level(i) ==
    LET p == pos[i]
        s == p.order.symbol
    IN  IF quote'[s] = quote[s] THEN p.upnl ELSE Gain(p, quote'[s])

StopsTheWorst ==
    quote' # quote /\ restarts' = restarts =>
        \A i \in Live(pos, {"cfd"}) : pos'[i] = Nothing =>
            \/ Triggered([pos[i] EXCEPT !.upnl = Level(i)])
            \/ \A j \in Live(pos', {"cfd"}) : Level(i) <= pos'[j].upnl

\* A CFD that a tick closes was at its target, or none of the CFDs left
\* open was doing worse (the stop-out of on_tick).
WorstFirst == [][StopsTheWorst]_vars

\* An account that has lost more than half of its used margin does not stay
\* so: ticks close CFDs until it has not, and no order can hold them off
\* (on_tick, open_cfd).
StopOutResolves ==
    LET starved == UsedMargin(pos) # 0 /\ 2 * FreeMargin(balance, pos) < - UsedMargin(pos)
    IN  starved ~> ~ starved

\* The documentation of close_spot: the position is closed "at the current
\* market price" and its P&L returned.
ClosedAtMarket == ~ vanished
=============================================================================
