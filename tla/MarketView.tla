----------------------------- MODULE MarketView -----------------------------
(***************************************************************************)
(* The quotes and the chart of the page: live ticks and 5-second candles   *)
(* (useTicks), candles of the past (useChartHistory, Chart), the high and  *)
(* low of the day (useSessionHL) and the watchlist.                        *)
(*                                                                         *)
(* A state update and the effects it runs are one step.  The socket itself *)
(* is in AccountView; a tick that does not come is one that is lost.       *)
(***************************************************************************)
EXTENDS Integers, Sequences

CONSTANTS
    Symbols, Accounts,
    Resolutions,    \* "LIVE", "M1", "H1", ...
    Backfilled,     \* the pairs of symbol and resolution that have candles
    Mids,           \* mid prices
    DefaultList,    \* DEFAULT_WATCHLIST
    Nothing,        \* no price, no candles, nothing stored
    MaxCandles,     \* how many live candles are kept, 500 in the code
    MaxChanges      \* bound: choices, ticks, and ends of the day

VARIABLES
    symbol, acct,   \* selected, accountId
    chart,          \* Chart and useChartHistory, with its fetches on their way
    ticks,          \* allTicks: the last price of each symbol
    live,           \* lastTick and candles
    bucket,         \* the 5 seconds of the last tick
    cache,          \* localStorage otuburu.lastTicks.v1
    ranges,         \* useSessionHL
    watch,          \* localStorage otuburu.watchlist; the ids of the page's
                    \* and of the sheet's useWatchlist
    heard,          \* ghost: the ticks of the symbol since it was selected
    changes

viewVars == <<symbol, acct, chart, ticks, live, bucket, cache, ranges, watch, heard, changes>>

Change == changes < MaxChanges /\ changes' = changes + 1

-----------------------------------------------------------------------------
(* The chart of the past. *)

Key(s, a, r) == [symbol |-> s, acct |-> a, resolution |-> r]
NoCandles(shown) == shown = Nothing \/ <<shown.symbol, shown.resolution>> \notin Backfilled

\* useChartHistory, when what it fetches has changed: what was fetched before
\* is aborted; what is shown stays until the answer.
Refetch(c, s, a) ==
    LET dropped == {[f EXCEPT !.aborted = TRUE] : f \in c.fetches}
        wanted  == [of |-> Key(s, a, c.resolution), aborted |-> FALSE]
    IN  IF c.resolution = "LIVE"
        THEN [c EXCEPT !.fetches = dropped, !.shown = Nothing, !.loading = FALSE, !.failed = FALSE]
        ELSE [c EXCEPT !.fetches = dropped \cup {wanted}, !.loading = TRUE, !.failed = FALSE]

\* An M1 without candles becomes H1, once for a symbol; `seen' is the chart as
\* the effect was rendered with, before the fetch began.
Bump(c, seen, s, a) ==
    IF ~ c.bumped /\ c.resolution = "M1" /\ ~ seen.loading /\ NoCandles(seen.shown)
    THEN Refetch([c EXCEPT !.bumped = TRUE, !.resolution = "H1"], s, a)
    ELSE c

BlankChart == [resolution |-> "M1", shown |-> Nothing, loading |-> FALSE, failed |-> FALSE,
               bumped |-> FALSE, fetches |-> {}]
Mounted(s, a) == Bump(Refetch(BlankChart, s, a), BlankChart, s, a)

\* Another symbol starts at M1.
Restart(c, s, a) ==
    LET first == Refetch([c EXCEPT !.bumped = FALSE], s, a)
    IN  IF c.resolution = "M1" THEN first
        ELSE Bump(Refetch([first EXCEPT !.resolution = "M1"], s, a), first, s, a)

\* A slip: an aborted fetch is shown.
AnyFetch(f) == TRUE
\* ac.signal.aborted
Taken(f) == ~ f.aborted

-----------------------------------------------------------------------------
(* Prices. *)

Candle(tick) == [time |-> tick.time, open |-> tick.mid, high |-> tick.mid, low |-> tick.mid,
                 close |-> tick.mid]
Higher(x, y) == IF x > y THEN x ELSE y
Lower(x, y)  == IF x < y THEN x ELSE y

Grown(c, mid) == [c EXCEPT !.high = Higher(@, mid), !.low = Lower(@, mid), !.close = mid]

\* prev.slice(-499), of a list that never has more than 500.
Recent(candles) == IF Len(candles) < MaxCandles THEN candles ELSE Tail(candles)

\* The last candle takes the tick if it is of its five seconds.
BuildCandle(candles, tick) ==
    IF candles # <<>> /\ candles[Len(candles)].time = tick.time
    THEN [candles EXCEPT ![Len(candles)] = Grown(@, tick.mid)]
    ELSE Append(Recent(candles), Candle(tick))

\* The range of the day after a look at the price.
Widened(r, mid) ==
    IF mid = Nothing THEN r
    ELSE IF r = Nothing THEN [high |-> mid, low |-> mid]
    ELSE [high |-> Higher(r.high, mid), low |-> Lower(r.low, mid)]
RangesOf(r, prices) == [s \in Symbols |-> Widened(r[s], prices[s])]
NoRanges == [s \in Symbols |-> Nothing]

Seeded(prices, s) == [last |-> prices[s], candles |-> <<>>]

-----------------------------------------------------------------------------
(* The watchlist. *)

\* getWatchlist
Stored(w) == IF w.stored = Nothing THEN DefaultList ELSE w.stored
Hydrate(w) == [w EXCEPT !.page = Stored(w), !.sheet = Stored(w)]
\* setWatchlist, by the hook of the sheet.
Persist(w, ids) == [w EXCEPT !.sheet = ids, !.stored = ids]

\* The rows of the quotes, and of the bar of the desktop.
Quoted == Symbols \cap watch.page
\* Every symbol has a row in the sheet.
Managed == Symbols

-----------------------------------------------------------------------------

NoPrices == [s \in Symbols |-> Nothing]

Init ==
    /\ symbol \in DefaultList /\ acct \in Accounts
    /\ chart = Mounted(symbol, acct)
    /\ ticks = NoPrices /\ cache = NoPrices /\ live = Seeded(NoPrices, symbol)
    /\ bucket = 0 /\ ranges = NoRanges
    /\ watch = Hydrate([stored |-> Nothing, page |-> {}, sheet |-> {}])
    /\ heard = <<>> /\ changes = 0

SelectSymbol(s) ==
    /\ s \in Quoted \ {symbol} /\ Change
    /\ symbol' = s /\ heard' = <<>>
    /\ chart' = Restart(chart, s, acct)
    /\ live' = Seeded(ticks, s)
    /\ UNCHANGED <<acct, ticks, bucket, cache, ranges, watch>>

\* The socket is opened anew and the chart fetched for the account.
SwitchAccount(a) ==
    /\ a # acct /\ Change
    /\ acct' = a /\ heard' = <<>>
    /\ chart' = Refetch(chart, symbol, a)
    /\ live' = Seeded(ticks, symbol)
    /\ UNCHANGED <<symbol, ticks, bucket, cache, ranges, watch>>

\* TimeframeBar
PickResolution(r) ==
    /\ r # chart.resolution /\ Change
    /\ chart' = Bump(Refetch([chart EXCEPT !.resolution = r], symbol, acct), chart, symbol, acct)
    /\ UNCHANGED <<symbol, acct, ticks, live, bucket, cache, ranges, watch, heard>>

\* The phone mounts the chart and the quotes whenever their tab is opened.
OpenChart ==
    /\ Change
    /\ chart' = Mounted(symbol, acct)
    /\ UNCHANGED <<symbol, acct, ticks, live, bucket, cache, ranges, watch, heard>>

OpenQuotes ==
    /\ Change
    /\ ranges' = RangesOf(NoRanges, ticks)
    /\ UNCHANGED <<symbol, acct, chart, ticks, live, bucket, cache, watch, heard>>

\* Candles and trades have both come; an error that is JSON is read as no
\* candles.
FetchDone(f) ==
    /\ \E shown \in {f.of, Nothing} :
          LET rest == [chart EXCEPT !.fetches = @ \ {f}]
              done == [rest EXCEPT !.shown = shown, !.loading = FALSE]
          IN  chart' = IF Taken(f) THEN Bump(done, done, symbol, acct) ELSE rest
    /\ UNCHANGED <<symbol, acct, ticks, live, bucket, cache, ranges, watch, heard, changes>>

\* The catch: nobody is shown the error, and the chart keeps what it has.
FetchFails(f) ==
    /\ LET rest == [chart EXCEPT !.fetches = @ \ {f}]
           done == [rest EXCEPT !.failed = TRUE, !.loading = FALSE]
       IN  chart' = IF f.aborted THEN rest ELSE Bump(done, done, symbol, acct)
    /\ UNCHANGED <<symbol, acct, ticks, live, bucket, cache, ranges, watch, heard, changes>>

\* A tick of any symbol, of the five seconds of the last one or of the next.
Tick(s, tick) ==
    /\ Change /\ bucket' = tick.time
    /\ ticks' = [ticks EXCEPT ![s] = tick.mid]
    /\ ranges' = RangesOf(ranges, ticks')
    /\ live' = IF s = symbol
               THEN [last |-> tick.mid, candles |-> BuildCandle(live.candles, tick)] ELSE live
    /\ heard' = IF s = symbol THEN Append(heard, tick) ELSE heard
    /\ UNCHANGED <<symbol, acct, chart, cache, watch>>

\* UTC midnight.
ResetRanges ==
    /\ Change /\ ranges' = NoRanges
    /\ UNCHANGED <<symbol, acct, chart, ticks, live, bucket, cache, watch, heard>>

\* Half a second without a tick.
PersistTicks ==
    /\ cache # ticks /\ cache' = ticks
    /\ UNCHANGED <<symbol, acct, chart, ticks, live, bucket, ranges, watch, heard, changes>>

\* ManageSymbolsSheet: the page's own list stays what it was.
Toggle(s) ==
    /\ s \in Managed /\ Change
    /\ watch' = Persist(watch, IF s \in watch.sheet THEN watch.sheet \ {s} ELSE watch.sheet \cup {s})
    /\ UNCHANGED <<symbol, acct, chart, ticks, live, bucket, cache, ranges, heard>>

\* Prices more than seven days old are forgotten.
HydrateTicks(recent) == [s \in Symbols |-> IF s \in recent THEN cache[s] ELSE Nothing]

LoadPage(recent) ==
    /\ Change
    /\ ticks' = HydrateTicks(recent)
    /\ live' = Seeded(ticks', symbol) /\ heard' = <<>>
    /\ chart' = Mounted(symbol, acct)
    /\ ranges' = RangesOf(NoRanges, ticks')
    /\ watch' = Hydrate(watch)
    /\ UNCHANGED <<symbol, acct, bucket, cache>>

Next ==
    \/ \E s \in Symbols : SelectSymbol(s) \/ Toggle(s)
    \/ \E s \in Symbols : \E tick \in [time: {bucket, bucket + 1}, mid: Mids] : Tick(s, tick)
    \/ \E a \in Accounts : SwitchAccount(a)
    \/ \E r \in Resolutions : PickResolution(r)
    \/ \E f \in chart.fetches : FetchDone(f) \/ FetchFails(f)
    \/ OpenChart \/ OpenQuotes \/ ResetRanges \/ PersistTicks
    \/ \E recent \in SUBSET Symbols : LoadPage(recent)

Spec == Init /\ [][Next]_viewVars

-----------------------------------------------------------------------------
(* Properties. *)

Keys == [symbol: Symbols, acct: Accounts, resolution: Resolutions \ {"LIVE"}]

TypeOK ==
    /\ symbol \in Symbols /\ acct \in Accounts
    /\ chart \in [resolution: Resolutions, shown: Keys \cup {Nothing}, loading: BOOLEAN,
                  failed: BOOLEAN, bumped: BOOLEAN, fetches: SUBSET [of: Keys, aborted: BOOLEAN]]
    /\ {ticks, cache} \subseteq [Symbols -> Mids \cup {Nothing}]
    /\ watch.page \cup watch.sheet \subseteq Symbols /\ watch.sheet = Stored(watch)

\* The chart waits for what is selected and shows that or nothing once it was
\* answered, in whatever order symbols, accounts and resolutions are chosen and
\* fetches answered; while it waits, and after a failure, it may show another
\* symbol.
HistoryCurrent ==
    LET now == Key(symbol, acct, chart.resolution)
    IN  /\ chart.loading <=> [of |-> now, aborted |-> FALSE] \in chart.fetches
        /\ chart.shown \in {now, Nothing} \/ chart.loading \/ chart.failed

\* Every live candle is that of the ticks of the symbol in its five seconds,
\* and every tick has its candle, but those before MaxCandles newer ones.
CandlesFaithful ==
    /\ Len(live.candles) <= MaxCandles
    /\ \A h \in 1..Len(heard) :
          \/ \E i \in 1..Len(live.candles) : live.candles[i].time = heard[h].time
          \/ Len(live.candles) = MaxCandles /\ heard[h].time < live.candles[1].time
    /\ \A i \in 1..Len(live.candles) :
          LET c  == live.candles[i]
              hs == {h \in 1..Len(heard) : heard[h].time = c.time}
          IN  /\ i > 1 => live.candles[i - 1].time < c.time
              /\ \E h \in hs : heard[h].mid = c.open /\ \A g \in hs : h <= g
              /\ \E h \in hs : heard[h].mid = c.close /\ \A g \in hs : g <= h
              /\ \A h \in hs : c.low <= heard[h].mid /\ heard[h].mid <= c.high
              /\ c.low \in {heard[h].mid : h \in hs} /\ c.high \in {heard[h].mid : h \in hs}

\* The range of the day has the price that is shown beside it.
RangesHold ==
    \A s \in Symbols : ranges[s] # Nothing =>
        ticks[s] # Nothing /\ ranges[s].low <= ticks[s] /\ ticks[s] <= ranges[s].high

\* What is drawn is of what is selected, or on its way (useChartHistory,
\* Chart, useTicks buildCandle, useSessionHL).
ViewSound == HistoryCurrent /\ CandlesFaithful /\ RangesHold
=============================================================================
