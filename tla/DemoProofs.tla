----------------------------- MODULE DemoProofs -----------------------------
(***************************************************************************)
(* The demo engine does what the Rust engine's book does with the same     *)
(* orders and quotes, for any number of positions, symbols and prices: its *)
(* variables keep their types, and each of its steps is a step of          *)
(* OrderBook or settles a tie.                                             *)
(*                                                                         *)
(* The two books mark, stop out and settle by the same arithmetic but in   *)
(* different steps: OrderBook revalues every position and removes those    *)
(* that end, DemoEngine counts its options down as well and sums over the  *)
(* positions of the symbol only.  MarkedBook and LeftBook name what is in  *)
(* between, RemarkFollows, TickMargins and EndFollows relate the two, and  *)
(* the sums over positions are equal because their terms are (Sums).       *)
(***************************************************************************)
EXTENDS Browser, Sums

-----------------------------------------------------------------------------
(* DemoEngine: its state. *)

LEMMA DemoGiven ==
  /\ IsFiniteSet(DemoIds) /\ DemoInitial \in Int
  /\ DemoOrders \subseteq [kind: {"cfd", "binary"}, symbol: DemoSymbols, side: {"buy", "sell"},
                           size: Nat, tp: {0}, sl: {0}, ticks: Nat]
  /\ DemoLeverage \in [DemoSymbols -> Nat \ {0}] /\ DemoSpread \in [DemoSymbols -> Nat]
  /\ \A s \in DemoSymbols : \A mid \in DemoMids[s] : mid \in Nat /\ mid > DemoSpread[s]
  /\ None \notin Demo!Holdings /\ None \notin Demo!Ticks /\ None \notin Demo!RustHoldings
BY BrowserGiven

Demands ==
    [kind: {"cfd", "binary"}, symbol: DemoSymbols, side: {"buy", "sell"}, size: Nat, tp: {0}, sl: {0},
     ticks: Nat]
LEMMA OrdersAreDemands == DemoOrders \subseteq Demands
BY DemoGiven DEF Demands

DemoBooks == [DemoIds -> Demo!Holdings \cup {None}]

(* A position's symbol has a quote, and an option has ticks to go.          *)
Running(p, now) ==
    /\ now[p.order.symbol] # None
    /\ p.order.kind = "binary" => p.ticksLeft \in 1 .. p.order.ticks

DemoTyped ==
    /\ account \in [balance: Int, realisedPnl: Int]
    /\ book \in DemoBooks /\ \A i \in DemoIds : book[i] # None => Running(book[i], quotes)
    /\ quotes \in [DemoSymbols -> Demo!Ticks \cup {None}]
    /\ \A s \in DemoSymbols : quotes[s] # None => \E mid \in DemoMids[s] : quotes[s] = Demo!Tick(s, mid)
    /\ stats \in [clientPnl: Int, binaries: Nat, wins: Nat, cfds: Nat]
    /\ stats.wins + Cardinality(Demo!Binaries(book)) <= stats.binaries

LEMMA TradeFields ==
  ASSUME NEW p \in Demo!Holdings
  PROVE  /\ p.order \in DemoOrders /\ p.order \in Demands
         /\ p.order.kind \in {"cfd", "binary"} /\ p.order.symbol \in DemoSymbols
         /\ p.order.size \in Nat /\ p.order.tp = 0 /\ p.order.sl = 0 /\ p.order.ticks \in Nat
         /\ p.entry \in Int /\ p.margin \in Nat /\ p.unrealisedPnl \in Int /\ p.ticksLeft \in Int
         /\ p.marked \in BOOLEAN /\ p # None
<1>1. p.order \in DemoOrders /\ p.order \in Demands
  BY OrdersAreDemands DEF Demo!Holdings
<1>2. /\ p.order.kind \in {"cfd", "binary"} /\ p.order.symbol \in DemoSymbols
      /\ p.order.size \in Nat /\ p.order.tp = 0 /\ p.order.sl = 0 /\ p.order.ticks \in Nat
  BY <1>1 DEF Demands
<1>3. /\ p.entry \in Int /\ p.margin \in Nat /\ p.unrealisedPnl \in Int /\ p.ticksLeft \in Int
      /\ p.marked \in BOOLEAN
  BY DEF Demo!Holdings
<1>4. p # None
  BY DemoGiven
<1> QED
  BY <1>1, <1>2, <1>3, <1>4

LEMMA DemoTicks ==
  ASSUME NEW s \in DemoSymbols, NEW mid \in DemoMids[s]
  PROVE  /\ Demo!Tick(s, mid) \in Demo!Ticks /\ Demo!Tick(s, mid) # None
         /\ Demo!Tick(s, mid).mid = mid /\ mid \in Nat
         /\ Demo!Tick(s, mid).bid \in Nat /\ Demo!Tick(s, mid).ask \in Nat
<1>1. mid \in Nat /\ DemoSpread[s] \in Nat /\ mid > DemoSpread[s]
  BY DemoGiven
<1>2. /\ Demo!Tick(s, mid) \in Demo!Ticks
      /\ Demo!Tick(s, mid).mid = mid
      /\ Demo!Tick(s, mid).bid \in Nat /\ Demo!Tick(s, mid).ask \in Nat
  BY <1>1 DEF Demo!Tick, Demo!Ticks
<1> QED
  BY <1>1, <1>2, DemoGiven

LEMMA PayoutType ==
  ASSUME NEW p \in Demo!Holdings, NEW mid \in Int
  PROVE  Demo!Payout(p, mid) \in Int
<1>1. p.order.size \in Nat
  BY TradeFields
<1>2. \A n \in Nat : (n * 37) \div 20 \in Int
  OBVIOUS
<1> QED
  BY <1>1, <1>2 DEF Demo!Payout

LEMMA GainType ==
  ASSUME NEW p \in Demo!Holdings, NEW q \in Demo!Ticks
  PROVE  Demo!CloseGain(p, q) \in Int
<1>1. /\ p.order.size \in Int /\ p.entry \in Int /\ q.bid \in Int /\ q.ask \in Int
  BY TradeFields DEF Demo!Ticks
<1>2. \A a, b, n \in Int : (a - b) * n \in Int
  OBVIOUS
<1> QED
  BY <1>1, <1>2 DEF Demo!CloseGain, Demo!PnlFor

LEMMA DemoCounts == \A S : Demo!Cardinality(S) = Cardinality(S)
BY DEF Demo!Cardinality, Cardinality

LEMMA DemoSums == \A f : Demo!SumFunction(f) = Sum(f, DOMAIN f)
<1>1. ASSUME NEW f PROVE Demo!SumFunction(f) = SumFunction(f)
  BY DEF Demo!SumFunction, Demo!SumFunctionOnSet, Demo!FoldFunctionOnSet, Demo!MapThenFoldSet,
         SumFunction, SumFunctionOnSet, FoldFunctionOnSet, MapThenFoldSet
<1> QED
  BY <1>1, SumOfFunction

LEMMA RustSums == \A f : Demo!RustBook!SumFunction(f) = Sum(f, DOMAIN f)
<1>1. ASSUME NEW f PROVE Demo!RustBook!SumFunction(f) = SumFunction(f)
  BY DEF Demo!RustBook!SumFunction, Demo!RustBook!SumFunctionOnSet,
         Demo!RustBook!FoldFunctionOnSet, Demo!RustBook!MapThenFoldSet,
         SumFunction, SumFunctionOnSet, FoldFunctionOnSet, MapThenFoldSet
<1> QED
  BY <1>1, SumOfFunction

LEMMA DemoFinite ==
  ASSUME NEW S, S \subseteq DemoIds
  PROVE  IsFiniteSet(S) /\ Cardinality(S) \in Nat
BY DemoGiven, FS_Subset, FS_CardinalityType

(* An order that is placed takes a free identifier.                         *)
LEMMA BookPlaced ==
  ASSUME DemoTyped, NEW p \in Demo!Holdings, Demo!Placed(p), Running(p, quotes), quotes' = quotes
  PROVE  /\ book' \in DemoBooks /\ \A i \in DemoIds : book'[i] # None => Running(book'[i], quotes)
         /\ Cardinality(Demo!Binaries(book')) =
              Cardinality(Demo!Binaries(book)) + (IF p.order.kind = "binary" THEN 1 ELSE 0)
         /\ \E i \in DemoIds : book[i] = None /\ book' = [book EXCEPT ![i] = p]
<1>0. book \in DemoBooks /\ \A i \in DemoIds : book[i] # None => Running(book[i], quotes)
  BY DEF DemoTyped
<1>1. PICK i \in DemoIds : book[i] = None /\ book' = [book EXCEPT ![i] = p]
  BY DEF Demo!Placed, Demo!Free
<1>2. book' \in DemoBooks
  BY <1>0, <1>1 DEF DemoBooks
<1>3. book'[i] = p /\ \A j \in DemoIds \ {i} : book'[j] = book[j]
  BY <1>0, <1>1 DEF DemoBooks
<1>4. \A j \in DemoIds : book'[j] # None => Running(book'[j], quotes)
  BY <1>0, <1>3
<1>5. p # None
  BY TradeFields
<1>6. IsFiniteSet(Demo!Binaries(book)) /\ Cardinality(Demo!Binaries(book)) \in Nat
  BY DemoFinite DEF Demo!Binaries
<1>7. i \notin Demo!Binaries(book)
  BY <1>1 DEF Demo!Binaries
<1>8. CASE p.order.kind = "binary"
  <2>1. Demo!Binaries(book') = Demo!Binaries(book) \cup {i}
    BY <1>3, <1>5, <1>8, <1>7 DEF Demo!Binaries
  <2> QED
    BY <1>1, <1>2, <1>4, <1>6, <1>7, <1>8, <2>1, FS_AddElement
<1>9. CASE p.order.kind # "binary"
  <2>1. Demo!Binaries(book') = Demo!Binaries(book)
    BY <1>3, <1>9, <1>7 DEF Demo!Binaries
  <2>2. Cardinality(Demo!Binaries(book')) =
          Cardinality(Demo!Binaries(book)) + (IF p.order.kind = "binary" THEN 1 ELSE 0)
    BY <1>6, <1>9, <2>1
  <2> QED
    BY <1>1, <1>2, <1>4, <2>2
<1> QED
  BY <1>8, <1>9

(* A tick: what Marked and CountDown do of each position, and that Remark   *)
(* of the Rust engine's book does the same.                                 *)
MarkedBook(s, q)  == Demo!Marked(s, q)
CountedBook(s, q) == Demo!CountDown(MarkedBook(s, q), s)

Twin(p, d) ==
    /\ d \in Demo!Holdings /\ d # None /\ d.order = p.order /\ d.entry = p.entry /\ d.margin = p.margin

Remarked(m, s, q) ==
    IF m.order.symbol # s THEN m
    ELSE IF m.order.kind = "binary" THEN [m EXCEPT !.left = @ - 1]
    ELSE [m EXCEPT !.upnl = Demo!RustBook!Pnl(m, Demo!RustBook!Exit(m.order, q)), !.marked = TRUE]

LEMMA MappedFields ==
  ASSUME NEW p \in Demo!Holdings
  PROVE  LET m == Demo!Mapped(p)
         IN  /\ m \in Demo!RustHoldings /\ m # None
             /\ m.order = p.order /\ m.entry = p.entry /\ m.upnl = p.unrealisedPnl
             /\ m.left = p.ticksLeft /\ m.marked = p.marked
             /\ m.held = IF p.order.kind = "cfd" THEN p.margin ELSE p.order.size
<1> DEFINE m == Demo!Mapped(p)
<1>1. /\ m.order = p.order /\ m.entry = p.entry /\ m.upnl = p.unrealisedPnl
      /\ m.left = p.ticksLeft /\ m.marked = p.marked
      /\ m.held = IF p.order.kind = "cfd" THEN p.margin ELSE p.order.size
  BY DEF Demo!Mapped
<1>2. p.order.size \in Nat /\ p.margin \in Nat
  BY TradeFields
<1>3. m \in Demo!RustHoldings
  BY <1>2 DEF Demo!Mapped, Demo!RustHoldings, Demo!Holdings
<1>4. m # None
  BY <1>3, DemoGiven
<1> QED
  BY <1>1, <1>3, <1>4

LEMMA SameRustTrade ==
  ASSUME NEW m \in Demo!RustHoldings, NEW n \in Demo!RustHoldings,
         m.order = n.order, m.entry = n.entry, m.held = n.held, m.upnl = n.upnl, m.left = n.left,
         m.marked = n.marked
  PROVE  m = n
BY DEF Demo!RustHoldings

LEMMA MarkedTrade ==
  ASSUME NEW p \in Demo!Holdings, NEW gain \in Int
  PROVE  LET d == [p EXCEPT !.unrealisedPnl = gain, !.marked = TRUE]
         IN  /\ Twin(p, d) /\ d.unrealisedPnl = gain /\ d.ticksLeft = p.ticksLeft
             /\ Demo!Mapped(d) = [Demo!Mapped(p) EXCEPT !.upnl = gain, !.marked = TRUE]
<1> DEFINE d == [p EXCEPT !.unrealisedPnl = gain, !.marked = TRUE]
           m == Demo!Mapped(p)
           n == [m EXCEPT !.upnl = gain, !.marked = TRUE]
<1>1. /\ d \in Demo!Holdings /\ d.order = p.order /\ d.entry = p.entry /\ d.margin = p.margin
      /\ d.unrealisedPnl = gain /\ d.ticksLeft = p.ticksLeft
  BY DEF Demo!Holdings
<1>2. d.marked = TRUE
  BY DEF Demo!Holdings
<1> HIDE DEF d
<1>3. d # None /\ p # None
  BY <1>1, TradeFields
<1>4. m \in Demo!RustHoldings /\ m.order = p.order /\ m.entry = p.entry /\ m.left = p.ticksLeft
  BY MappedFields
<1>5. m.held = IF p.order.kind = "cfd" THEN p.margin ELSE p.order.size
  BY MappedFields
<1> HIDE DEF m
<1>6. /\ n \in Demo!RustHoldings /\ n.order = m.order /\ n.entry = m.entry /\ n.held = m.held
      /\ n.upnl = gain /\ n.left = m.left
  BY <1>4 DEF Demo!RustHoldings
<1>7. n.marked = TRUE
  BY <1>4 DEF Demo!RustHoldings
<1> HIDE DEF n
<1> DEFINE k == Demo!Mapped(d)
<1>8. /\ k \in Demo!RustHoldings /\ k.order = d.order /\ k.entry = d.entry /\ k.left = d.ticksLeft
      /\ k.upnl = gain
  BY <1>1, MappedFields
<1>9. k.marked = TRUE
  BY <1>1, <1>2, MappedFields
<1>10. k.held = IF d.order.kind = "cfd" THEN d.margin ELSE d.order.size
  BY <1>1, MappedFields
<1> HIDE DEF k
<1>11. k.held = n.held
  BY <1>1, <1>5, <1>6, <1>10
<1>12. k.order = n.order /\ k.entry = n.entry /\ k.left = n.left /\ k.upnl = n.upnl
  BY <1>1, <1>4, <1>6, <1>8
<1>13. k = n
  BY <1>6, <1>7, <1>8, <1>9, <1>11, <1>12, SameRustTrade
<1> QED
  BY <1>1, <1>3, <1>13 DEF d, k, n, m, Twin

LEMMA CountedTrade ==
  ASSUME NEW p \in Demo!Holdings
  PROVE  LET d == [p EXCEPT !.ticksLeft = @ - 1]
         IN  /\ Twin(p, d) /\ d.unrealisedPnl = p.unrealisedPnl /\ d.ticksLeft = p.ticksLeft - 1
             /\ Demo!Mapped(d) = [Demo!Mapped(p) EXCEPT !.left = @ - 1]
<1> DEFINE d == [p EXCEPT !.ticksLeft = @ - 1]
<1>0. p.ticksLeft \in Int
  BY TradeFields
<1>1. /\ d \in Demo!Holdings /\ d.order = p.order /\ d.entry = p.entry /\ d.margin = p.margin
      /\ d.unrealisedPnl = p.unrealisedPnl /\ d.ticksLeft = p.ticksLeft - 1
  BY <1>0 DEF Demo!Holdings
<1>2. d.marked = p.marked
  BY DEF Demo!Holdings
<1> HIDE DEF d
<1>3. Demo!Mapped(d) = [Demo!Mapped(p) EXCEPT !.left = @ - 1]
  BY <1>1, <1>2 DEF Demo!Mapped
<1>4. d # None
  BY <1>1, TradeFields
<1> QED
  BY <1>1, <1>3, <1>4 DEF d, Twin

LEMMA TickedTrade ==
  ASSUME DemoTyped, NEW s \in DemoSymbols, NEW q \in Demo!Ticks, NEW i \in DemoIds, book[i] # None
  PROVE  /\ book[i] \in Demo!Holdings
         /\ Twin(book[i], MarkedBook(s, q)[i]) /\ Twin(book[i], CountedBook(s, q)[i])
         /\ CountedBook(s, q)[i].unrealisedPnl = MarkedBook(s, q)[i].unrealisedPnl
         /\ CountedBook(s, q)[i].ticksLeft =
                IF book[i].order.symbol = s /\ book[i].order.kind = "binary"
                THEN book[i].ticksLeft - 1 ELSE book[i].ticksLeft
         /\ Demo!Mapped(CountedBook(s, q)[i]) = Remarked(Demo!Mapped(book[i]), s, q)
<1> DEFINE p == book[i]
           b == MarkedBook(s, q)
           c == CountedBook(s, q)
           m == Demo!Mapped(p)
           d == [p EXCEPT !.unrealisedPnl = Demo!CloseGain(p, q), !.marked = TRUE]
           e == [p EXCEPT !.ticksLeft = @ - 1]
<1>0. p \in Demo!Holdings
  BY DEF DemoTyped, DemoBooks
<1>1. b[i] = IF p.order.kind = "cfd" /\ p.order.symbol = s THEN d ELSE p
  BY DEF MarkedBook, Demo!Marked, Demo!Positions
<1>2. c[i] = IF b[i] # None /\ b[i].order.kind = "binary" /\ b[i].order.symbol = s
             THEN [b[i] EXCEPT !.ticksLeft = @ - 1] ELSE b[i]
  BY DEF CountedBook, Demo!CountDown, Demo!Binaries
<1>3. p.order.kind \in {"cfd", "binary"} /\ p # None
  BY <1>0, TradeFields
<1>4. m.order = p.order
  BY <1>0, MappedFields
<1>5. Demo!CloseGain(p, q) \in Int
  BY <1>0, GainType
<1>6. /\ Twin(p, d) /\ d.unrealisedPnl = Demo!CloseGain(p, q) /\ d.ticksLeft = p.ticksLeft
      /\ Demo!Mapped(d) = [m EXCEPT !.upnl = Demo!CloseGain(p, q), !.marked = TRUE]
  BY <1>0, <1>5, MarkedTrade
<1>7. Demo!CloseGain(p, q) = Demo!RustBook!Pnl(m, Demo!RustBook!Exit(m.order, q))
  BY <1>0, MappedFields DEF Demo!CloseGain, Demo!PnlFor, Demo!RustBook!Pnl, Demo!RustBook!Exit
<1>8. /\ Twin(p, e) /\ e.unrealisedPnl = p.unrealisedPnl /\ e.ticksLeft = p.ticksLeft - 1
      /\ Demo!Mapped(e) = [m EXCEPT !.left = @ - 1]
  BY <1>0, CountedTrade
<1>9. Twin(p, p)
  BY <1>0, <1>3 DEF Twin
<1> SUFFICES /\ Twin(p, b[i]) /\ Twin(p, c[i]) /\ c[i].unrealisedPnl = b[i].unrealisedPnl
             /\ c[i].ticksLeft = IF p.order.symbol = s /\ p.order.kind = "binary"
                                 THEN p.ticksLeft - 1 ELSE p.ticksLeft
             /\ Demo!Mapped(c[i]) = Remarked(m, s, q)
  BY <1>0
<1>10. CASE p.order.symbol # s
  <2>1. b[i] = p
    BY <1>1, <1>10
  <2>2. c[i] = p
    BY <1>2, <1>10, <2>1
  <2>3. Remarked(m, s, q) = m
    BY <1>4, <1>10 DEF Remarked
  <2> QED
    BY <1>9, <1>10, <2>1, <2>2, <2>3
<1>11. CASE p.order.symbol = s /\ p.order.kind = "binary"
  <2>1. b[i] = p
    BY <1>1, <1>11
  <2>2. c[i] = e
    BY <1>2, <1>3, <1>11, <2>1
  <2>3. Remarked(m, s, q) = [m EXCEPT !.left = @ - 1]
    BY <1>4, <1>11 DEF Remarked
  <2> HIDE DEF b, c, e, m
  <2> QED
    BY <1>8, <1>9, <1>11, <2>1, <2>2, <2>3
<1>12. CASE p.order.symbol = s /\ p.order.kind = "cfd"
  <2>1. b[i] = d
    BY <1>1, <1>12
  <2> HIDE DEF d
  <2>2. c[i] = d
    BY <1>2, <1>6, <1>12, <2>1 DEF Twin
  <2>3. Remarked(m, s, q) = [m EXCEPT !.upnl = Demo!CloseGain(p, q), !.marked = TRUE]
    BY <1>4, <1>7, <1>12 DEF Remarked
  <2> HIDE DEF b, c, m
  <2> QED
    BY <1>6, <1>12, <2>1, <2>2, <2>3
<1> QED
  BY <1>3, <1>10, <1>11, <1>12

LEMMA NoneStays ==
  ASSUME NEW s, NEW q, NEW i \in DemoIds, book[i] = None
  PROVE  MarkedBook(s, q)[i] = None /\ CountedBook(s, q)[i] = None
<1>1. MarkedBook(s, q)[i] = None
  BY DEF MarkedBook, Demo!Marked, Demo!Positions
<1> QED
  BY <1>1 DEF CountedBook, Demo!CountDown, Demo!Binaries

LEMMA TickedBook ==
  ASSUME DemoTyped, NEW s \in DemoSymbols, NEW q \in Demo!Ticks
  PROVE  /\ MarkedBook(s, q) \in DemoBooks /\ CountedBook(s, q) \in DemoBooks
         /\ Demo!Positions(MarkedBook(s, q)) = Demo!Positions(book)
         /\ Demo!Positions(CountedBook(s, q)) = Demo!Positions(book)
         /\ Demo!Binaries(MarkedBook(s, q)) = Demo!Binaries(book)
         /\ Demo!Binaries(CountedBook(s, q)) = Demo!Binaries(book)
<1> DEFINE b == MarkedBook(s, q)
           c == CountedBook(s, q)
<1>1. b = [i \in DemoIds |-> b[i]] /\ c = [i \in DemoIds |-> c[i]]
  BY DEF MarkedBook, Demo!Marked, CountedBook, Demo!CountDown
<1>2. \A i \in DemoIds : book[i] # None => Twin(book[i], b[i]) /\ Twin(book[i], c[i])
  BY TickedTrade
<1>3. \A i \in DemoIds : book[i] = None => b[i] = None /\ c[i] = None
  BY NoneStays
<1> HIDE DEF b, c
<1>4. b \in DemoBooks /\ c \in DemoBooks
  BY <1>1, <1>2, <1>3 DEF DemoBooks, Twin
<1>5. Demo!Positions(b) = Demo!Positions(book) /\ Demo!Positions(c) = Demo!Positions(book)
  BY <1>2, <1>3 DEF Demo!Positions, Twin
<1>6. Demo!Binaries(b) = Demo!Binaries(book) /\ Demo!Binaries(c) = Demo!Binaries(book)
  BY <1>2, <1>3 DEF Demo!Binaries, Twin
<1> QED
  BY <1>4, <1>5, <1>6 DEF b, c
(* The options that a tick ends.                                            *)
Lapsed(s, q) ==
    {i \in Demo!Binaries(MarkedBook(s, q)) :
        CountedBook(s, q)[i].order.symbol = s /\ CountedBook(s, q)[i].ticksLeft <= 0}

Winners(s, q, mid) == {i \in Lapsed(s, q) : Demo!Won(MarkedBook(s, q)[i], mid)}

LeftBook(s, q, D) ==
    [i \in DemoIds |-> IF i \in Lapsed(s, q) \cup D THEN None ELSE CountedBook(s, q)[i]]

PaidAccount(s, q, mid, pnl) ==
    [balance |-> account.balance + pnl + Demo!Payouts(MarkedBook(s, q), Lapsed(s, q), mid),
     realisedPnl |-> account.realisedPnl + pnl]

LEMMA LapsedOptions ==
  ASSUME DemoTyped, NEW s \in DemoSymbols, NEW q \in Demo!Ticks
  PROVE  /\ Lapsed(s, q) \subseteq Demo!Binaries(book) /\ IsFiniteSet(Lapsed(s, q))
         /\ \A i \in Demo!Binaries(book) :
                /\ i \in Lapsed(s, q) <=> book[i].order.symbol = s /\ CountedBook(s, q)[i].ticksLeft = 0
                /\ i \notin Lapsed(s, q) => CountedBook(s, q)[i].ticksLeft \in 1 .. book[i].order.ticks
<1> DEFINE c == CountedBook(s, q)
<1>1. Demo!Binaries(MarkedBook(s, q)) = Demo!Binaries(book)
  BY TickedBook
<1>2. Lapsed(s, q) \subseteq Demo!Binaries(book)
  BY <1>1 DEF Lapsed
<1>3. IsFiniteSet(Lapsed(s, q))
  BY <1>2, DemoFinite DEF Demo!Binaries
<1>4. ASSUME NEW i \in Demo!Binaries(book)
      PROVE  /\ i \in Lapsed(s, q) <=> book[i].order.symbol = s /\ c[i].ticksLeft = 0
             /\ i \notin Lapsed(s, q) => c[i].ticksLeft \in 1 .. book[i].order.ticks
  <2>1. i \in DemoIds /\ book[i] # None /\ book[i].order.kind = "binary"
    BY DEF Demo!Binaries
  <2>2. book[i].ticksLeft \in 1 .. book[i].order.ticks
    BY <2>1 DEF DemoTyped, Running
  <2>3. book[i].order.ticks \in Nat
    BY <2>1, TickedTrade, TradeFields
  <2>4. c[i].order = book[i].order
    BY <2>1, TickedTrade DEF Twin
  <2>5. c[i].ticksLeft = IF book[i].order.symbol = s THEN book[i].ticksLeft - 1 ELSE book[i].ticksLeft
    BY <2>1, TickedTrade
  <2>6. i \in Lapsed(s, q) <=> book[i].order.symbol = s /\ c[i].ticksLeft <= 0
    BY <1>1, <2>4 DEF Lapsed
  <2> HIDE DEF c
  <2> QED
    BY <2>2, <2>3, <2>5, <2>6
<1> QED
  BY <1>2, <1>3, <1>4

LEMMA QuotesMove ==
  ASSUME DemoTyped, NEW s \in DemoSymbols, NEW mid \in DemoMids[s],
         quotes' = [quotes EXCEPT ![s] = Demo!Tick(s, mid)]
  PROVE  /\ quotes' \in [DemoSymbols -> Demo!Ticks \cup {None}]
         /\ \A x \in DemoSymbols : quotes'[x] # None => \E m \in DemoMids[x] : quotes'[x] = Demo!Tick(x, m)
         /\ \A x \in DemoSymbols : quotes[x] # None => quotes'[x] # None
         /\ quotes'[s] = Demo!Tick(s, mid)
<1>0. /\ quotes \in [DemoSymbols -> Demo!Ticks \cup {None}]
      /\ \A x \in DemoSymbols : quotes[x] # None => \E m \in DemoMids[x] : quotes[x] = Demo!Tick(x, m)
  BY DEF DemoTyped
<1>1. Demo!Tick(s, mid) \in Demo!Ticks /\ Demo!Tick(s, mid) # None
  BY DemoTicks
<1>2. quotes'[s] = Demo!Tick(s, mid) /\ \A x \in DemoSymbols \ {s} : quotes'[x] = quotes[x]
  BY <1>0
<1>3. quotes' \in [DemoSymbols -> Demo!Ticks \cup {None}]
  BY <1>0, <1>1
<1> QED
  BY <1>0, <1>1, <1>2, <1>3

LEMMA SettledBook ==
  ASSUME DemoTyped, NEW s \in DemoSymbols, NEW q \in Demo!Ticks, NEW mid, NEW pnl,
         NEW D, D \subseteq Demo!Positions(book),
         Demo!Settle(MarkedBook(s, q), s, mid, D, pnl)
  PROVE  /\ book' = LeftBook(s, q, D)
         /\ book' \in DemoBooks
         /\ Demo!Binaries(book') = Demo!Binaries(book) \ Lapsed(s, q)
         /\ account' = PaidAccount(s, q, mid, pnl)
         /\ stats' = [stats EXCEPT
                !.clientPnl = @ + pnl + Demo!HouseLoss(Lapsed(s, q), mid),
                !.wins = @ + Cardinality(Winners(s, q, mid))]
<1>1. /\ book' = LeftBook(s, q, D)
      /\ account' = PaidAccount(s, q, mid, pnl)
      /\ stats' = [stats EXCEPT
             !.clientPnl = @ + pnl + Demo!HouseLoss(Lapsed(s, q), mid),
             !.wins = @ + Demo!Cardinality(Winners(s, q, mid))]
  BY DEF Demo!Settle, PaidAccount, LeftBook, Lapsed, CountedBook, Winners
<1>2. stats' = [stats EXCEPT
             !.clientPnl = @ + pnl + Demo!HouseLoss(Lapsed(s, q), mid),
             !.wins = @ + Cardinality(Winners(s, q, mid))]
  BY <1>1, DemoCounts
<1>3. CountedBook(s, q) \in DemoBooks /\ Demo!Binaries(CountedBook(s, q)) = Demo!Binaries(book)
  BY TickedBook
<1>4. book' \in DemoBooks
  BY <1>1, <1>3 DEF DemoBooks, LeftBook
<1>5. \A i \in D : i \in DemoIds /\ i \notin Demo!Binaries(book)
  BY DEF Demo!Positions, Demo!Binaries
<1>6. Demo!Binaries(book') = Demo!Binaries(book) \ Lapsed(s, q)
  BY <1>1, <1>3, <1>5 DEF Demo!Binaries, LeftBook
<1> QED
  BY <1>1, <1>2, <1>4, <1>6

LEMMA CountsSettled ==
  ASSUME NEW B, NEW L, NEW W, IsFiniteSet(B), L \subseteq B, W \subseteq L, NEW wins \in Nat, NEW all \in Nat,
         wins + Cardinality(B) <= all
  PROVE  /\ Cardinality(W) \in Nat
         /\ wins + Cardinality(W) + Cardinality(B \ L) <= all
<1>1. /\ IsFiniteSet(L) /\ Cardinality(L) \in Nat /\ Cardinality(B) \in Nat
      /\ Cardinality(L) <= Cardinality(B)
  BY FS_Subset, FS_CardinalityType
<1>2. Cardinality(W) \in Nat /\ Cardinality(W) <= Cardinality(L)
  BY <1>1, FS_Subset, FS_CardinalityType
<1>3. B \cap L = L
  OBVIOUS
<1>4. Cardinality(B \ L) = Cardinality(B) - Cardinality(L)
  BY <1>1, <1>3, FS_Difference
<1> QED
  BY <1>1, <1>2, <1>4

LEMMA SettledTyped ==
  ASSUME DemoTyped, NEW s \in DemoSymbols, NEW mid \in DemoMids[s], NEW pnl \in Int,
         NEW D, D \subseteq Demo!Positions(book),
         Demo!Settle(MarkedBook(s, Demo!Tick(s, mid)), s, mid, D, pnl),
         quotes' = [quotes EXCEPT ![s] = Demo!Tick(s, mid)]
  PROVE  DemoTyped'
<1> DEFINE q == Demo!Tick(s, mid)
           b == MarkedBook(s, q)
           c == CountedBook(s, q)
           L == Lapsed(s, q)
           W == Winners(s, q, mid)
<1>0. q \in Demo!Ticks /\ mid \in Int
  BY DemoTicks
<1>s. Demo!Settle(MarkedBook(s, q), s, mid, D, pnl)
  OBVIOUS
<1> HIDE DEF q
<1>1. /\ book' = LeftBook(s, q, D)
      /\ book' \in DemoBooks /\ Demo!Binaries(book') = Demo!Binaries(book) \ L
      /\ account' = PaidAccount(s, q, mid, pnl)
      /\ stats' = [stats EXCEPT !.clientPnl = @ + pnl + Demo!HouseLoss(L, mid),
                                !.wins = @ + Cardinality(W)]
  BY <1>0, <1>s, SettledBook
<1>2. /\ L \subseteq Demo!Binaries(book) /\ IsFiniteSet(L)
      /\ \A i \in Demo!Binaries(book) : i \notin L => c[i].ticksLeft \in 1 .. book[i].order.ticks
  BY <1>0, LapsedOptions
<1>3. \A i \in DemoIds : book[i] # None =>
          book[i] \in Demo!Holdings /\ Twin(book[i], b[i]) /\ Twin(book[i], c[i])
  BY <1>0, TickedTrade
<1>n. \A i \in DemoIds : book[i] = None => c[i] = None
  BY NoneStays
<1> HIDE DEF b, c, L
<1>4. \A i \in L : i \in DemoIds /\ book[i] # None
  BY <1>2 DEF Demo!Binaries
<1>5. /\ Numbers([i \in L |-> Demo!Payout(b[i], mid)], L)
      /\ Numbers([i \in L |-> Demo!Payout(book[i], mid) - book[i].order.size], L)
  <2>1. ASSUME NEW i \in L
        PROVE  Demo!Payout(b[i], mid) \in Int /\ Demo!Payout(book[i], mid) \in Int /\ book[i].order.size \in Int
    BY <1>0, <1>3, <1>4, PayoutType, TradeFields DEF Twin
  <2> QED
    BY <2>1 DEF Numbers
<1>6. Demo!Payouts(b, L, mid) \in Int /\ Demo!HouseLoss(L, mid) \in Int
  <2>1. /\ Demo!Payouts(b, L, mid) = Sum([i \in L |-> Demo!Payout(b[i], mid)], L)
        /\ Demo!HouseLoss(L, mid) = Sum([i \in L |-> Demo!Payout(book[i], mid) - book[i].order.size], L)
    BY DemoSums DEF Demo!Payouts, Demo!HouseLoss
  <2> QED
    BY <1>2, <1>5, <2>1, SumType
<1>7. /\ account \in [balance: Int, realisedPnl: Int]
      /\ stats \in [clientPnl: Int, binaries: Nat, wins: Nat, cfds: Nat]
      /\ stats.wins + Cardinality(Demo!Binaries(book)) <= stats.binaries
  BY DEF DemoTyped
<1>8. account' \in [balance: Int, realisedPnl: Int]
  BY <1>1, <1>6, <1>7 DEF PaidAccount, b, L
<1>9. /\ Cardinality(W) \in Nat
      /\ stats.wins + Cardinality(W) + Cardinality(Demo!Binaries(book) \ L) <= stats.binaries
  <2>1. IsFiniteSet(Demo!Binaries(book)) /\ W \subseteq L /\ stats.wins \in Nat /\ stats.binaries \in Nat
    BY <1>7, DemoFinite DEF Demo!Binaries, W, L, Winners
  <2> HIDE DEF W
  <2> QED
    BY <1>2, <1>7, <2>1, CountsSettled
<1> HIDE DEF W
<1>10. /\ stats' \in [clientPnl: Int, binaries: Nat, wins: Nat, cfds: Nat]
       /\ stats'.wins = stats.wins + Cardinality(W) /\ stats'.binaries = stats.binaries
  <2> DEFINE wins == stats.wins + Cardinality(W)
  <2>1. stats.clientPnl + pnl + Demo!HouseLoss(L, mid) \in Int /\ wins \in Nat
    BY <1>6, <1>7, <1>9
  <2> HIDE DEF wins
  <2>2. stats' = [stats EXCEPT !.clientPnl = stats.clientPnl + pnl + Demo!HouseLoss(L, mid), !.wins = wins]
    BY <1>1 DEF wins
  <2> QED
    BY <1>7, <2>1, <2>2 DEF wins
<1>11. stats'.wins + Cardinality(Demo!Binaries(book')) <= stats'.binaries
  BY <1>1, <1>9, <1>10
<1>12. /\ quotes' \in [DemoSymbols -> Demo!Ticks \cup {None}]
       /\ \A x \in DemoSymbols : quotes'[x] # None => \E m \in DemoMids[x] : quotes'[x] = Demo!Tick(x, m)
       /\ \A x \in DemoSymbols : quotes[x] # None => quotes'[x] # None
  BY QuotesMove
<1>13. ASSUME NEW i \in DemoIds, book'[i] # None PROVE Running(book'[i], quotes')
  <2>1. book'[i] = c[i] /\ i \notin L
    BY <1>1, <1>13 DEF LeftBook, L, c
  <2>2. book[i] # None
    BY <1>n, <1>13, <2>1
  <2>3. c[i].order = book[i].order /\ book[i].order.symbol \in DemoSymbols
    BY <1>3, <2>2, TradeFields DEF Twin
  <2>4. Running(book[i], quotes)
    BY <2>2 DEF DemoTyped
  <2>5. quotes'[c[i].order.symbol] # None
    BY <1>12, <2>3, <2>4 DEF Running
  <2>6. c[i].order.kind = "binary" => c[i].ticksLeft \in 1 .. c[i].order.ticks
    BY <1>2, <2>1, <2>2, <2>3 DEF Demo!Binaries
  <2> QED
    BY <2>1, <2>5, <2>6 DEF Running
<1> QED
  BY <1>1, <1>8, <1>10, <1>11, <1>12, <1>13 DEF DemoTyped
LEMMA DemoStarts == Demo!Init => DemoTyped
<1> SUFFICES ASSUME Demo!Init PROVE DemoTyped
  OBVIOUS
<1>1. /\ account = [balance |-> DemoInitial, realisedPnl |-> 0]
      /\ book = [i \in DemoIds |-> None] /\ quotes = [s \in DemoSymbols |-> None]
      /\ stats = [clientPnl |-> 0, binaries |-> 0, wins |-> 0, cfds |-> 0]
  BY DEF Demo!Init
<1>2. Demo!Binaries(book) = {}
  BY <1>1 DEF Demo!Binaries
<1>3. stats.wins + Cardinality(Demo!Binaries(book)) <= stats.binaries
  BY <1>1, <1>2, FS_EmptySet
<1>4. account \in [balance: Int, realisedPnl: Int]
  BY <1>1, DemoGiven
<1> QED
  BY <1>1, <1>3, <1>4 DEF DemoTyped, DemoBooks

LEMMA CfdPlacedTyped ==
  ASSUME DemoTyped, NEW o \in DemoOrders, Demo!PlaceCfdOrder(o)
  PROVE  DemoTyped'
<1> DEFINE q      == quotes[o.symbol]
           entry  == IF o.side = "buy" THEN q.ask ELSE q.bid
           margin == (o.size * entry) \div DemoLeverage[o.symbol]
           p      == Demo!Fresh(o, entry, margin)
<1>1. /\ o.kind = "cfd" /\ q # None /\ Demo!Placed(p)
      /\ stats' = [stats EXCEPT !.cfds = @ + 1] /\ account' = account /\ quotes' = quotes
  BY DEF Demo!PlaceCfdOrder
<1>2. entry \in Nat /\ margin \in Nat /\ o.symbol \in DemoSymbols /\ o.ticks \in Nat
  <2>1. o \in Demands
    BY OrdersAreDemands
  <2>2. o.symbol \in DemoSymbols /\ o.size \in Nat /\ o.ticks \in Nat
    BY <2>1 DEF Demands
  <2>3. PICK mid \in DemoMids[o.symbol] : q = Demo!Tick(o.symbol, mid)
    BY <1>1, <2>2 DEF DemoTyped
  <2>4. q.bid \in Nat /\ q.ask \in Nat
    BY <2>2, <2>3, DemoTicks
  <2>5. entry \in Nat
    BY <2>4
  <2>6. DemoLeverage[o.symbol] \in Nat \ {0}
    BY <2>2, DemoGiven
  <2>7. \A m, n \in Nat : \A d \in Nat \ {0} : (m * n) \div d \in Nat
    OBVIOUS
  <2> QED
    BY <2>2, <2>5, <2>6, <2>7
<1> HIDE DEF entry, margin
<1>3. p \in Demo!Holdings /\ p.order = o
  BY <1>2 DEF Demo!Fresh, Demo!Holdings
<1>4. Running(p, quotes)
  BY <1>1, <1>3 DEF Running
<1> HIDE DEF p
<1>5. /\ book' \in DemoBooks /\ \A i \in DemoIds : book'[i] # None => Running(book'[i], quotes)
      /\ Cardinality(Demo!Binaries(book')) =
              Cardinality(Demo!Binaries(book)) + (IF p.order.kind = "binary" THEN 1 ELSE 0)
  BY <1>1, <1>3, <1>4, BookPlaced
<1>6. Cardinality(Demo!Binaries(book)) \in Nat
  BY DemoFinite DEF Demo!Binaries
<1>7. Cardinality(Demo!Binaries(book')) = Cardinality(Demo!Binaries(book))
  BY <1>1, <1>3, <1>5, <1>6
<1>8. /\ stats' \in [clientPnl: Int, binaries: Nat, wins: Nat, cfds: Nat]
      /\ stats'.wins = stats.wins /\ stats'.binaries = stats.binaries
  BY <1>1 DEF DemoTyped
<1>9. stats'.wins + Cardinality(Demo!Binaries(book')) <= stats'.binaries
  BY <1>7, <1>8 DEF DemoTyped
<1> QED
  BY <1>1, <1>5, <1>8, <1>9 DEF DemoTyped

LEMMA BinaryPlacedTyped ==
  ASSUME DemoTyped, NEW o \in DemoOrders, Demo!PlaceBinary(o)
  PROVE  DemoTyped'
<1> DEFINE p == Demo!Fresh(o, quotes[o.symbol].mid, 0)
<1>1. /\ o.kind = "binary" /\ quotes[o.symbol] # None /\ o.ticks \in 1 .. 200 /\ Demo!Placed(p)
      /\ account' = [account EXCEPT !.balance = @ - o.size]
      /\ stats' = [stats EXCEPT !.binaries = @ + 1] /\ quotes' = quotes
  BY DEF Demo!PlaceBinary
<1>2. o.symbol \in DemoSymbols /\ o.ticks \in Nat /\ o.size \in Nat
  BY OrdersAreDemands DEF Demands
<1>3. quotes[o.symbol].mid \in Int
  <2>1. PICK mid \in DemoMids[o.symbol] : quotes[o.symbol] = Demo!Tick(o.symbol, mid)
    BY <1>1, <1>2 DEF DemoTyped
  <2> QED
    BY <1>2, <2>1, DemoTicks
<1>4. p \in Demo!Holdings /\ p.order = o /\ p.ticksLeft = o.ticks
  BY <1>2, <1>3 DEF Demo!Fresh, Demo!Holdings
<1>5. Running(p, quotes)
  BY <1>1, <1>2, <1>4 DEF Running
<1> HIDE DEF p
<1>6. /\ book' \in DemoBooks /\ \A i \in DemoIds : book'[i] # None => Running(book'[i], quotes)
      /\ Cardinality(Demo!Binaries(book')) =
              Cardinality(Demo!Binaries(book)) + (IF p.order.kind = "binary" THEN 1 ELSE 0)
  BY <1>1, <1>4, <1>5, BookPlaced
<1>7. Cardinality(Demo!Binaries(book)) \in Nat
  BY DemoFinite DEF Demo!Binaries
<1>8. Cardinality(Demo!Binaries(book')) = Cardinality(Demo!Binaries(book)) + 1
  BY <1>1, <1>4, <1>6, <1>7
<1>9. /\ stats' \in [clientPnl: Int, binaries: Nat, wins: Nat, cfds: Nat]
      /\ stats'.wins = stats.wins /\ stats'.binaries = stats.binaries + 1
      /\ stats.wins \in Nat /\ stats.binaries \in Nat
  BY <1>1 DEF DemoTyped
<1>10. stats'.wins + Cardinality(Demo!Binaries(book')) <= stats'.binaries
  BY <1>7, <1>8, <1>9 DEF DemoTyped
<1>11. account' \in [balance: Int, realisedPnl: Int]
  BY <1>1, <1>2 DEF DemoTyped
<1> QED
  BY <1>1, <1>6, <1>9, <1>10, <1>11 DEF DemoTyped

LEMMA ClosedTyped ==
  ASSUME DemoTyped, NEW i \in DemoIds, Demo!CloseCfd(i)
  PROVE  DemoTyped'
<1> DEFINE pnl == Demo!CloseGain(book[i], quotes[book[i].order.symbol])
<1>1. /\ i \in Demo!Positions(book) /\ quotes[book[i].order.symbol] # None
      /\ account' = [balance |-> account.balance + pnl, realisedPnl |-> account.realisedPnl + pnl]
      /\ stats' = [stats EXCEPT !.clientPnl = @ + pnl]
      /\ book' = [book EXCEPT ![i] = None] /\ quotes' = quotes
  BY DEF Demo!CloseCfd
<1>2. book[i] \in Demo!Holdings /\ book[i].order.kind = "cfd"
  BY <1>1 DEF DemoTyped, DemoBooks, Demo!Positions
<1>3. pnl \in Int
  <2>1. book[i].order.symbol \in DemoSymbols
    BY <1>2, TradeFields
  <2>2. quotes[book[i].order.symbol] \in Demo!Ticks
    BY <1>1, <2>1 DEF DemoTyped
  <2> QED
    BY <1>2, <2>2, GainType
<1> HIDE DEF pnl
<1>4. book' \in DemoBooks /\ book'[i] = None /\ \A j \in DemoIds \ {i} : book'[j] = book[j]
  BY <1>1 DEF DemoTyped, DemoBooks
<1>5. \A j \in DemoIds : book'[j] # None => Running(book'[j], quotes)
  BY <1>4 DEF DemoTyped
<1>6. Demo!Binaries(book') = Demo!Binaries(book)
  BY <1>1, <1>2, <1>4 DEF Demo!Binaries
<1>7. account' \in [balance: Int, realisedPnl: Int]
  BY <1>1, <1>3 DEF DemoTyped
<1>8. /\ stats' \in [clientPnl: Int, binaries: Nat, wins: Nat, cfds: Nat]
      /\ stats'.wins = stats.wins /\ stats'.binaries = stats.binaries
  BY <1>1, <1>3 DEF DemoTyped
<1>9. stats'.wins + Cardinality(Demo!Binaries(book')) <= stats'.binaries
  BY <1>6, <1>8 DEF DemoTyped
<1> QED
  BY <1>1, <1>4, <1>5, <1>7, <1>8, <1>9 DEF DemoTyped

(* The positions that a tick's stop-out closes, and what they make.         *)
Stopped(s, q, D, pnl) ==
    \/ /\ Demo!StoppedOut(account.balance, MarkedBook(s, q))
       /\ \E i \in Demo!Worst(MarkedBook(s, q)) :
              D = {i} /\ pnl = Demo!CloseGain(MarkedBook(s, q)[i],
                                              [quotes EXCEPT ![s] = q][MarkedBook(s, q)[i].order.symbol])
    \/ /\ ~ Demo!StoppedOut(account.balance, MarkedBook(s, q))
       /\ D = {} /\ pnl = 0

LEMMA TickIsSettled ==
  ASSUME NEW s \in DemoSymbols, NEW mid \in DemoMids[s], Demo!OnTick(s, mid)
  PROVE  /\ quotes' = [quotes EXCEPT ![s] = Demo!Tick(s, mid)] /\ orders' = orders
         /\ \E D, pnl : /\ Stopped(s, Demo!Tick(s, mid), D, pnl)
                        /\ Demo!Settle(MarkedBook(s, Demo!Tick(s, mid)), s, mid, D, pnl)
<1> DEFINE q == Demo!Tick(s, mid)
           b == MarkedBook(s, q)
           now == [quotes EXCEPT ![s] = q]
<1>1. /\ quotes' = now /\ orders' = orders
      /\ \/ /\ Demo!StoppedOut(account.balance, b)
            /\ \E i \in Demo!Worst(b) :
                   Demo!Settle(b, s, mid, {i}, Demo!CloseGain(b[i], now[b[i].order.symbol]))
         \/ /\ ~ Demo!StoppedOut(account.balance, b)
            /\ Demo!Settle(b, s, mid, {}, 0)
  BY DEF Demo!OnTick, MarkedBook
<1> HIDE DEF q
<1>2. \E D, pnl : Stopped(s, q, D, pnl) /\ Demo!Settle(b, s, mid, D, pnl)
  <2>1. CASE Demo!StoppedOut(account.balance, b)
    <3>1. PICK i \in Demo!Worst(b) :
               Demo!Settle(b, s, mid, {i}, Demo!CloseGain(b[i], now[b[i].order.symbol]))
      BY <1>1, <2>1
    <3>2. Stopped(s, q, {i}, Demo!CloseGain(b[i], now[b[i].order.symbol]))
      BY <2>1 DEF Stopped
    <3> QED
      BY <3>1, <3>2
  <2>2. CASE ~ Demo!StoppedOut(account.balance, b)
    <3>1. Demo!Settle(b, s, mid, {}, 0)
      BY <1>1, <2>2
    <3>2. Stopped(s, q, {}, 0)
      BY <2>2 DEF Stopped
    <3> QED
      BY <3>1, <3>2
  <2> QED
    BY <2>1, <2>2
<1> QED
  BY <1>1, <1>2 DEF q

LEMMA StoppedFacts ==
  ASSUME DemoTyped, NEW s \in DemoSymbols, NEW q \in Demo!Ticks, NEW D, NEW pnl, Stopped(s, q, D, pnl)
  PROVE  /\ D \subseteq Demo!Positions(book) /\ pnl \in Int /\ IsFiniteSet(D)
         /\ \A i \in D : D = {i} /\ pnl = Demo!CloseGain(MarkedBook(s, q)[i],
                                              [quotes EXCEPT ![s] = q][MarkedBook(s, q)[i].order.symbol])
         /\ D = {} => pnl = 0
<1> DEFINE b == MarkedBook(s, q)
           now == [quotes EXCEPT ![s] = q]
<1>0. /\ \A x \in DemoSymbols : now[x] # None => now[x] \in Demo!Ticks
      /\ \A x \in DemoSymbols : quotes[x] # None => now[x] # None
  BY DemoGiven DEF DemoTyped
<1> HIDE DEF now
<1>1. CASE D = {} /\ pnl = 0
  BY <1>1, FS_EmptySet
<1>2. CASE \E i \in Demo!Worst(b) : D = {i} /\ pnl = Demo!CloseGain(b[i], now[b[i].order.symbol])
  <2>1. PICK i \in Demo!Worst(b) : D = {i} /\ pnl = Demo!CloseGain(b[i], now[b[i].order.symbol])
    BY <1>2
  <2>2. i \in Demo!Positions(book)
    BY TickedBook DEF Demo!Worst
  <2>3. i \in DemoIds /\ book[i] # None
    BY <2>2 DEF Demo!Positions
  <2>4. b[i] \in Demo!Holdings /\ b[i].order = book[i].order /\ book[i].order.symbol \in DemoSymbols
    BY <2>3, TickedTrade, TradeFields DEF Twin
  <2>5. now[b[i].order.symbol] \in Demo!Ticks
    BY <1>0, <2>3, <2>4 DEF DemoTyped, Running
  <2>6. pnl \in Int
    BY <2>1, <2>4, <2>5, GainType
  <2>7. IsFiniteSet(D) /\ D # {}
    BY <2>1, FS_Singleton
  <2> QED
    BY <2>1, <2>2, <2>6, <2>7 DEF now
<1> QED
  BY <1>1, <1>2 DEF Stopped, now

LEMMA TickTyped ==
  ASSUME DemoTyped, NEW s \in DemoSymbols, NEW mid \in DemoMids[s], Demo!OnTick(s, mid)
  PROVE  DemoTyped'
<1>1. Demo!Tick(s, mid) \in Demo!Ticks
  BY DemoTicks
<1>2. PICK D, pnl : /\ Stopped(s, Demo!Tick(s, mid), D, pnl)
                    /\ Demo!Settle(MarkedBook(s, Demo!Tick(s, mid)), s, mid, D, pnl)
  BY TickIsSettled
<1>3. D \subseteq Demo!Positions(book) /\ pnl \in Int
  BY <1>1, <1>2, StoppedFacts
<1>4. quotes' = [quotes EXCEPT ![s] = Demo!Tick(s, mid)]
  BY TickIsSettled
<1> QED
  BY <1>2, <1>3, <1>4, SettledTyped

LEMMA DemoStays ==
  ASSUME DemoTyped, [Demo!Next]_(Demo!demoVars)
  PROVE  DemoTyped'
<1>1. ASSUME NEW o \in DemoOrders, Demo!PlaceCfdOrder(o) PROVE DemoTyped'
  BY <1>1, CfdPlacedTyped
<1>2. ASSUME NEW o \in DemoOrders, Demo!PlaceBinary(o) PROVE DemoTyped'
  BY <1>2, BinaryPlacedTyped
<1>3. ASSUME NEW i \in DemoIds, Demo!CloseCfd(i) PROVE DemoTyped'
  BY <1>3, ClosedTyped
<1>4. ASSUME NEW s \in DemoSymbols, NEW mid \in DemoMids[s], Demo!OnTick(s, mid) PROVE DemoTyped'
  BY <1>4, TickTyped
<1>5. CASE UNCHANGED Demo!demoVars
  BY <1>5 DEF Demo!demoVars, DemoTyped, Running
<1> QED
  BY <1>1, <1>2, <1>3, <1>4, <1>5 DEF Demo!Next, Demo!Request, Demo!Feeds

LEMMA DemoTypedOK == DemoTyped => Demo!TypeOK
<1> SUFFICES ASSUME DemoTyped PROVE Demo!TypeOK
  OBVIOUS
<1>1. Cardinality(Demo!Binaries(book)) \in Nat
  BY DemoFinite DEF Demo!Binaries
<1>2. stats.wins <= stats.binaries
  BY <1>1 DEF DemoTyped
<1>3. \A i \in Demo!Binaries(book) : book[i].ticksLeft \in 1 .. book[i].order.ticks
  BY DEF DemoTyped, Running, Demo!Binaries
<1> QED
  BY <1>2, <1>3 DEF DemoTyped, Demo!TypeOK, DemoBooks
-----------------------------------------------------------------------------
(* The Rust engine's book, seen in the demo's.                              *)
AsRust(b) == [i \in DemoIds |-> IF b[i] = None THEN None ELSE Demo!Mapped(b[i])]

LEMMA RustViews ==
  ASSUME NEW b \in DemoBooks
  PROVE  /\ \A i \in DemoIds : AsRust(b)[i] = None <=> b[i] = None
         /\ \A i \in DemoIds : b[i] # None =>
                b[i] \in Demo!Holdings /\ AsRust(b)[i] = Demo!Mapped(b[i]) /\ AsRust(b)[i].order = b[i].order
         /\ Demo!RustBook!Live(AsRust(b), {"cfd"}) = Demo!Positions(b)
         /\ Demo!RustBook!Live(AsRust(b), {"cfd", "spot"}) = Demo!Positions(b)
         /\ Demo!RustBook!Live(AsRust(b), {"binary"}) = Demo!Binaries(b)
<1>1. \A i \in DemoIds : b[i] # None =>
          b[i] \in Demo!Holdings /\ AsRust(b)[i] = Demo!Mapped(b[i])
  BY DEF AsRust, DemoBooks
<1>2. \A i \in DemoIds : b[i] # None =>
          /\ AsRust(b)[i] # None /\ AsRust(b)[i].order = b[i].order
          /\ b[i].order.kind \in {"cfd", "binary"}
  BY <1>1, MappedFields, TradeFields
<1>3. \A i \in DemoIds : b[i] = None => AsRust(b)[i] = None
  BY DEF AsRust
<1>4. Demo!RustBook!Live(AsRust(b), {"cfd"}) = Demo!Positions(b)
  BY <1>2, <1>3 DEF Demo!RustBook!Live, Demo!Positions
<1>5. Demo!RustBook!Live(AsRust(b), {"cfd", "spot"}) = Demo!Positions(b)
  BY <1>2, <1>3 DEF Demo!RustBook!Live, Demo!Positions
<1>6. Demo!RustBook!Live(AsRust(b), {"binary"}) = Demo!Binaries(b)
  BY <1>2, <1>3 DEF Demo!RustBook!Live, Demo!Binaries
<1> QED
  BY <1>1, <1>2, <1>3, <1>4, <1>5, <1>6

(* Margins, floating profits and the worst position are the same.           *)
LEMMA RustMargins ==
  ASSUME NEW b \in DemoBooks, NEW cash \in Int
  PROVE  /\ Demo!RustBook!UsedMargin(AsRust(b)) = Demo!UsedMargin(b)
         /\ Demo!RustBook!Equity(cash, AsRust(b)) = Demo!Equity(cash, b)
         /\ Demo!RustBook!FreeMargin(cash, AsRust(b)) = Demo!FreeMargin(cash, b)
         /\ Demo!RustBook!BelowHalf(cash, AsRust(b)) <=> Demo!StoppedOut(cash, b)
         /\ Demo!RustBook!Worst(AsRust(b)) = Demo!Worst(b)
<1> DEFINE P == Demo!Positions(b)
           r == AsRust(b)
<1>1. Demo!RustBook!Live(r, {"cfd"}) = P /\ IsFiniteSet(P)
  BY RustViews, DemoFinite DEF Demo!Positions
<1>2. \A i \in P : i \in DemoIds /\ b[i] # None /\ b[i].order.kind = "cfd"
  BY DEF Demo!Positions
<1>3. \A i \in P : r[i].held = b[i].margin /\ r[i].upnl = b[i].unrealisedPnl
  BY <1>2, RustViews, MappedFields
<1> HIDE DEF P, r
<1>4. Demo!RustBook!UsedMargin(r) = Demo!UsedMargin(b)
  <2>1. Demo!RustBook!UsedMargin(r) = Sum([i \in P |-> r[i].held], P)
    BY <1>1, RustSums DEF Demo!RustBook!UsedMargin
  <2>2. Demo!UsedMargin(b) = Sum([i \in P |-> b[i].margin], P)
    BY DemoSums DEF Demo!UsedMargin, P
  <2>3. \A i \in P : [j \in P |-> r[j].held][i] = [j \in P |-> b[j].margin][i]
    BY <1>3
  <2> QED
    BY <1>1, <2>1, <2>2, <2>3, SumSame
<1>5. Demo!RustBook!Equity(cash, r) = Demo!Equity(cash, b)
  <2>1. Demo!RustBook!Equity(cash, r) = cash + Sum([i \in P |-> r[i].upnl], P)
    BY <1>1, RustSums DEF Demo!RustBook!Equity
  <2>2. Demo!Equity(cash, b) = cash + Sum([i \in P |-> b[i].unrealisedPnl], P)
    BY DemoSums DEF Demo!Equity, P
  <2>3. \A i \in P : [j \in P |-> r[j].upnl][i] = [j \in P |-> b[j].unrealisedPnl][i]
    BY <1>3
  <2>4. Sum([i \in P |-> r[i].upnl], P) = Sum([i \in P |-> b[i].unrealisedPnl], P)
    BY <1>1, <2>3, SumSame
  <2> QED
    BY <2>1, <2>2, <2>4
<1>6. Demo!RustBook!FreeMargin(cash, r) = Demo!FreeMargin(cash, b)
  BY <1>4, <1>5 DEF Demo!RustBook!FreeMargin, Demo!FreeMargin
<1>7. Demo!RustBook!BelowHalf(cash, r) <=> Demo!StoppedOut(cash, b)
  BY <1>4, <1>5 DEF Demo!RustBook!BelowHalf, Demo!StoppedOut
<1>8. Demo!RustBook!Worst(r) = Demo!Worst(b)
  BY <1>1, <1>3 DEF Demo!RustBook!Worst, Demo!Worst, P
<1> QED
  BY <1>4, <1>5, <1>6, <1>7, <1>8 DEF r

LEMMA RemarkFollows ==
  ASSUME DemoTyped, NEW s \in DemoSymbols, NEW q \in Demo!Ticks
  PROVE  Demo!RustBook!Remark(s, q) = AsRust(CountedBook(s, q))
<1> DEFINE c == CountedBook(s, q)
           r == AsRust(book)
<1>1. Demo!RustBook!Remark(s, q) =
        [i \in DemoIds |-> IF r[i] = None \/ r[i].order.symbol # s THEN r[i] ELSE Remarked(r[i], s, q)]
  BY DEF Demo!RustBook!Remark, AsRust, Remarked
<1>2. ASSUME NEW i \in DemoIds
      PROVE  (IF r[i] = None \/ r[i].order.symbol # s THEN r[i] ELSE Remarked(r[i], s, q))
               = IF c[i] = None THEN None ELSE Demo!Mapped(c[i])
  <2>1. CASE book[i] = None
    <3>1. r[i] = None /\ c[i] = None
      BY <2>1, NoneStays DEF AsRust
    <3> QED
      BY <3>1
  <2>2. CASE book[i] # None
    <3>1. /\ book[i] \in Demo!Holdings /\ c[i] # None
          /\ Demo!Mapped(c[i]) = Remarked(Demo!Mapped(book[i]), s, q)
      BY <2>2, TickedTrade DEF Twin
    <3>2. r[i] = Demo!Mapped(book[i]) /\ r[i] # None
      BY <2>2, <3>1, MappedFields DEF AsRust
    <3>3. r[i].order.symbol # s => Remarked(r[i], s, q) = r[i]
      BY DEF Remarked
    <3> HIDE DEF r, c
    <3> QED
      BY <3>1, <3>2, <3>3
  <2> QED
    BY <2>1, <2>2
<1> HIDE DEF c, r
<1>3. Demo!RustBook!Remark(s, q) = [i \in DemoIds |-> IF c[i] = None THEN None ELSE Demo!Mapped(c[i])]
  BY <1>1, <1>2
<1> QED
  BY <1>3 DEF AsRust, c

LEMMA TickMargins ==
  ASSUME DemoTyped, NEW s \in DemoSymbols, NEW q \in Demo!Ticks, NEW cash \in Int
  PROVE  /\ Demo!StoppedOut(cash, CountedBook(s, q)) <=> Demo!StoppedOut(cash, MarkedBook(s, q))
         /\ Demo!Worst(CountedBook(s, q)) = Demo!Worst(MarkedBook(s, q))
<1> DEFINE b == MarkedBook(s, q)
           c == CountedBook(s, q)
           P == Demo!Positions(book)
<1>1. Demo!Positions(b) = P /\ Demo!Positions(c) = P /\ IsFiniteSet(P)
  BY TickedBook, DemoFinite DEF Demo!Positions
<1>2. \A i \in P : i \in DemoIds /\ book[i] # None
  BY DEF Demo!Positions
<1>3. \A i \in P : c[i].margin = b[i].margin /\ c[i].unrealisedPnl = b[i].unrealisedPnl
  BY <1>2, TickedTrade DEF Twin
<1> HIDE DEF b, c, P
<1>4. Demo!UsedMargin(c) = Demo!UsedMargin(b)
  <2>1. [i \in P |-> c[i].margin] = [i \in P |-> b[i].margin]
    BY <1>3
  <2> QED
    BY <1>1, <2>1 DEF Demo!UsedMargin
<1>5. Demo!Equity(cash, c) = Demo!Equity(cash, b)
  <2>1. [i \in P |-> c[i].unrealisedPnl] = [i \in P |-> b[i].unrealisedPnl]
    BY <1>3
  <2> QED
    BY <1>1, <2>1 DEF Demo!Equity
<1>6. Demo!StoppedOut(cash, c) <=> Demo!StoppedOut(cash, b)
  BY <1>4, <1>5 DEF Demo!StoppedOut
<1>7. Demo!Worst(c) = Demo!Worst(b)
  BY <1>1, <1>3 DEF Demo!Worst
<1> QED
  BY <1>6, <1>7 DEF b, c

(* No target is ever hit: the demo's orders have none.                      *)
LEMMA NoTargets ==
  ASSUME NEW b \in DemoBooks, NEW s
  PROVE  Demo!RustBook!Hit(AsRust(b), s) = {}
<1>1. ASSUME NEW i \in DemoIds, b[i] # None PROVE ~ Demo!RustBook!Triggered(AsRust(b)[i])
  <2>1. AsRust(b)[i].order = b[i].order /\ b[i] \in Demo!Holdings
    BY <1>1, RustViews
  <2>2. AsRust(b)[i].order.tp = 0 /\ AsRust(b)[i].order.sl = 0
    BY <2>1, TradeFields
  <2> QED
    BY <2>2 DEF Demo!RustBook!Triggered
<1>2. Demo!RustBook!Live(AsRust(b), {"cfd", "spot"}) = Demo!Positions(b)
  BY RustViews
<1>3. \A i \in Demo!Positions(b) : i \in DemoIds /\ b[i] # None
  BY DEF Demo!Positions
<1> QED
  BY <1>1, <1>2, <1>3 DEF Demo!RustBook!Hit

LEMMA ExpiredAreLapsed ==
  ASSUME DemoTyped, NEW s \in DemoSymbols, NEW q \in Demo!Ticks
  PROVE  Demo!RustBook!Expired(AsRust(CountedBook(s, q)), s) = Lapsed(s, q)
<1> DEFINE c == CountedBook(s, q)
<1>1. c \in DemoBooks /\ Demo!Binaries(c) = Demo!Binaries(book)
  BY TickedBook
<1>2. Demo!RustBook!Live(AsRust(c), {"binary"}) = Demo!Binaries(book)
  BY <1>1, RustViews
<1>3. ASSUME NEW i \in Demo!Binaries(book)
      PROVE  AsRust(c)[i].order.symbol = book[i].order.symbol /\ AsRust(c)[i].left = c[i].ticksLeft
  <2>1. i \in DemoIds /\ book[i] # None
    BY DEF Demo!Binaries
  <2>2. Twin(book[i], c[i])
    BY <2>1, TickedTrade
  <2>3. AsRust(c)[i] = Demo!Mapped(c[i])
    BY <1>1, <2>1, <2>2, RustViews DEF Twin
  <2> QED
    BY <2>2, <2>3, MappedFields DEF Twin
<1>4. /\ Lapsed(s, q) \subseteq Demo!Binaries(book)
      /\ \A i \in Demo!Binaries(book) :
             i \in Lapsed(s, q) <=> book[i].order.symbol = s /\ c[i].ticksLeft = 0
  BY LapsedOptions
<1> HIDE DEF c
<1>5. Demo!RustBook!Expired(AsRust(c), s) = Lapsed(s, q)
  BY <1>2, <1>3, <1>4 DEF Demo!RustBook!Expired
<1> QED
  BY <1>5 DEF c
(* What a position is worth at its end.                                     *)
LEMMA EndOfCfd ==
  ASSUME NEW d \in Demo!Holdings, NEW q \in Demo!Ticks, d.order.kind = "cfd"
  PROVE  /\ Demo!RustBook!Gain(Demo!Mapped(d), q) = Demo!CloseGain(d, q)
         /\ Demo!RustBook!Staked(Demo!Mapped(d)) = 0
<1>1. Demo!Mapped(d).order = d.order /\ Demo!Mapped(d).entry = d.entry
  BY MappedFields
<1> QED
  BY <1>1 DEF Demo!RustBook!Gain, Demo!RustBook!Staked, Demo!RustBook!Pnl, Demo!RustBook!Exit,
              Demo!CloseGain, Demo!PnlFor

LEMMA EndOfOption ==
  ASSUME NEW d \in Demo!Holdings, NEW q \in Demo!Ticks, d.order.kind = "binary", q.mid # d.entry
  PROVE  /\ Demo!RustBook!Gain(Demo!Mapped(d), q) = Demo!Payout(d, q.mid) - d.order.size
         /\ Demo!RustBook!Staked(Demo!Mapped(d)) = d.order.size
<1> DEFINE m == Demo!Mapped(d)
<1>1. m.order = d.order /\ m.entry = d.entry
  BY MappedFields
<1>2. m.held = d.order.size
  BY MappedFields
<1>3. d.entry \in Int /\ q.mid \in Int /\ d.order.size \in Nat
  BY TradeFields DEF Demo!Ticks
<1> HIDE DEF m
<1>4. Demo!RustBook!OptionPayout(m, q.mid) = Demo!Payout(d, q.mid)
  <2>1. CASE q.mid > d.entry
    BY <1>1, <1>2, <1>3, <2>1 DEF Demo!RustBook!OptionPayout, Demo!Payout, Demo!Won
  <2>2. CASE q.mid < d.entry
    BY <1>1, <1>2, <1>3, <2>2 DEF Demo!RustBook!OptionPayout, Demo!Payout, Demo!Won
  <2> QED
    BY <1>3, <2>1, <2>2
<1>5. Demo!RustBook!Gain(m, q) = Demo!Payout(d, q.mid) - d.order.size
  BY <1>1, <1>2, <1>4 DEF Demo!RustBook!Gain
<1>6. Demo!RustBook!Staked(m) = d.order.size
  BY <1>1, <1>2 DEF Demo!RustBook!Staked
<1> QED
  BY <1>5, <1>6 DEF m

LEMMA TwinsAreWorth ==
  ASSUME NEW p \in Demo!Holdings, NEW d, Twin(p, d), NEW q, NEW mid
  PROVE  Demo!CloseGain(d, q) = Demo!CloseGain(p, q) /\ Demo!Payout(d, mid) = Demo!Payout(p, mid)
BY DEF Twin, Demo!CloseGain, Demo!PnlFor, Demo!Payout, Demo!Won

LEMMA SumOfOne ==
  ASSUME NEW F, NEW x, F[x] \in Int
  PROVE  Sum(F, {x}) = F[x]
<1>1. IsFiniteSet({x}) /\ Numbers(F, {x}) /\ x \in {x} /\ {x} \ {x} = {}
  BY FS_Singleton DEF Numbers
<1>2. Sum(F, {x}) = F[x] + Sum(F, {x} \ {x})
  BY <1>1, SumRemove
<1>3. Sum(F, {x}) = F[x] + 0
  BY <1>1, <1>2, SumEmpty
<1> QED
  BY <1>3

LEMMA EndFollows ==
  ASSUME DemoTyped, NEW s \in DemoSymbols, NEW mid \in DemoMids[s], NEW D, NEW pnl,
         Stopped(s, Demo!Tick(s, mid), D, pnl),
         Demo!Settle(MarkedBook(s, Demo!Tick(s, mid)), s, mid, D, pnl),
         quotes' = [quotes EXCEPT ![s] = Demo!Tick(s, mid)],
         ~ Demo!TieSettled
  PROVE  Demo!RustBook!End(Lapsed(s, Demo!Tick(s, mid)) \cup D, AsRust(CountedBook(s, Demo!Tick(s, mid))),
                           [quotes EXCEPT ![s] = Demo!Tick(s, mid)])
<1> DEFINE q == Demo!Tick(s, mid)
           b == MarkedBook(s, q)
           c == CountedBook(s, q)
           r == AsRust(c)
           L == Lapsed(s, q)
           E == L \cup D
           now == [quotes EXCEPT ![s] = q]
           paid == {i \in E : now[r[i].order.symbol] # None}
           F == [i \in paid |-> Demo!RustBook!Gain(r[i], now[r[i].order.symbol])]
           S == [i \in paid |-> Demo!RustBook!Staked(r[i])]
           H == [i \in L |-> Demo!Payout(book[i], mid) - book[i].order.size]
           P == [i \in L |-> Demo!Payout(b[i], mid)]
<1>0. q \in Demo!Ticks /\ q.mid = mid /\ mid \in Int
  BY DemoTicks
<1>s. Demo!Settle(b, s, mid, D, pnl) /\ Stopped(s, q, D, pnl)
  OBVIOUS
<1>1. /\ now = quotes' /\ now[s] = q
      /\ \A x \in DemoSymbols : quotes[x] # None => now[x] # None
      /\ \A x \in DemoSymbols : now[x] # None => now[x] \in Demo!Ticks
  <2>1. /\ quotes' \in [DemoSymbols -> Demo!Ticks \cup {None}] /\ quotes'[s] = q
        /\ \A x \in DemoSymbols : quotes[x] # None => quotes'[x] # None
    BY QuotesMove
  <2> QED
    BY <2>1
<1> HIDE DEF q, now
<1>2. /\ book' = LeftBook(s, q, D) /\ account' = PaidAccount(s, q, mid, pnl)
      /\ stats' = [stats EXCEPT !.clientPnl = @ + pnl + Demo!HouseLoss(Lapsed(s, q), mid),
                                !.wins = @ + Cardinality(Winners(s, q, mid))]
  <2>1. D \subseteq Demo!Positions(book)
    BY <1>0, <1>s, StoppedFacts
  <2> QED
    BY <1>0, <1>s, <2>1, SettledBook
<1>3. /\ D \subseteq Demo!Positions(book) /\ pnl \in Int /\ IsFiniteSet(D)
      /\ \A i \in D : D = {i} /\ pnl = Demo!CloseGain(b[i], now[b[i].order.symbol])
      /\ D = {} => pnl = 0
  BY <1>0, <1>s, StoppedFacts DEF now
<1>4. /\ L \subseteq Demo!Binaries(book) /\ IsFiniteSet(L)
      /\ \A i \in L : book[i].order.symbol = s
  BY <1>0, LapsedOptions
<1>5. /\ \A i \in D : i \in DemoIds /\ book[i] # None /\ book[i].order.kind = "cfd"
      /\ \A i \in L : i \in DemoIds /\ book[i] # None /\ book[i].order.kind = "binary"
      /\ L \cap D = {} /\ E \subseteq DemoIds /\ IsFiniteSet(E)
  <2>1. /\ \A i \in D : i \in DemoIds /\ book[i] # None /\ book[i].order.kind = "cfd"
        /\ \A i \in L : i \in DemoIds /\ book[i] # None /\ book[i].order.kind = "binary"
    BY <1>3, <1>4 DEF Demo!Positions, Demo!Binaries
  <2>2. E \subseteq DemoIds /\ L \cap D = {}
    BY <2>1
  <2> QED
    BY <2>1, <2>2, DemoFinite
<1>6. \A i \in DemoIds : book[i] # None =>
          book[i] \in Demo!Holdings /\ Twin(book[i], b[i]) /\ Twin(book[i], c[i])
  BY <1>0, TickedTrade
<1>7. c \in DemoBooks
  BY <1>0, TickedBook
<1>8. \A i \in DemoIds : book[i] # None => r[i] = Demo!Mapped(c[i]) /\ r[i].order = book[i].order
  <2>1. \A i \in DemoIds : c[i] # None =>
          c[i] \in Demo!Holdings /\ r[i] = Demo!Mapped(c[i]) /\ r[i].order = c[i].order
    BY <1>7, RustViews
  <2> QED
    BY <1>6, <2>1 DEF Twin
<1> HIDE DEF b, c, L
<1>9. \A i \in E : now[r[i].order.symbol] # None /\ now[r[i].order.symbol] \in Demo!Ticks
                   /\ book[i].order.symbol \in DemoSymbols /\ r[i].order.symbol = book[i].order.symbol
  <2>1. ASSUME NEW i \in DemoIds, book[i] # None
        PROVE  /\ book[i].order.symbol \in DemoSymbols /\ r[i].order = book[i].order
               /\ quotes[book[i].order.symbol] # None
    BY <1>6, <1>8, <2>1, TradeFields DEF DemoTyped, Running
  <2> QED
    BY <1>1, <1>5, <2>1
<1>10. paid = E
  BY <1>9
<1> HIDE DEF r
<1>11. ASSUME NEW i \in D
       PROVE  F[i] = pnl /\ S[i] = 0
  <2>1. /\ book[i] \in Demo!Holdings /\ Twin(book[i], c[i]) /\ Twin(book[i], b[i])
        /\ book[i].order.kind = "cfd" /\ r[i] = Demo!Mapped(c[i])
    BY <1>5, <1>6, <1>8
  <2>2. c[i] \in Demo!Holdings /\ c[i].order = book[i].order /\ b[i].order = book[i].order
    BY <2>1 DEF Twin
  <2> DEFINE x == now[book[i].order.symbol]
  <2>3. x \in Demo!Ticks /\ r[i].order.symbol = book[i].order.symbol
    BY <1>9
  <2>4. Demo!RustBook!Gain(r[i], x) = Demo!CloseGain(c[i], x) /\ Demo!RustBook!Staked(r[i]) = 0
    BY <2>1, <2>2, <2>3, EndOfCfd
  <2>5. Demo!CloseGain(c[i], x) = Demo!CloseGain(book[i], x) /\ Demo!CloseGain(b[i], x) = Demo!CloseGain(book[i], x)
    BY <2>1, TwinsAreWorth
  <2>6. pnl = Demo!CloseGain(b[i], x)
    BY <1>3, <2>2
  <2> HIDE DEF x
  <2>7. F[i] = Demo!RustBook!Gain(r[i], x) /\ S[i] = Demo!RustBook!Staked(r[i])
    BY <1>10, <2>3 DEF x
  <2> QED
    BY <2>4, <2>5, <2>6, <2>7
<1>12. ASSUME NEW i \in L
       PROVE  /\ F[i] = H[i] /\ P[i] = H[i] + S[i]
              /\ F[i] \in Int /\ S[i] \in Int /\ H[i] \in Int
  <2>1. /\ i \in DemoIds /\ book[i] \in Demo!Holdings /\ Twin(book[i], c[i]) /\ Twin(book[i], b[i])
        /\ book[i].order.kind = "binary" /\ book[i].order.symbol = s /\ r[i] = Demo!Mapped(c[i])
    BY <1>4, <1>5, <1>6, <1>8
  <2>2. c[i] \in Demo!Holdings /\ c[i].order = book[i].order /\ c[i].entry = book[i].entry
    BY <2>1 DEF Twin
  <2>3. q.mid # book[i].entry
    <3>1. book'[i] = None
      BY <1>2, <2>1 DEF LeftBook, L
    <3>2. i \in Demo!Binaries(book)
      BY <1>4
    <3>3. quotes'[book[i].order.symbol].mid # book[i].entry
      BY <3>1, <3>2 DEF Demo!TieSettled
    <3> QED
      BY <1>1, <2>1, <3>3
  <2>4. /\ Demo!RustBook!Gain(r[i], q) = Demo!Payout(c[i], mid) - c[i].order.size
        /\ Demo!RustBook!Staked(r[i]) = c[i].order.size
    BY <1>0, <2>1, <2>2, <2>3, EndOfOption
  <2>5. Demo!Payout(c[i], mid) = Demo!Payout(book[i], mid) /\ Demo!Payout(b[i], mid) = Demo!Payout(book[i], mid)
    BY <2>1, TwinsAreWorth
  <2>6. Demo!Payout(book[i], mid) \in Int /\ book[i].order.size \in Int
    BY <1>0, <2>1, PayoutType, TradeFields
  <2>7. F[i] = Demo!RustBook!Gain(r[i], q) /\ S[i] = Demo!RustBook!Staked(r[i])
    BY <1>1, <1>9, <1>10, <2>1
  <2>8. H[i] = Demo!Payout(book[i], mid) - book[i].order.size /\ P[i] = Demo!Payout(b[i], mid)
    OBVIOUS
  <2> HIDE DEF F, S, H, P
  <2>9. F[i] = H[i] /\ S[i] = book[i].order.size
    BY <2>2, <2>4, <2>5, <2>7, <2>8
  <2>10. \A a, n \in Int : a = (a - n) + n /\ a - n \in Int
    OBVIOUS
  <2> QED
    BY <2>5, <2>6, <2>8, <2>9, <2>10
<1>m. /\ Demo!HouseLoss(L, mid) = Sum(H, L) /\ Demo!Payouts(b, L, mid) = Sum(P, L)
  BY DemoSums DEF Demo!HouseLoss, Demo!Payouts
<1>g. SumFunction(F) = Sum(F, E) /\ SumFunction(S) = Sum(S, E)
  BY <1>10, SumOfFunction
<1>r. Demo!RustBook!SumFunction(F) = Sum(F, E) /\ Demo!RustBook!SumFunction(S) = Sum(S, E)
  BY <1>10, RustSums
<1> HIDE DEF F, S, H, P, paid
<1>13. Numbers(F, L) /\ Numbers(S, L) /\ Numbers(H, L) /\ Numbers(F, D) /\ Numbers(S, D) /\ Numbers(S, E)
  BY <1>3, <1>11, <1>12 DEF Numbers
<1>14. Sum(F, D) = pnl
  <2>1. CASE D = {}
    BY <1>3, <2>1, SumEmpty
  <2>2. CASE D # {}
    <3>1. PICK i \in D : D = {i}
      BY <1>3, <2>2
    <3> QED
      BY <1>3, <1>11, <3>1, SumOfOne
  <2> QED
    BY <2>1, <2>2
<1>15. Sum(F, L) = Sum(H, L)
  BY <1>4, <1>12, SumSame
<1>16. Sum(F, E) = Sum(H, L) + pnl
  BY <1>3, <1>4, <1>5, <1>13, <1>14, <1>15, SumUnion
<1>17. Sum(S, E) = Sum(S, L)
  <2>1. L \in SUBSET E /\ \A i \in E \ L : S[i] = 0
    BY <1>11
  <2> QED
    BY <1>5, <1>13, <2>1, SumZero
<1>18. Sum(P, L) = Sum(H, L) + Sum(S, L)
  BY <1>4, <1>12, <1>13, SumPlus
<1>19. Sum(H, L) \in Int /\ Sum(S, L) \in Int
  BY <1>4, <1>13, SumType
<1>20. account.balance \in Int /\ stats.clientPnl \in Int
  BY DEF DemoTyped
<1>21. account'.balance = account.balance + Sum(F, E) + Sum(S, E)
  <2>1. account'.balance = account.balance + pnl + Sum(P, L)
    BY <1>2, <1>m DEF PaidAccount, b, L
  <2>2. \A a, x, h, t \in Int : a + x + (h + t) = a + (h + x) + t
    OBVIOUS
  <2> QED
    BY <1>3, <1>16, <1>17, <1>18, <1>19, <1>20, <2>1, <2>2
<1>22. stats'.clientPnl = stats.clientPnl + Sum(F, E)
  <2>1. stats'.clientPnl = stats.clientPnl + pnl + Sum(H, L)
    BY <1>2, <1>m DEF DemoTyped, L
  <2>2. \A a, x, h \in Int : a + x + h = a + (h + x)
    OBVIOUS
  <2> QED
    BY <1>3, <1>16, <1>19, <1>20, <2>1, <2>2
<1>23. [i \in DemoIds |-> IF book'[i] = None THEN None ELSE Demo!Mapped(book'[i])]
         = [i \in DemoIds |-> IF i \in E THEN None ELSE r[i]]
  <2>1. ASSUME NEW i \in DemoIds
        PROVE  (IF book'[i] = None THEN None ELSE Demo!Mapped(book'[i])) = IF i \in E THEN None ELSE r[i]
    <3>1. book'[i] = IF i \in E THEN None ELSE c[i]
      BY <1>2 DEF LeftBook, L, c
    <3>2. r[i] = IF c[i] = None THEN None ELSE Demo!Mapped(c[i])
      BY DEF r, AsRust
    <3> QED
      BY <3>1, <3>2
  <2> QED
    BY <2>1
<1> QED
  BY <1>10, <1>21, <1>22, <1>23, <1>r DEF Demo!RustBook!End, F, S, paid, r, c, L, now, q
LEMMA TickFollows ==
  ASSUME DemoTyped, NEW s \in DemoSymbols, NEW mid \in DemoMids[s], Demo!OnTick(s, mid),
         ~ Demo!TieSettled
  PROVE  Demo!RustBook!OnTick(s, Demo!Tick(s, mid))
<1> DEFINE q == Demo!Tick(s, mid)
           b == MarkedBook(s, q)
           c == CountedBook(s, q)
           r == AsRust(c)
           L == Lapsed(s, q)
           now   == Demo!RustBook!Requoted(s, q)
           bk    == Demo!RustBook!Remark(s, q)
           first == Demo!RustBook!Hit(bk, s) \cap Demo!RustBook!Live(bk, {"cfd"})
           kept  == [i \in DemoIds |-> IF i \in first THEN None ELSE bk[i]]
           cash  == account.balance
                      + Demo!RustBook!SumFunction([i \in first |-> Demo!RustBook!Gain(bk[i], q)])
           ended == Demo!RustBook!Hit(bk, s) \cup Demo!RustBook!Expired(bk, s)
<1>0. q \in Demo!Ticks /\ account.balance \in Int
  BY DemoTicks DEF DemoTyped
<1>1. /\ quotes' = [quotes EXCEPT ![s] = q] /\ orders' = orders
      /\ \E D, pnl : Stopped(s, q, D, pnl) /\ Demo!Settle(b, s, mid, D, pnl)
  BY TickIsSettled
<1>2. PICK D, pnl : Stopped(s, q, D, pnl) /\ Demo!Settle(b, s, mid, D, pnl)
  BY <1>1
<1>3. Demo!RustBook!End(L \cup D, r, [quotes EXCEPT ![s] = q])
  BY <1>1, <1>2, EndFollows
<1> HIDE DEF q
<1>4. bk = r
  BY <1>0, RemarkFollows
<1>5. c \in DemoBooks
  BY <1>0, TickedBook
<1>6. Demo!RustBook!Hit(bk, s) = {} /\ Demo!RustBook!Expired(bk, s) = L
  BY <1>0, <1>4, <1>5, NoTargets, ExpiredAreLapsed
<1>7. first = {} /\ ended = L
  BY <1>6
<1>8. cash = account.balance
  <2>1. [i \in first |-> Demo!RustBook!Gain(bk[i], q)] = [i \in {} |-> Demo!RustBook!Gain(bk[i], q)]
    BY <1>7
  <2>2. Demo!RustBook!SumFunction([i \in {} |-> Demo!RustBook!Gain(bk[i], q)])
          = Sum([i \in {} |-> Demo!RustBook!Gain(bk[i], q)], {})
    BY RustSums
  <2>3. Demo!RustBook!SumFunction([i \in first |-> Demo!RustBook!Gain(bk[i], q)]) = 0
    BY <2>1, <2>2, SumEmpty
  <2> QED
    BY <1>0, <2>3
<1>9. kept = r
  <2>1. r = [i \in DemoIds |-> r[i]]
    BY DEF AsRust
  <2> HIDE DEF r, bk, first
  <2> QED
    BY <1>4, <1>7, <2>1
<1>10. /\ Demo!RustBook!BelowHalf(cash, kept) <=> Demo!StoppedOut(account.balance, b)
       /\ Demo!RustBook!Worst(kept) = Demo!Worst(b)
  <2>1. /\ Demo!RustBook!BelowHalf(account.balance, r) <=> Demo!StoppedOut(account.balance, c)
        /\ Demo!RustBook!Worst(r) = Demo!Worst(c)
    BY <1>0, <1>5, RustMargins
  <2>2. /\ Demo!StoppedOut(account.balance, c) <=> Demo!StoppedOut(account.balance, b)
        /\ Demo!Worst(c) = Demo!Worst(b)
    BY <1>0, TickMargins
  <2> HIDE DEF cash, kept, r, c, b
  <2> QED
    BY <1>8, <1>9, <2>1, <2>2
<1>11. now = [quotes EXCEPT ![s] = q]
  BY DEF Demo!RustBook!Requoted
<1>12. \/ Demo!RustBook!BelowHalf(cash, kept)
          /\ \E i \in Demo!RustBook!Worst(kept) : Demo!RustBook!End(ended \cup {i}, bk, now)
       \/ ~ Demo!RustBook!BelowHalf(cash, kept) /\ Demo!RustBook!End(ended, bk, now)
  <2>1. \/ /\ Demo!StoppedOut(account.balance, b) /\ \E i \in Demo!Worst(b) : D = {i}
        \/ ~ Demo!StoppedOut(account.balance, b) /\ D = {}
    BY <1>2 DEF Stopped
  <2> HIDE DEF b, c, r, L, now, bk, first, kept, cash, ended
  <2>2. Demo!RustBook!End(ended \cup D, bk, now)
    <3>1. ended \cup D = L \cup D
      BY <1>7
    <3>2. Demo!RustBook!End(ended \cup D, r, [quotes EXCEPT ![s] = q])
      BY <1>3, <3>1, SMTT(60) DEF Demo!RustBook!End
    <3>3. Demo!RustBook!End(ended \cup D, r, now)
      BY <1>11, <3>2, SMTT(60) DEF Demo!RustBook!End
    <3> QED
      BY <1>4, <3>3, SMTT(60) DEF Demo!RustBook!End
  <2>3. CASE Demo!StoppedOut(account.balance, b) /\ \E i \in Demo!Worst(b) : D = {i}
    <3>1. PICK i \in Demo!Worst(b) : D = {i}
      BY <2>3
    <3>2. ended \cup D = ended \cup {i}
      BY <3>1
    <3>3. Demo!RustBook!End(ended \cup {i}, bk, now)
      BY <2>2, <3>2 DEF Demo!RustBook!End
    <3> QED
      BY <1>10, <2>3, <3>1, <3>3
  <2>4. CASE ~ Demo!StoppedOut(account.balance, b) /\ D = {}
    <3>1. ended \cup D = ended
      BY <2>4
    <3>2. Demo!RustBook!End(ended, bk, now)
      BY <2>2, <3>1 DEF Demo!RustBook!End
    <3> QED
      BY <1>10, <2>4, <3>2
  <2> QED
    BY <2>1, <2>3, <2>4
<1>13. quotes' = now
  BY <1>1, <1>11
<1> QED
  BY <1>1, <1>12, <1>13 DEF Demo!RustBook!OnTick, q

(* An order takes the same identifier, for the same margin or stake.        *)
LEMMA PlaceFollows ==
  ASSUME DemoTyped, NEW p \in Demo!Holdings, Demo!Placed(p), quotes' = quotes,
         stats'.clientPnl = stats.clientPnl
  PROVE  /\ Demo!RustBook!Free # {}
         /\ AsRust(book') = [AsRust(book) EXCEPT ![CHOOSE i \in Demo!RustBook!Free : TRUE] = Demo!Mapped(p)]
<1> DEFINE r == AsRust(book)
           k == CHOOSE i \in Demo!Free : TRUE
<1>0. book \in DemoBooks
  BY DEF DemoTyped
<1>1. Demo!Free # {} /\ book' = [book EXCEPT ![k] = p]
  BY DEF Demo!Placed
<1>2. k \in Demo!Free /\ k \in DemoIds
  BY <1>1 DEF Demo!Free
<1>3. Demo!RustBook!Free = Demo!Free
  <2>1. \A i \in DemoIds : r[i] = None <=> book[i] = None
    BY <1>0, RustViews
  <2> QED
    BY <2>1 DEF Demo!RustBook!Free, Demo!Free, AsRust
<1> HIDE DEF k
<1>4. p # None
  BY TradeFields
<1>5. AsRust(book') = [r EXCEPT ![k] = Demo!Mapped(p)]
  <2>1. book'[k] = p /\ \A i \in DemoIds \ {k} : book'[i] = book[i]
    BY <1>0, <1>1, <1>2 DEF DemoBooks
  <2>2. ASSUME NEW i \in DemoIds
        PROVE  (IF book'[i] = None THEN None ELSE Demo!Mapped(book'[i]))
                 = IF i = k THEN Demo!Mapped(p) ELSE r[i]
    BY <1>4, <2>1 DEF AsRust
  <2>3. [r EXCEPT ![k] = Demo!Mapped(p)] = [i \in DemoIds |-> IF i = k THEN Demo!Mapped(p) ELSE r[i]]
    BY DEF AsRust
  <2> QED
    BY <2>2, <2>3 DEF AsRust
<1> QED
  BY <1>1, <1>3, <1>5 DEF k

LEMMA CalledFollows == Demo!Called => Demo!RustBook!Called
BY DEF Demo!Called, Demo!RustBook!Called

LEMMA CfdFollows ==
  ASSUME DemoTyped, NEW o \in DemoOrders, Demo!PlaceCfdOrder(o), Demo!Called
  PROVE  Demo!RustBook!OpenCfd(o)
<1> DEFINE q      == quotes[o.symbol]
           entry  == IF o.side = "buy" THEN q.ask ELSE q.bid
           margin == (o.size * entry) \div DemoLeverage[o.symbol]
           p      == Demo!Fresh(o, entry, margin)
<1>1. /\ o.kind = "cfd" /\ q # None /\ Demo!Placed(p)
      /\ margin <= Demo!FreeMargin(account.balance, book)
      /\ stats' = [stats EXCEPT !.cfds = @ + 1] /\ account' = account /\ quotes' = quotes
  BY DEF Demo!PlaceCfdOrder
<1>2. entry \in Nat /\ margin \in Nat /\ o.ticks \in Nat
  <2>1. o \in Demands
    BY OrdersAreDemands
  <2>2. o.symbol \in DemoSymbols /\ o.size \in Nat /\ o.ticks \in Nat
    BY <2>1 DEF Demands
  <2>3. PICK mid \in DemoMids[o.symbol] : q = Demo!Tick(o.symbol, mid)
    BY <1>1, <2>2 DEF DemoTyped
  <2>4. q.bid \in Nat /\ q.ask \in Nat
    BY <2>2, <2>3, DemoTicks
  <2>5. entry \in Nat
    BY <2>4
  <2>6. DemoLeverage[o.symbol] \in Nat \ {0}
    BY <2>2, DemoGiven
  <2>7. \A m, n \in Nat : \A d \in Nat \ {0} : (m * n) \div d \in Nat
    OBVIOUS
  <2> QED
    BY <2>2, <2>5, <2>6, <2>7
<1>3. entry = Demo!RustBook!Fill(o, q)
  BY DEF Demo!RustBook!Fill
<1> HIDE DEF entry
<1>4. p \in Demo!Holdings
  BY <1>2 DEF Demo!Fresh, Demo!Holdings
<1>5. Demo!Mapped(p) = Demo!RustBook!Fresh(o, entry, margin)
  BY <1>1 DEF Demo!Fresh, Demo!Mapped, Demo!RustBook!Fresh
<1> HIDE DEF p, margin
<1>6. Demo!RustBook!Place(Demo!RustBook!Fresh(o, entry, margin))
  <2>1. stats'.clientPnl = stats.clientPnl
    BY <1>1 DEF DemoTyped
  <2>2. /\ Demo!RustBook!Free # {}
        /\ AsRust(book') = [AsRust(book) EXCEPT ![CHOOSE i \in Demo!RustBook!Free : TRUE] = Demo!Mapped(p)]
    BY <1>1, <1>4, <2>1, PlaceFollows
  <2> QED
    BY <1>1, <1>5, <2>1, <2>2 DEF Demo!RustBook!Place, AsRust
<1>7. margin <= Demo!RustBook!FreeMargin(account.balance, AsRust(book))
  <2>1. Demo!RustBook!FreeMargin(account.balance, AsRust(book)) = Demo!FreeMargin(account.balance, book)
    BY RustMargins DEF DemoTyped
  <2> QED
    BY <1>1, <2>1
<1>8. Demo!RustBook!Called
  BY CalledFollows
<1>9. account'.balance = account.balance
  BY <1>1
<1>10. \E x \in {Demo!RustBook!Fill(o, q)} \cup {} :
           LET m == (o.size * x) \div DemoLeverage[o.symbol]
           IN  /\ m <= Demo!RustBook!FreeMargin(account.balance, AsRust(book))
               /\ Demo!RustBook!Place(Demo!RustBook!Fresh(o, x, m))
  <2> DEFINE f == Demo!RustBook!Fill(o, q)
             m == (o.size * f) \div DemoLeverage[o.symbol]
  <2>1. f = entry /\ m = margin
    BY <1>3 DEF margin
  <2>2. m <= Demo!RustBook!FreeMargin(account.balance, AsRust(book))
    BY <1>7, <2>1
  <2>3. Demo!RustBook!Fresh(o, f, m) = Demo!RustBook!Fresh(o, entry, margin)
    BY <2>1
  <2>4. Demo!RustBook!Place(Demo!RustBook!Fresh(o, f, m))
    BY <1>6, <2>3 DEF Demo!RustBook!Place
  <2>5. f \in {Demo!RustBook!Fill(o, q)} \cup {}
    OBVIOUS
  <2> QED
    BY <2>2, <2>4, <2>5 DEF Demo!RustBook!Place
<1> QED
  BY <1>1, <1>8, <1>9, <1>10 DEF Demo!RustBook!OpenCfd, AsRust

LEMMA BinaryFollows ==
  ASSUME DemoTyped, NEW o \in DemoOrders, Demo!PlaceBinary(o), Demo!Called
  PROVE  Demo!RustBook!OpenBinary(o)
<1> DEFINE p == Demo!Fresh(o, quotes[o.symbol].mid, 0)
<1>1. /\ o.kind = "binary" /\ quotes[o.symbol] # None /\ o.ticks \in 1 .. 200 /\ Demo!Placed(p)
      /\ o.size <= account.balance /\ account' = [account EXCEPT !.balance = @ - o.size]
      /\ stats' = [stats EXCEPT !.binaries = @ + 1] /\ quotes' = quotes
  BY DEF Demo!PlaceBinary
<1>2. o.symbol \in DemoSymbols /\ o.ticks \in Nat /\ o.size \in Nat
  BY OrdersAreDemands DEF Demands
<1>3. quotes[o.symbol].mid \in Int
  <2>1. PICK mid \in DemoMids[o.symbol] : quotes[o.symbol] = Demo!Tick(o.symbol, mid)
    BY <1>1, <1>2 DEF DemoTyped
  <2> QED
    BY <1>2, <2>1, DemoTicks
<1>4. p \in Demo!Holdings
  BY <1>2, <1>3 DEF Demo!Fresh, Demo!Holdings
<1>5. Demo!Mapped(p) = Demo!RustBook!Fresh(o, quotes[o.symbol].mid, o.size)
  BY <1>1 DEF Demo!Fresh, Demo!Mapped, Demo!RustBook!Fresh
<1> HIDE DEF p
<1>6. Demo!RustBook!Place(Demo!RustBook!Fresh(o, quotes[o.symbol].mid, o.size))
  <2>1. stats'.clientPnl = stats.clientPnl
    BY <1>1 DEF DemoTyped
  <2>2. /\ Demo!RustBook!Free # {}
        /\ AsRust(book') = [AsRust(book) EXCEPT ![CHOOSE i \in Demo!RustBook!Free : TRUE] = Demo!Mapped(p)]
    BY <1>1, <1>4, <2>1, PlaceFollows
  <2> QED
    BY <1>1, <1>5, <2>1, <2>2 DEF Demo!RustBook!Place, AsRust
<1>7. Demo!RustBook!Called
  BY CalledFollows
<1>8. account'.balance = account.balance - o.size
  BY <1>1 DEF DemoTyped
<1> QED
  BY <1>1, <1>6, <1>7, <1>8 DEF Demo!RustBook!OpenBinary

LEMMA CloseFollows ==
  ASSUME DemoTyped, NEW i \in DemoIds, Demo!CloseCfd(i), orders' = orders
  PROVE  Demo!RustBook!Close(i)
<1> DEFINE q    == quotes[book[i].order.symbol]
           pnl  == Demo!CloseGain(book[i], q)
           r    == AsRust(book)
           paid == {x \in {i} : quotes[r[x].order.symbol] # None}
           F    == [x \in paid |-> Demo!RustBook!Gain(r[x], quotes[r[x].order.symbol])]
           S    == [x \in paid |-> Demo!RustBook!Staked(r[x])]
<1>1. /\ i \in Demo!Positions(book) /\ q # None
      /\ account' = [balance |-> account.balance + pnl, realisedPnl |-> account.realisedPnl + pnl]
      /\ stats' = [stats EXCEPT !.clientPnl = @ + pnl]
      /\ book' = [book EXCEPT ![i] = None] /\ quotes' = quotes
  BY DEF Demo!CloseCfd
<1>2. /\ book[i] \in Demo!Holdings /\ book[i].order.kind = "cfd" /\ book \in DemoBooks /\ book[i] # None
  BY <1>1 DEF DemoTyped, DemoBooks, Demo!Positions
<1>3. q \in Demo!Ticks
  <2>1. book[i].order.symbol \in DemoSymbols
    BY <1>2, TradeFields
  <2> QED
    BY <1>1, <2>1 DEF DemoTyped
<1>4. r[i] = Demo!Mapped(book[i]) /\ r[i].order = book[i].order
      /\ Demo!RustBook!Live(r, {"cfd", "spot"}) = Demo!Positions(book)
  BY <1>2, RustViews
<1>5. pnl \in Int
  BY <1>2, <1>3, GainType
<1> HIDE DEF r
<1>6. paid = {i}
  BY <1>1, <1>4
<1>7. F[i] = pnl /\ S[i] = 0
  <2>1. Demo!RustBook!Gain(r[i], q) = pnl /\ Demo!RustBook!Staked(r[i]) = 0
    BY <1>2, <1>3, <1>4, EndOfCfd
  <2> QED
    BY <1>4, <1>6, <2>1
<1>8. Demo!RustBook!SumFunction(F) = Sum(F, {i}) /\ Demo!RustBook!SumFunction(S) = Sum(S, {i})
  BY <1>6, RustSums
<1> HIDE DEF F, S, pnl, paid
<1>9. Demo!RustBook!SumFunction(F) = pnl /\ Demo!RustBook!SumFunction(S) = 0
  BY <1>5, <1>7, <1>8, SumOfOne
<1>10. /\ account'.balance = account.balance + Demo!RustBook!SumFunction(F) + Demo!RustBook!SumFunction(S)
       /\ stats'.clientPnl = stats.clientPnl + Demo!RustBook!SumFunction(F)
  <2>1. account.balance \in Int /\ stats.clientPnl \in Int
    BY DEF DemoTyped
  <2>2. account'.balance = account.balance + pnl /\ stats'.clientPnl = stats.clientPnl + pnl
    BY <1>1 DEF DemoTyped
  <2>3. \A a, n \in Int : a + n + 0 = a + n
    OBVIOUS
  <2> QED
    BY <1>5, <1>9, <2>1, <2>2, <2>3
<1>11. [x \in DemoIds |-> IF book'[x] = None THEN None ELSE Demo!Mapped(book'[x])]
         = [x \in DemoIds |-> IF x \in {i} THEN None ELSE r[x]]
  <2>1. book'[i] = None /\ \A x \in DemoIds \ {i} : book'[x] = book[x]
    BY <1>1, <1>2 DEF DemoBooks
  <2>2. ASSUME NEW x \in DemoIds
        PROVE  (IF book'[x] = None THEN None ELSE Demo!Mapped(book'[x])) = IF x \in {i} THEN None ELSE r[x]
    BY <2>1 DEF r, AsRust
  <2> QED
    BY <2>2
<1>12. Demo!RustBook!End({i}, r, quotes)
  BY <1>6, <1>10, <1>11 DEF Demo!RustBook!End, F, S, paid
<1>13. i \in Demo!RustBook!Live(r, {"cfd", "spot"})
  BY <1>1, <1>4
<1> QED
  BY <1>1, <1>12, <1>13 DEF Demo!RustBook!Close, r, AsRust

LEMMA StepFollows ==
  ASSUME DemoTyped, [Demo!Next]_(Demo!demoVars)
  PROVE  [Demo!TieSettled \/ Demo!RustBook!Next]_(Demo!demoVars)
<1>1. ASSUME NEW o \in DemoOrders, Demo!PlaceCfdOrder(o), Demo!Called PROVE Demo!RustBook!Next
  BY <1>1, CfdFollows DEF Demo!RustBook!Next
<1>2. ASSUME NEW o \in DemoOrders, Demo!PlaceBinary(o), Demo!Called PROVE Demo!RustBook!Next
  BY <1>2, BinaryFollows DEF Demo!RustBook!Next
<1>3. ASSUME NEW i \in DemoIds, Demo!CloseCfd(i), orders' = orders PROVE Demo!RustBook!Next
  BY <1>3, CloseFollows DEF Demo!RustBook!Next
<1>4. ASSUME NEW s \in DemoSymbols, NEW mid \in DemoMids[s], Demo!OnTick(s, mid), ~ Demo!TieSettled
      PROVE  Demo!RustBook!Next
  <2>1. Demo!RustBook!OnTick(s, Demo!Tick(s, mid))
    BY <1>4, TickFollows
  <2> QED
    BY <2>1 DEF Demo!RustBook!Next, Demo!RustBook!Tick
<1> QED
  BY <1>1, <1>2, <1>3, <1>4 DEF Demo!Next, Demo!Request, Demo!Feeds

LEMMA StartFollows == Demo!Init => Demo!RustBook!Init
<1> SUFFICES ASSUME Demo!Init PROVE Demo!RustBook!Init
  OBVIOUS
<1>1. /\ account = [balance |-> DemoInitial, realisedPnl |-> 0]
      /\ book = [i \in DemoIds |-> None] /\ quotes = [s \in DemoSymbols |-> None]
      /\ stats = [clientPnl |-> 0, binaries |-> 0, wins |-> 0, cfds |-> 0] /\ orders = 0
  BY DEF Demo!Init
<1>2. AsRust(book) = [i \in DemoIds |-> None]
  BY <1>1 DEF AsRust
<1> QED
  BY <1>1, <1>2 DEF Demo!RustBook!Init, AsRust

LEMMA DemoSteps == BrowserSpec => Demo!Spec
<1>1. BrowserInit => Demo!Init
  BY DEF BrowserInit
<1>2. [BrowserNext]_allVars => [Demo!Next]_(Demo!demoVars)
  BY DEF BrowserNext, allVars, demoPart, Demo!demoVars
<1> QED
  BY <1>1, <1>2, PTL DEF BrowserSpec, Demo!Spec

(* Refinement: but for the options that end in a tie, every order, closing  *)
(* and tick of the demo engine is one of the Rust engine's book, with the   *)
(* same margins, stop-outs, payouts and balance (engine.js; open_cfd,       *)
(* open_binary, close_position, on_tick).                                   *)
THEOREM DemoFollows == BrowserSpec => FollowsRustBook
<1>1. Demo!Init => DemoTyped
  BY DemoStarts
<1>2. DemoTyped /\ [Demo!Next]_(Demo!demoVars) => DemoTyped'
  BY DemoStays
<1>3. DemoTyped /\ [Demo!Next]_(Demo!demoVars) => [Demo!TieSettled \/ Demo!RustBook!Next]_(Demo!demoVars)
  BY StepFollows
<1>4. Demo!Spec => Demo!FollowsRustBook
  BY <1>1, <1>2, <1>3, StartFollows, PTL DEF Demo!Spec, Demo!FollowsRustBook
<1> QED
  BY <1>4, DemoSteps, PTL DEF FollowsRustBook
=============================================================================
