--------------------------- MODULE OrderBookProofs ---------------------------
(***************************************************************************)
(* For any symbols, feeds, menus of orders and bounds: no open position is *)
(* past its targets, every revalued position is marked at the last quote,  *)
(* options run for no more than their ticks, and until a restart every     *)
(* open position has a quote, so that nothing is closed unpaid.            *)
(*                                                                         *)
(* Money is conserved: what left the balance is a stake or the house's.    *)
(* Only that theorem counts money (Sums); in the others what the client    *)
(* can afford and whom the stop-out takes may be anything.                 *)
(***************************************************************************)
EXTENDS OrderBook, Sums

Ticks == [bid: Nat, mid: Nat, ask: Nat]

\* What holds of a position in the book and in the snapshot.
SoundPosition(p) ==
    /\ p \in Positions
    /\ p.order.tp > 0 => p.upnl < p.order.tp
    /\ p.order.sl > 0 => p.upnl > - p.order.sl
    /\ ~ p.marked => p.upnl = 0
    /\ p.order.kind = "binary" => p.left \in 1 .. p.order.ticks /\ ~ p.marked

Sound(book) ==
    /\ book \in [Ids -> Positions \cup {Nothing}]
    /\ \A i \in Ids : book[i] # Nothing => SoundPosition(book[i])

Marked ==
    \A i \in Ids :
        pos[i] # Nothing /\ pos[i].marked /\ quote[pos[i].order.symbol] # Nothing =>
            pos[i].upnl = Pnl(pos[i], Exit(pos[i].order, quote[pos[i].order.symbol]))

IInv ==
    /\ Sound(pos) /\ Sound(saved.pos)
    /\ quote \in [Symbols -> Ticks \cup {Nothing}]
    /\ \A s \in Symbols : quote[s] # Nothing => quote[s] \in Quotes[s]
    /\ restarts \in Nat
    /\ Marked
    /\ QuotesKnown

-----------------------------------------------------------------------------
(* The values are numbers. *)

LEMMA PriceIsNat ==
    ASSUME NEW o \in Menu, NEW q \in Ticks
    PROVE  Fill(o, q) \in Nat /\ Exit(o, q) \in Nat
BY DEF Fill, Exit, Ticks

LEMMA PnlIsInt ==
    ASSUME NEW p \in Positions, NEW price \in Nat
    PROVE  Pnl(p, price) \in Int
<1>1. p.order.size \in Int /\ p.entry \in Int
    BY BookAssumption DEF Positions, Orders
<1> QED
    BY <1>1 DEF Pnl

LEMMA QuotesAreTicks ==
    ASSUME NEW s \in Symbols, NEW q \in Quotes[s]
    PROVE  q \in Ticks /\ q # Nothing
BY BookAssumption DEF Ticks

\* An order that has just been filled is sound: its targets are strictly
\* above and below zero.
LEMMA FreshIsSound ==
    ASSUME NEW o \in Menu, NEW price \in Nat, NEW held \in Nat,
           o.kind = "binary" => o.ticks \in 1 .. 200
    PROVE  SoundPosition(Fresh(o, price, held)) /\ ~ Fresh(o, price, held).marked
           /\ Fresh(o, price, held).order = o
<1>1. o \in Orders
    BY BookAssumption
<1> QED
    BY <1>1 DEF SoundPosition, Fresh, Positions, Orders

-----------------------------------------------------------------------------
(* What the operations do to the book. *)

\* A new position has a quote and disturbs no other.
LEMMA PlaceKeepsInv ==
    ASSUME IInv, NEW p, Place(p), SoundPosition(p), ~ p.marked,
           quote[p.order.symbol] # Nothing
    PROVE  IInv'
<1>1. PICK k \in Ids : pos' = [pos EXCEPT ![k] = p]
    <2>1. Free # {} /\ pos' = [pos EXCEPT ![CHOOSE i \in Free : TRUE] = p]
        BY Zenon DEF Place
    <2>2. (CHOOSE i \in Free : TRUE) \in Free
        BY <2>1
    <2> QED
        BY <2>1, <2>2 DEF Free
<1>2. UNCHANGED <<quote, saved, restarts, vanished>>
    BY DEF Place
<1>3. \A i \in Ids : pos'[i] = IF i = k THEN p ELSE pos[i]
    BY <1>1 DEF IInv, Sound
<1>4. Sound(pos') /\ Sound(saved'.pos)
    <2>1. pos' \in [Ids -> Positions \cup {Nothing}]
        BY <1>1 DEF IInv, Sound, SoundPosition
    <2> QED
        BY <1>2, <1>3, <2>1 DEF IInv, Sound
<1>5. Marked'
    BY <1>2, <1>3 DEF IInv, Marked
<1>6. QuotesKnown'
    BY <1>2, <1>3 DEF IInv, QuotesKnown, Live
<1> QED
    BY <1>2, <1>4, <1>5, <1>6 DEF IInv

\* Whatever is closed, what is left is as it was.
LEMMA EndLeavesTheRest ==
    ASSUME NEW ended, NEW book, NEW now, End(ended, book, now)
    PROVE  pos' = [i \in Ids |-> IF i \in ended THEN Nothing ELSE book[i]]
BY DEF End

\* Where every closed position has a quote, none vanishes.
LEMMA EndPays ==
    ASSUME NEW ended, NEW book, NEW now, End(ended, book, now),
           \A i \in ended : now[book[i].order.symbol] # Nothing, ~ vanished
    PROVE  ~ vanished'
<1>1. {i \in ended : now[book[i].order.symbol] # Nothing} = ended
    OBVIOUS
<1> QED
    BY <1>1 DEF End

\* A tick leaves each remaining position sound and marked at it.
LEMMA RemarkIsSound ==
    ASSUME IInv, NEW s \in Symbols, NEW q \in Quotes[s], NEW i \in Ids,
           pos[i] # Nothing,
           i \notin Hit(Remark(s, q), s), i \notin Expired(Remark(s, q), s)
    PROVE  LET p == Remark(s, q)[i]
           IN  /\ SoundPosition(p) /\ p.order = pos[i].order
               /\ p.order.symbol # s => p = pos[i]
               /\ p.order.symbol = s /\ p.marked => p.upnl = Pnl(p, Exit(p.order, q))
<1> DEFINE p == Remark(s, q)[i]
<1>1. /\ SoundPosition(pos[i]) /\ pos[i] \in Positions
      /\ pos[i].order \in Menu /\ pos[i].order \in Orders
    BY BookAssumption DEF IInv, Sound, SoundPosition, Positions
<1>2. CASE pos[i].order.symbol # s
    <2>1. p = pos[i]
        BY <1>2 DEF Remark
    <2> QED
        BY <1>1, <1>2, <2>1
<1>3. CASE pos[i].order.symbol = s /\ pos[i].order.kind = "binary"
    <2>1. p = [pos[i] EXCEPT !.left = @ - 1]
        BY <1>3 DEF Remark
    <2>2. pos[i].left \in 1 .. pos[i].order.ticks /\ ~ pos[i].marked
        BY <1>1, <1>3 DEF SoundPosition
    <2>3. /\ p \in Positions /\ p.order = pos[i].order /\ p.left = pos[i].left - 1
          /\ ~ p.marked /\ p.upnl = pos[i].upnl
        BY <1>1, <2>1, <2>2 DEF Positions
    <2>4. p.left # 0
        BY <1>3, <2>3, BookAssumption DEF Expired, Live
    <2> QED
        BY <1>1, <1>3, <2>2, <2>3, <2>4 DEF SoundPosition, Orders
<1>4. CASE pos[i].order.symbol = s /\ pos[i].order.kind # "binary"
    <2> DEFINE mark == Pnl(pos[i], Exit(pos[i].order, q))
    <2>1. p = [pos[i] EXCEPT !.upnl = mark, !.marked = TRUE]
        BY <1>4 DEF Remark
    <2>2. mark \in Int
        BY <1>1, QuotesAreTicks, PriceIsNat, PnlIsInt
    <2> HIDE DEF mark
    <2>3. /\ p \in Positions /\ p.order = pos[i].order
          /\ p.marked /\ p.upnl = mark /\ p.entry = pos[i].entry
        BY <1>1, <2>1, <2>2 DEF Positions
    <2>4. ~ Triggered(p)
        BY <1>1, <1>4, <2>3, BookAssumption DEF Hit, Live, Orders, Kinds
    <2>5. SoundPosition(p)
        BY <1>1, <1>4, <2>2, <2>3, <2>4 DEF SoundPosition, Triggered, Orders
    <2>6. mark = Pnl(p, Exit(p.order, q))
        BY <2>3 DEF Pnl, mark
    <2> QED
        BY <1>4, <2>3, <2>5, <2>6
<1> QED
    BY <1>2, <1>3, <1>4

\* Revaluing a position leaves its order alone and does not make it vanish.
LEMMA RemarkOfPosition ==
    ASSUME IInv, NEW s \in Symbols, NEW q, NEW i \in Ids, pos[i] # Nothing
    PROVE  pos[i] \in Positions /\ Remark(s, q)[i].order = pos[i].order
<1>1. pos[i] \in Positions
    BY DEF IInv, Sound, SoundPosition
<1> QED
    BY <1>1 DEF Remark, Positions

\* A tick, with whatever the stop-out takes.
LEMMA OnTickKeepsInv ==
    ASSUME IInv, NEW s \in Symbols, NEW q \in Quotes[s], OnTick(s, q)
    PROVE  IInv'
<1> DEFINE book == Remark(s, q)
           now  == Requoted(s, q)
<1>1. /\ quote' = now /\ UNCHANGED <<saved, calls, restarts, funded>>
    BY DEF OnTick
<1>2. PICK ended : /\ Hit(book, s) \cup Expired(book, s) \subseteq ended
                   /\ ended \subseteq Live(book, Kinds)
                   /\ End(ended, book, now)
    <2>1. Hit(book, s) \cup Expired(book, s) \subseteq Live(book, Kinds)
        BY DEF Hit, Expired, Live, Kinds
    <2>2. ASSUME NEW b, NEW k \in Worst([i \in Ids |-> IF i \in b THEN Nothing ELSE book[i]])
          PROVE  k \in Live(book, Kinds)
        BY <2>2 DEF Worst, Live, Kinds
    <2> QED
        BY <2>1, <2>2, Zenon DEF OnTick
<1>3. pos' = [i \in Ids |-> IF i \in ended THEN Nothing ELSE book[i]]
    BY <1>2, EndLeavesTheRest
<1>4. ASSUME NEW i \in Ids, pos'[i] # Nothing
      PROVE  /\ pos[i] # Nothing /\ pos'[i] = book[i]
             /\ i \notin Hit(book, s) /\ i \notin Expired(book, s)
    BY <1>2, <1>3, <1>4 DEF Remark
<1>5. q \in Ticks /\ q # Nothing
    BY QuotesAreTicks
<1>6. \A x \in Symbols : quote'[x] = IF x = s THEN q ELSE quote[x]
    BY <1>1 DEF IInv, Requoted
<1>7. Sound(pos') /\ Sound(saved'.pos)
    <2>1. ASSUME NEW i \in Ids, pos'[i] # Nothing
          PROVE  SoundPosition(pos'[i])
        BY <1>4, <2>1, RemarkIsSound
    <2>2. pos' \in [Ids -> Positions \cup {Nothing}]
        BY <1>3, <2>1 DEF SoundPosition
    <2> QED
        BY <1>1, <2>1, <2>2 DEF IInv, Sound
<1>8. ASSUME NEW i \in Ids, pos'[i] # Nothing
      PROVE  pos'[i].order.symbol \in Symbols
    BY <1>7, <1>8, BookAssumption DEF Sound, SoundPosition, Positions, Orders
<1>9. Marked'
    BY <1>4, <1>6, <1>8, RemarkIsSound DEF IInv, Marked
<1>10. QuotesKnown'
    <2>1. SUFFICES ASSUME restarts = 0
                   PROVE  ~ vanished' /\ \A i \in Live(pos', Kinds) : quote'[pos'[i].order.symbol] # Nothing
        BY <1>1 DEF QuotesKnown
    <2>2. ASSUME NEW i \in Ids, pos[i] # Nothing
          PROVE  /\ book[i].order = pos[i].order /\ pos[i].order.symbol \in Symbols
                 /\ quote[pos[i].order.symbol] # Nothing
        <3>1. SoundPosition(pos[i])
            BY <2>2 DEF IInv, Sound
        <3>2. pos[i] \in Positions /\ pos[i].order \in Orders
            BY <3>1, BookAssumption DEF SoundPosition, Positions
        <3>3. i \in Live(pos, Kinds)
            BY <2>2, <3>2 DEF Live, Orders
        <3> QED
            BY <2>1, <2>2, <3>2, <3>3 DEF IInv, QuotesKnown, Remark, Positions, Orders
    <2>3. \A i \in ended : now[book[i].order.symbol] # Nothing
        BY <1>1, <1>2, <1>5, <1>6, <2>2 DEF Live, Remark
    <2>4. ~ vanished'
        BY <1>2, <2>1, <2>3, EndPays DEF IInv, QuotesKnown
    <2> QED
        BY <1>4, <1>5, <1>6, <2>2, <2>4 DEF Live
<1>11. quote' \in [Symbols -> Ticks \cup {Nothing}]
       /\ \A x \in Symbols : quote'[x] # Nothing => quote'[x] \in Quotes[x]
    BY <1>1, <1>5, <1>6 DEF IInv, Requoted
<1> QED
    BY <1>1, <1>7, <1>9, <1>10, <1>11 DEF IInv

-----------------------------------------------------------------------------
(* The invariant. *)

LEMMA InitInv == Init => IInv
BY BookAssumption DEF Init, IInv, Sound, Marked, QuotesKnown, Live

LEMMA OpenCfdKeepsInv ==
    ASSUME IInv, NEW o \in Menu, OpenCfd(o)
    PROVE  IInv'
<1> DEFINE q == quote[o.symbol]
<1>1. PICK entry \in {Fill(o, q)} \cup LpPrices :
          Place(Fresh(o, entry, (o.size * entry) \div Leverage[o.symbol]))
    BY Zenon DEF OpenCfd
<1>2. o \in Orders /\ Leverage[o.symbol] \in Nat \ {0} /\ LpPrices \subseteq Nat
    BY BookAssumption DEF Orders
<1>3. q # Nothing /\ q \in Ticks /\ o.kind = "cfd"
    BY <1>2 DEF OpenCfd, IInv, Orders
<1>4. entry \in Nat
    BY <1>2, <1>3, PriceIsNat
<1>5. (o.size * entry) \div Leverage[o.symbol] \in Nat
    <2>1. o.size \in Nat
        BY <1>2 DEF Orders
    <2>2. o.size * entry \in Nat
        BY <1>4, <2>1
    <2> QED
        BY <1>2, <2>2
<1> QED
    BY <1>1, <1>3, <1>4, <1>5, FreshIsSound, PlaceKeepsInv

LEMMA OpenSpotKeepsInv ==
    ASSUME IInv, NEW o \in Menu, OpenSpot(o)
    PROVE  IInv'
<1> DEFINE q == quote[o.symbol]
           entry == Fill(o, q)
<1>1. o \in Orders
    BY BookAssumption
<1>2. q # Nothing /\ q \in Ticks /\ o.kind = "spot"
    BY <1>1 DEF OpenSpot, IInv, Orders
<1>3. entry \in Nat /\ o.size * entry \in Nat
    <2>1. entry \in Nat /\ o.size \in Nat
        BY <1>1, <1>2, PriceIsNat DEF Orders
    <2> QED
        BY <2>1
<1>4. Place(Fresh(o, entry, o.size * entry))
    BY DEF OpenSpot
<1> QED
    BY <1>2, <1>3, <1>4, FreshIsSound, PlaceKeepsInv

LEMMA OpenBinaryKeepsInv ==
    ASSUME IInv, NEW o \in Menu, OpenBinary(o)
    PROVE  IInv'
<1> DEFINE q == quote[o.symbol]
<1>1. o \in Orders
    BY BookAssumption
<1>2. /\ q # Nothing /\ q \in Ticks /\ o.kind = "binary" /\ o.ticks \in 1 .. 200
      /\ Place(Fresh(o, q.mid, o.size))
    BY <1>1 DEF OpenBinary, IInv, Orders
<1>3. q.mid \in Nat /\ o.size \in Nat
    BY <1>1, <1>2 DEF Ticks, Orders
<1> QED
    BY <1>2, <1>3, FreshIsSound, PlaceKeepsInv

LEMMA CloseKeepsInv ==
    ASSUME IInv, NEW i \in Ids, Close(i)
    PROVE  IInv'
<1>1. End({i}, pos, quote) /\ UNCHANGED <<quote, saved, restarts>> /\ i \in Live(pos, Kinds)
    BY DEF Close, Live, Kinds
<1>2. pos' = [k \in Ids |-> IF k \in {i} THEN Nothing ELSE pos[k]]
    BY <1>1, EndLeavesTheRest
<1>3. Sound(pos') /\ Sound(saved'.pos) /\ Marked'
    BY <1>1, <1>2 DEF IInv, Sound, Marked
<1>4. restarts = 0 => ~ vanished'
    BY <1>1, EndPays DEF IInv, QuotesKnown
<1>5. QuotesKnown'
    BY <1>1, <1>2, <1>4 DEF IInv, QuotesKnown, Live
<1> QED
    BY <1>1, <1>3, <1>5 DEF IInv

LEMMA SaveKeepsInv ==
    ASSUME IInv, Save
    PROVE  IInv'
<1>1. saved'.pos = Snapshot /\ UNCHANGED <<pos, quote, restarts, vanished>>
    BY DEF Save
<1>2. Sound(saved'.pos) /\ Sound(pos')
    BY <1>1 DEF IInv, Sound, Snapshot
<1> QED
    BY <1>1, <1>2 DEF IInv, Marked, QuotesKnown, Live

\* The snapshot may hold any sound book; no quote is known, and restarts is
\* not 0 any more.
LEMMA RestartKeepsInv ==
    ASSUME IInv, Restart
    PROVE  IInv'
<1>1. /\ pos' = saved.pos /\ saved' = saved /\ restarts' = restarts + 1
      /\ quote' = [s \in Symbols |-> Nothing]
    BY DEF Restart
<1>2. restarts' # 0 /\ restarts' \in Nat
    BY <1>1 DEF IInv
<1>3. Sound(pos') /\ Sound(saved'.pos)
    BY <1>1 DEF IInv, Sound
<1>4. Marked'
    <2>1. ASSUME NEW i \in Ids, pos'[i] # Nothing
          PROVE  pos'[i].order.symbol \in Symbols
        BY <1>3, <2>1, BookAssumption DEF Sound, SoundPosition, Positions, Orders
    <2> QED
        BY <1>1, <2>1 DEF Marked
<1> QED
    BY <1>1, <1>2, <1>3, <1>4 DEF IInv, QuotesKnown

THEOREM Invariant == Spec => []IInv
<1>1. IInv /\ [Next]_vars => IInv'
    <2> SUFFICES ASSUME IInv, [Next]_vars
                 PROVE  IInv'
        OBVIOUS
    <2>1. ASSUME NEW o \in Menu, OpenCfd(o) \/ OpenSpot(o) \/ OpenBinary(o)
          PROVE  IInv'
        BY <2>1, OpenCfdKeepsInv, OpenSpotKeepsInv, OpenBinaryKeepsInv
    <2>2. ASSUME NEW d \in Deltas, AdjustBalance(d)
          PROVE  IInv'
        BY <2>2 DEF AdjustBalance, IInv, Sound, Marked, QuotesKnown, Live
    <2>3. ASSUME NEW i \in Ids, Close(i)
          PROVE  IInv'
        BY <2>3, CloseKeepsInv
    <2>4. CASE Tick
        BY <2>4, OnTickKeepsInv DEF Tick
    <2>5. CASE Save
        BY <2>5, SaveKeepsInv
    <2>6. CASE Restart
        BY <2>6, RestartKeepsInv
    <2>7. CASE UNCHANGED vars
        BY <2>7 DEF vars, IInv, Sound, Marked, QuotesKnown, Live
    <2> QED
        BY <2>1, <2>2, <2>3, <2>4, <2>5, <2>6, <2>7 DEF Next
<1> QED
    BY <1>1, InitInv, PTL DEF Spec

\* Whatever reaches a target closes the position: none that is open is past
\* its take-profit or stop-loss (on_tick, and after a restart).
THEOREM NoTargetPassed == Spec => []TargetsHonoured
<1>1. IInv => TargetsHonoured
    BY DEF IInv, Sound, SoundPosition, TargetsHonoured, Live
<1> QED
    BY <1>1, Invariant, PTL

\* The margin counts every revalued CFD, and the book every revalued spot
\* position, for what closing it at the last quote would pay.
THEOREM MarkedToMarket == Spec => []MarksCurrent
<1>1. IInv => MarksCurrent
    BY DEF IInv, Sound, SoundPosition, Marked, MarksCurrent, Live, Gain
<1> QED
    BY <1>1, Invariant, PTL

\* Until the engine restarts, nothing that is closed by the client, a target
\* or the stop-out is dropped without its P&L (close_cfd, close_spot).
THEOREM NothingVanishes == Spec => []QuotesKnown
<1>1. IInv => QuotesKnown
    BY DEF IInv
<1> QED
    BY <1>1, Invariant, PTL

\* Every open option has between one tick and its full life to go.
THEOREM OptionsRun == Spec => []OptionsRunning
<1>1. IInv => OptionsRunning
    BY DEF IInv, Sound, SoundPosition, OptionsRunning, Live
<1> QED
    BY <1>1, Invariant, PTL

\* The level a tick gives to a CFD of the book is its gain at the new quote,
\* or its last level if the tick is of another symbol.
LEMMA MarkedByTick ==
    ASSUME IInv, NEW s \in Symbols, NEW q \in Quotes[s], OnTick(s, q), quote' # quote,
           NEW i \in Live(pos, {"cfd"})
    PROVE  /\ Remark(s, q)[i].upnl = Level(i)
           /\ pos[i].order.symbol = s =>
                  Triggered(Remark(s, q)[i]) = Triggered([pos[i] EXCEPT !.upnl = Level(i)])
<1> DEFINE p == pos[i]
           x == p.order.symbol
           m == Level(i)
           r == Remark(s, q)[i]
<1>1. p # Nothing /\ p.order.kind = "cfd" /\ p \in Positions /\ x \in Symbols
    BY BookAssumption DEF Live, IInv, Sound, SoundPosition, Positions, Orders
<1>2. quote' = [quote EXCEPT ![s] = q]
    BY DEF OnTick, Requoted
<1>3. quote'[s] = q /\ quote[s] # q
    BY <1>2 DEF IInv
<1>4. CASE x = s
    <2>1. m = Pnl(p, Exit(p.order, q))
        BY <1>1, <1>3, <1>4 DEF Gain, Level
    <2>2. r = [p EXCEPT !.upnl = Pnl(p, Exit(p.order, q)), !.marked = TRUE]
        BY <1>1, <1>4 DEF Remark, Live
    <2>3. r.upnl = m /\ r.order = p.order
        BY <1>1, <2>1, <2>2 DEF Positions
    <2>4. [p EXCEPT !.upnl = m].upnl = m /\ [p EXCEPT !.upnl = m].order = p.order
        BY <1>1 DEF Positions
    <2> QED
        BY <2>3, <2>4 DEF Triggered
<1>5. CASE x # s
    <2>1. r = p /\ quote'[x] = quote[x]
        BY <1>1, <1>2, <1>5 DEF Remark, Live, IInv
    <2> QED
        BY <1>5, <2>1 DEF Level
<1> QED
    BY <1>4, <1>5

\* A CFD that a tick closes was at its target, or none of the CFDs left is
\* doing worse.
THEOREM WorstIsStopped == Spec => WorstFirst
<1>1. IInv /\ [Next]_vars => [StopsTheWorst]_vars
    <2> SUFFICES ASSUME IInv, Next, restarts' = restarts, quote' # quote,
                        NEW i \in Live(pos, {"cfd"}), pos'[i] = Nothing
                 PROVE  \/ Triggered([pos[i] EXCEPT !.upnl = Level(i)])
                        \/ \A j \in Live(pos', {"cfd"}) : Level(i) <= pos'[j].upnl
        BY DEF StopsTheWorst
    <2>1. Tick
        <3>1. ~ Restart
            BY DEF Restart, IInv
        <3>2. ~ \E o \in Menu : OpenCfd(o) \/ OpenSpot(o) \/ OpenBinary(o)
            BY Zenon DEF OpenCfd, OpenSpot, OpenBinary, Place
        <3>3. ~ \E d \in Deltas : AdjustBalance(d)
            BY DEF AdjustBalance
        <3>4. ~ \E k \in Ids : Close(k)
            BY DEF Close
        <3>5. ~ Save
            BY DEF Save
        <3> QED
            BY <3>1, <3>2, <3>3, <3>4, <3>5 DEF Next
    <2>0. PICK s \in Symbols : \E q \in Quotes[s] : OnTick(s, q)
        BY <2>1 DEF Tick
    <2>2. PICK q \in Quotes[s] : OnTick(s, q)
        BY <2>0
    <2> DEFINE book  == Remark(s, q)
               first == Hit(book, s) \cap Live(book, {"cfd"})
               kept  == [k \in Ids |-> IF k \in first THEN Nothing ELSE book[k]]
               ended == Hit(book, s) \cup Expired(book, s)
    <2>3. /\ pos[i] # Nothing /\ i \in Ids /\ pos[i].order.kind = "cfd" /\ pos[i] \in Positions
          /\ book[i].order.kind = "cfd"
        BY RemarkOfPosition DEF Live, IInv, Sound, SoundPosition
    <2>4. book[i].upnl = Level(i)
          /\ (pos[i].order.symbol = s => Triggered(book[i]) = Triggered([pos[i] EXCEPT !.upnl = Level(i)]))
        BY <2>2, MarkedByTick
    <2>5. CASE i \in Hit(book, s)
        BY <2>3, <2>4, <2>5 DEF Hit, Remark
    <2>6. i \notin Expired(book, s)
        BY <2>3 DEF Expired, Live
    <2>7. CASE i \notin Hit(book, s)
        <3>0. book[i] # Nothing
            BY <2>3, <2>6, <2>7, RemarkIsSound, BookAssumption DEF SoundPosition
        <3>1. PICK w \in Worst(kept) : End(ended \cup {w}, book, Requoted(s, q))
            <4>1. ASSUME End(ended, book, Requoted(s, q))
                  PROVE  FALSE
                BY <2>3, <2>6, <2>7, <3>0, <4>1, EndLeavesTheRest
            <4> QED
                BY <2>2, <4>1, Zenon DEF OnTick
        <3>2. pos' = [k \in Ids |-> IF k \in ended \cup {w} THEN Nothing ELSE book[k]]
            BY <3>1, EndLeavesTheRest
        <3>3. i = w
            BY <2>3, <2>6, <2>7, <3>0, <3>2
        <3>4. ASSUME NEW j \in Live(pos', {"cfd"})
              PROVE  j \in Live(kept, {"cfd"}) /\ kept[j].upnl = pos'[j].upnl
            BY <3>2, <3>4 DEF Live
        <3>5. kept[w].upnl = Level(i)
            BY <2>3, <2>4, <2>7, <3>3
        <3> QED
            BY <3>1, <3>4, <3>5 DEF Worst
    <2> QED
        BY <2>5, <2>7
<1> QED
    BY <1>1, Invariant, PTL DEF Spec, WorstFirst

-----------------------------------------------------------------------------
(* The money.  What is staked is counted over all identifiers, with 0 for  *)
(* those of no position.                                                   *)

Book == [Ids -> Positions \cup {Nothing}]

StakeAt(book) == [i \in Ids |-> IF book[i] = Nothing THEN 0 ELSE Staked(book[i])]

LEMMA LivePositions ==
    ASSUME NEW book \in Book
    PROVE  Live(book, Kinds) = {i \in Ids : book[i] # Nothing}
BY BookAssumption DEF Book, Live, Positions, Orders

LEMMA StakedIsNat ==
    ASSUME NEW p \in Positions
    PROVE  Staked(p) \in Nat
BY DEF Staked, Positions

LEMMA StakesCounted ==
    ASSUME NEW book \in Book
    PROVE  Stakes(book) = Sum(StakeAt(book), Ids) /\ Numbers(StakeAt(book), Ids)
<1> DEFINE L == Live(book, Kinds)
           f == [i \in L |-> Staked(book[i])]
<1>1. L \in SUBSET Ids /\ L = {i \in Ids : book[i] # Nothing} /\ IsFiniteSet(Ids)
    BY LivePositions, BookAssumption
<1>2. Numbers(StakeAt(book), Ids)
    BY StakedIsNat DEF Numbers, StakeAt, Book
<1>3. \A i \in Ids \ L : StakeAt(book)[i] = 0
    BY <1>1 DEF StakeAt
<1>4. \A i \in L : f[i] = StakeAt(book)[i]
    BY <1>1 DEF StakeAt
<1>5. IsFiniteSet(L)
    BY <1>1, FS_Subset
<1>6. Stakes(book) = Sum(f, L)
    BY SumOfFunction DEF Stakes
<1> HIDE DEF L, f
<1>7. Sum(f, L) = Sum(StakeAt(book), L)
    BY <1>4, <1>5, SumSame
<1>8. Sum(StakeAt(book), Ids) = Sum(StakeAt(book), L)
    BY <1>1, <1>2, <1>3, SumZero
<1> QED
    BY <1>2, <1>6, <1>7, <1>8

LEMMA StakesIsInt ==
    ASSUME NEW book \in Book
    PROVE  Stakes(book) \in Int
BY StakesCounted, SumType, BookAssumption

\* A new position adds its stake.
LEMMA StakesOfPlace ==
    ASSUME NEW book \in Book, NEW k \in Ids, book[k] = Nothing, NEW p \in Positions
    PROVE  Stakes([book EXCEPT ![k] = p]) = Stakes(book) + Staked(p)
<1> DEFINE next == [book EXCEPT ![k] = p]
<1>1. next \in Book /\ next[k] = p /\ p # Nothing
    BY BookAssumption DEF Book
<1>2. \A i \in Ids \ {k} : next[i] = book[i]
    BY DEF Book
<1> HIDE DEF next
<1>3. \A i \in Ids \ {k} : StakeAt(next)[i] = StakeAt(book)[i]
    BY <1>2 DEF StakeAt
<1>4. StakeAt(book)[k] = 0 /\ StakeAt(next)[k] = Staked(p) /\ Staked(p) \in Nat
    BY <1>1, StakedIsNat DEF StakeAt
<1>5. /\ Numbers(StakeAt(book), Ids) /\ Numbers(StakeAt(next), Ids) /\ IsFiniteSet(Ids)
      /\ Sum(StakeAt(book), Ids) \in Int
    BY <1>1, StakesCounted, SumType, BookAssumption
<1>6. Sum(StakeAt(next), Ids) = Sum(StakeAt(book), Ids) - StakeAt(book)[k] + StakeAt(next)[k]
    BY <1>3, <1>5, SumChange
<1>7. Sum(StakeAt(next), Ids) = Sum(StakeAt(book), Ids) + Staked(p)
    BY <1>4, <1>5, <1>6
<1>8. Stakes(next) = Sum(StakeAt(next), Ids) /\ Stakes(book) = Sum(StakeAt(book), Ids)
    BY <1>1, StakesCounted
<1> QED
    BY <1>7, <1>8 DEF next

\* The positions that end take their stakes with them.
LEMMA StakesOfEnd ==
    ASSUME NEW book \in Book, NEW ended \in SUBSET Live(book, Kinds)
    PROVE  LET rest == [i \in Ids |-> IF i \in ended THEN Nothing ELSE book[i]]
           IN  Stakes(book) = SumFunction([i \in ended |-> Staked(book[i])]) + Stakes(rest)
<1> DEFINE rest == [i \in Ids |-> IF i \in ended THEN Nothing ELSE book[i]]
           f == [i \in ended |-> Staked(book[i])]
<1>1. ended \in SUBSET Ids /\ rest \in Book /\ IsFiniteSet(Ids) /\ IsFiniteSet(ended)
    BY BookAssumption, FS_Subset DEF Live, Book
<1>2. \A i \in Ids : StakeAt(rest)[i] = IF i \in ended THEN 0 ELSE StakeAt(book)[i]
    BY DEF StakeAt
<1>3. \A i \in ended : f[i] = StakeAt(book)[i]
    BY DEF StakeAt, Live
<1>4. SumFunction(f) = Sum(f, ended)
    BY SumOfFunction
<1> HIDE DEF rest, f
<1>5. Sum(f, ended) = Sum(StakeAt(book), ended)
    BY <1>1, <1>3, SumSame
<1>6. Sum(StakeAt(book), Ids) = Sum(StakeAt(book), ended) + Sum(StakeAt(rest), Ids)
    BY <1>1, <1>2, StakesCounted, SumDrop
<1>7. Stakes(book) = SumFunction(f) + Stakes(rest)
    BY <1>1, <1>4, <1>5, <1>6, StakesCounted
<1> QED
    BY <1>7 DEF rest, f

\* A tick revalues positions, or brings options nearer to their end, and
\* leaves the stakes as they were.
LEMMA RemarkMovesPosition ==
    ASSUME IInv, NEW s \in Symbols, NEW q \in Quotes[s],
           NEW i \in Ids, pos[i] # Nothing, pos[i].order.symbol = s
    PROVE  Remark(s, q)[i] \in Positions /\ Remark(s, q)[i] # Nothing
<1>1. SUFFICES Remark(s, q)[i] \in Positions
    BY BookAssumption
<1>2. /\ pos[i] \in Positions /\ pos[i].order \in Menu
      /\ pos[i].order.kind = "binary" => pos[i].left \in 1 .. pos[i].order.ticks
    BY <1>1 DEF IInv, Sound, SoundPosition, Positions
<1>3. CASE pos[i].order.kind = "binary"
    BY <1>1, <1>2, <1>3 DEF Remark, Positions
<1>4. CASE pos[i].order.kind # "binary"
    <2>1. Pnl(pos[i], Exit(pos[i].order, q)) \in Int
        BY <1>2, QuotesAreTicks, PriceIsNat, PnlIsInt
    <2> QED
        BY <1>1, <1>2, <1>4, <2>1 DEF Remark, Positions
<1> QED
    BY <1>3, <1>4

LEMMA RemarkIsBook ==
    ASSUME IInv, NEW s \in Symbols, NEW q \in Quotes[s]
    PROVE  Remark(s, q) \in Book
<1>1. ASSUME NEW i \in Ids
      PROVE  Remark(s, q)[i] \in Positions \cup {Nothing}
    BY RemarkMovesPosition DEF IInv, Sound, Remark
<1> QED
    BY <1>1 DEF Book, Remark

LEMMA StakesOfRemark ==
    ASSUME IInv, NEW s \in Symbols, NEW q \in Quotes[s]
    PROVE  Stakes(Remark(s, q)) = Stakes(pos)
<1>1. pos \in Book /\ Remark(s, q) \in Book
    BY RemarkIsBook DEF IInv, Sound, Book
<1>2. ASSUME NEW i \in Ids
      PROVE  StakeAt(Remark(s, q))[i] = StakeAt(pos)[i]
    <2>1. CASE pos[i] = Nothing
        BY <2>1 DEF Remark, StakeAt
    <2>2. CASE pos[i] # Nothing
        <3>1. pos[i] \in Positions
            BY <1>1, <2>2 DEF Book
        <3>2. Remark(s, q)[i].order = pos[i].order /\ Remark(s, q)[i].held = pos[i].held
            BY <2>2, <3>1 DEF Remark, Positions
        <3>3. Remark(s, q)[i] # Nothing
            <4>1. CASE pos[i].order.symbol # s
                BY <2>2, <4>1 DEF Remark
            <4>2. CASE pos[i].order.symbol = s
                BY <2>2, <4>2, RemarkMovesPosition
            <4> QED
                BY <4>1, <4>2
        <3> QED
            BY <2>2, <3>2, <3>3 DEF StakeAt, Staked
    <2> QED
        BY <2>1, <2>2
<1> QED
    BY <1>1, <1>2, SumSame, StakesCounted, BookAssumption

\* What the end of a position makes the client win or lose is a number.
LEMMA GainIsInt ==
    ASSUME NEW p \in Positions, NEW q \in Ticks
    PROVE  Gain(p, q) \in Int
<1>1. p.order \in Menu /\ p.held \in Nat /\ p.entry \in Nat /\ q.mid \in Nat
    BY DEF Positions, Ticks
<1>2. Pnl(p, Exit(p.order, q)) \in Int
    BY <1>1, PriceIsNat, PnlIsInt
<1>3. OptionPayout(p, q.mid) \in Int
    <2>1. (p.held * 37) \div 20 \in Int
        BY <1>1
    <2>2. q.mid = p.entry \/ q.mid > p.entry \/ q.mid < p.entry
        BY <1>1
    <2> QED
        BY <1>1, <2>1, <2>2 DEF OptionPayout
<1> QED
    BY <1>1, <1>2, <1>3 DEF Gain

\* Unless a position vanishes, what the positions that end had staked and
\* what they gain are paid, and the house records the gain.
LEMMA EndKeepsBalance ==
    ASSUME NEW book \in Book, NEW ended \in SUBSET Live(book, Kinds),
           NEW now \in [Symbols -> Ticks \cup {Nothing}], End(ended, book, now),
           balance \in Int, house \in Int, vanished \in BOOLEAN
    PROVE  /\ balance' \in Int /\ house' \in Int /\ vanished' \in BOOLEAN
           /\ ~ vanished' =>
                  ~ vanished /\ balance' + Stakes(pos') - house' = balance + Stakes(book) - house
<1> DEFINE paid == {i \in ended : now[book[i].order.symbol] # Nothing}
           won == [i \in paid |-> Gain(book[i], now[book[i].order.symbol])]
           gain == SumFunction(won)
           back == [i \in paid |-> Staked(book[i])]
           returned == SumFunction(back)
<1>1. /\ pos' = [i \in Ids |-> IF i \in ended THEN Nothing ELSE book[i]]
      /\ balance' = balance + gain + returned
      /\ house' = house + gain
      /\ vanished' = (vanished \/ paid # ended)
    BY DEF End
<1>2. IsFiniteSet(paid)
    BY BookAssumption, FS_Subset DEF Live
<1>3. ASSUME NEW i \in paid
      PROVE  won[i] \in Int /\ back[i] \in Int
    <2>1. book[i] \in Positions /\ book[i].order.symbol \in Symbols
        BY BookAssumption DEF Live, Book, Positions, Orders
    <2>2. now[book[i].order.symbol] \in Ticks
        BY <2>1
    <2> QED
        BY <2>1, <2>2, GainIsInt, StakedIsNat
<1>4. gain \in Int /\ returned \in Int
    <2>1. gain = Sum(won, paid) /\ returned = Sum(back, paid)
        BY SumOfFunction
    <2>2. Numbers(won, paid) /\ Numbers(back, paid)
        BY <1>3 DEF Numbers
    <2> HIDE DEF won, back, gain, returned, paid
    <2> QED
        BY <1>2, <2>1, <2>2, SumType
<1>5. balance' \in Int /\ house' \in Int /\ vanished' \in BOOLEAN
    BY <1>1, <1>4
<1>6. ASSUME ~ vanished'
      PROVE  ~ vanished /\ Stakes(book) = returned + Stakes(pos')
    BY <1>1, <1>6, StakesOfEnd
<1>7. Stakes(book) \in Int
    BY StakesIsInt
<1>8. Stakes(pos') \in Int
    BY <1>1, StakesIsInt DEF Book
<1> HIDE DEF gain, returned
<1> QED
    BY <1>1, <1>4, <1>5, <1>6, <1>7, <1>8

\* The accounts: the types of the amounts, and that they add up.
Ledger ==
    /\ balance \in Int /\ house \in Int /\ funded \in Int
    /\ saved \in [balance: Int, pos: Book]
    /\ calls \in Nat /\ restarts \in 0 .. MaxRestarts /\ vanished \in BOOLEAN
    /\ BooksBalance

\* The steps that end positions.
LEMMA EndKeepsLedger ==
    ASSUME IInv, Ledger, NEW book \in Book, NEW ended \in SUBSET Live(book, Kinds),
           Stakes(book) = Stakes(pos),
           NEW now \in [Symbols -> Ticks \cup {Nothing}], End(ended, book, now),
           UNCHANGED <<saved, calls, restarts, funded>>
    PROVE  Ledger'
<1>1. balance \in Int /\ house \in Int /\ vanished \in BOOLEAN /\ funded \in Int
    BY DEF Ledger
<1>2. /\ balance' \in Int /\ house' \in Int /\ vanished' \in BOOLEAN
      /\ ~ vanished' =>
             ~ vanished /\ balance' + Stakes(pos') - house' = balance + Stakes(book) - house
    BY <1>1, EndKeepsBalance
<1>3. pos' \in Book
    BY EndLeavesTheRest DEF Book
<1>4. Stakes(pos) \in Int /\ Stakes(pos') \in Int
    BY <1>3, StakesIsInt DEF IInv, Sound, Book
<1>5. BooksBalance'
    BY <1>1, <1>2, <1>4 DEF Ledger, BooksBalance
<1> QED
    BY <1>2, <1>5 DEF Ledger

\* The steps that open one.
LEMMA PlaceKeepsLedger ==
    ASSUME IInv, Ledger, NEW p \in Positions, Place(p), calls' \in Nat,
           balance' = balance - Staked(p)
    PROVE  Ledger'
<1>1. PICK k \in Ids : pos[k] = Nothing /\ pos' = [pos EXCEPT ![k] = p]
    <2>1. Free # {} /\ pos' = [pos EXCEPT ![CHOOSE i \in Free : TRUE] = p]
        BY Zenon DEF Place
    <2>2. (CHOOSE i \in Free : TRUE) \in Free
        BY <2>1
    <2> QED
        BY <2>1, <2>2 DEF Free
<1>2. pos \in Book
    BY DEF IInv, Sound, Book
<1>3. Stakes(pos') = Stakes(pos) + Staked(p)
    BY <1>1, <1>2, StakesOfPlace
<1>4. Stakes(pos) \in Int /\ Staked(p) \in Nat
    BY <1>2, StakesIsInt, StakedIsNat
<1>5. UNCHANGED <<house, saved, restarts, funded, vanished>>
    BY DEF Place
<1>6. balance' \in Int /\ BooksBalance'
    BY <1>3, <1>4, <1>5 DEF Ledger, BooksBalance
<1> QED
    BY <1>5, <1>6 DEF Ledger

LEMMA InitLedger == Init => Ledger
<1> SUFFICES ASSUME Init PROVE Ledger
    OBVIOUS
<1> DEFINE none == [i \in Ids |-> Nothing]
<1>1. none \in Book /\ Live(none, Kinds) = {}
    BY DEF Book, Live
<1>2. Stakes(none) = 0
    <2>1. DOMAIN [i \in Live(none, Kinds) |-> Staked(none[i])] = {}
        BY <1>1
    <2> QED
        BY <2>1, SumOfFunction, SumEmpty DEF Stakes
<1>3. pos = none
    BY DEF Init
<1>4. saved \in [balance: Int, pos: Book]
    BY <1>1, BookAssumption DEF Init
<1> HIDE DEF none
<1>5. Stakes(pos) = 0
    BY <1>2, <1>3
<1>6. /\ balance = Initial /\ funded = Initial /\ house = 0 /\ Initial \in Nat
    BY BookAssumption DEF Init
<1>7. BooksBalance
    BY <1>5, <1>6 DEF BooksBalance
<1>8. calls \in Nat /\ restarts \in 0 .. MaxRestarts
    BY BookAssumption DEF Init
<1>9. vanished \in BOOLEAN
    BY DEF Init
<1> QED
    BY <1>4, <1>6, <1>7, <1>8, <1>9 DEF Ledger

LEMMA OpenKeepsLedger ==
    ASSUME IInv, Ledger, NEW o \in Menu, OpenCfd(o) \/ OpenSpot(o) \/ OpenBinary(o)
    PROVE  Ledger'
<1> DEFINE q == quote[o.symbol]
<1>1. o \in Orders /\ q \in Ticks \cup {Nothing} /\ calls \in Nat
    BY BookAssumption DEF IInv, Ledger, Orders
<1>2. CASE OpenCfd(o)
    <2>1. PICK entry \in {Fill(o, q)} \cup LpPrices :
              Place(Fresh(o, entry, (o.size * entry) \div Leverage[o.symbol]))
        BY <1>2, Zenon DEF OpenCfd
    <2>2. q \in Ticks /\ o.kind = "cfd" /\ balance' = balance /\ calls' \in Nat
        BY <1>1, <1>2 DEF OpenCfd, Called
    <2>3. entry \in Nat /\ o.size \in Nat /\ Leverage[o.symbol] \in Nat \ {0}
        BY <1>1, <2>2, PriceIsNat, BookAssumption DEF Orders
    <2> DEFINE margin == (o.size * entry) \div Leverage[o.symbol]
    <2>4. margin \in Nat
        <3>1. o.size * entry \in Nat
            BY <2>3
        <3> QED
            BY <2>3, <3>1
    <2> HIDE DEF margin
    <2>5. Fresh(o, entry, margin) \in Positions /\ Staked(Fresh(o, entry, margin)) = 0
        BY <1>1, <2>2, <2>3, <2>4 DEF Positions, Fresh, Staked, Orders
    <2>6. Place(Fresh(o, entry, margin)) /\ balance' = balance - 0
        BY <2>1, <2>2 DEF margin, Ledger
    <2> QED
        BY <2>2, <2>5, <2>6, PlaceKeepsLedger
<1>3. CASE OpenSpot(o)
    <2> DEFINE entry == Fill(o, q)
               stake == o.size * entry
    <2>1. /\ q \in Ticks /\ o.kind = "spot" /\ balance' = balance - stake
          /\ calls' \in Nat /\ Place(Fresh(o, entry, stake))
        BY <1>1, <1>3 DEF OpenSpot, Called
    <2>2. entry \in Nat /\ o.size \in Nat
        BY <1>1, <2>1, PriceIsNat DEF Orders
    <2>3. stake \in Nat
        BY <2>2
    <2> HIDE DEF stake, entry
    <2>4. Fresh(o, entry, stake) \in Positions /\ Staked(Fresh(o, entry, stake)) = stake
        BY <1>1, <2>1, <2>2, <2>3 DEF Positions, Fresh, Staked, Orders
    <2> QED
        BY <2>1, <2>4, PlaceKeepsLedger
<1>4. CASE OpenBinary(o)
    <2>1. /\ q \in Ticks /\ o.kind = "binary" /\ balance' = balance - o.size
          /\ calls' \in Nat /\ Place(Fresh(o, q.mid, o.size))
        BY <1>1, <1>4 DEF OpenBinary, Called
    <2>2. q.mid \in Nat /\ o.size \in Nat /\ o.ticks \in Nat
        BY <1>1, <2>1 DEF Ticks, Orders
    <2>3. Fresh(o, q.mid, o.size) \in Positions /\ Staked(Fresh(o, q.mid, o.size)) = o.size
        BY <1>1, <2>1, <2>2 DEF Positions, Fresh, Staked
    <2> QED
        BY <2>1, <2>3, PlaceKeepsLedger
<1> QED
    BY <1>2, <1>3, <1>4

LEMMA AdjustKeepsLedger ==
    ASSUME IInv, Ledger, NEW d \in Deltas, AdjustBalance(d)
    PROVE  Ledger'
<1>1. d \in Int /\ Stakes(pos) \in Int
    BY BookAssumption, StakesIsInt DEF IInv, Sound, Book
<1>2. /\ balance' = balance + d /\ funded' = funded + d /\ calls' = calls + 1
      /\ UNCHANGED <<pos, house, saved, restarts, vanished>>
    BY DEF AdjustBalance, Called
<1>3. Stakes(pos') = Stakes(pos)
    BY <1>2
<1> QED
    BY <1>1, <1>2, <1>3 DEF Ledger, BooksBalance

LEMMA CloseKeepsLedger ==
    ASSUME IInv, Ledger, NEW i \in Ids, Close(i)
    PROVE  Ledger'
<1>1. End({i}, pos, quote) /\ UNCHANGED <<saved, calls, restarts, funded>>
    BY DEF Close
<1>2. {i} \in SUBSET Live(pos, Kinds)
    BY DEF Close, Live, Kinds
<1>3. pos \in Book /\ quote \in [Symbols -> Ticks \cup {Nothing}]
    BY DEF IInv, Sound, Book
<1> QED
    BY <1>1, <1>2, <1>3, EndKeepsLedger

LEMMA OnTickKeepsLedger ==
    ASSUME IInv, Ledger, NEW s \in Symbols, NEW q \in Quotes[s], OnTick(s, q)
    PROVE  Ledger'
<1> DEFINE book == Remark(s, q)
           now  == Requoted(s, q)
<1>1. UNCHANGED <<saved, calls, restarts, funded>>
    BY DEF OnTick
<1>2. PICK ended : ended \in SUBSET Live(book, Kinds) /\ End(ended, book, now)
    <2>1. Hit(book, s) \cup Expired(book, s) \subseteq Live(book, Kinds)
        BY DEF Hit, Expired, Live, Kinds
    <2>2. ASSUME NEW b, NEW k \in Worst([i \in Ids |-> IF i \in b THEN Nothing ELSE book[i]])
          PROVE  k \in Live(book, Kinds)
        BY <2>2 DEF Worst, Live, Kinds
    <2> QED
        BY <2>1, <2>2, Zenon DEF OnTick
<1>3. book \in Book /\ Stakes(book) = Stakes(pos)
    BY RemarkIsBook, StakesOfRemark
<1>4. now \in [Symbols -> Ticks \cup {Nothing}]
    BY QuotesAreTicks DEF IInv, Requoted
<1> HIDE DEF book, now
<1> QED
    BY <1>1, <1>2, <1>3, <1>4, EndKeepsLedger

LEMMA RestartKeepsLedger ==
    ASSUME IInv, Ledger, Restart
    PROVE  Ledger'
<1>1. saved.pos \in Book /\ saved.balance \in Int
    BY DEF Ledger
<1>2. Stakes(saved.pos) \in Int
    BY <1>1, StakesIsInt
<1>3. /\ balance' = saved.balance /\ pos' = saved.pos /\ house' = 0 /\ ~ vanished'
      /\ funded' = saved.balance + Stakes(saved.pos) /\ restarts' = restarts + 1
      /\ restarts < MaxRestarts /\ UNCHANGED <<saved, calls>> /\ vanished' \in BOOLEAN
    BY DEF Restart
<1>4. Stakes(pos') = Stakes(saved.pos)
    BY <1>3
<1>5. BooksBalance'
    BY <1>1, <1>2, <1>3, <1>4 DEF BooksBalance
<1> QED
    BY <1>1, <1>2, <1>3, <1>5, BookAssumption DEF Ledger

LEMMA SaveKeepsLedger ==
    ASSUME IInv, Ledger, Save
    PROVE  Ledger'
<1>1. /\ saved' = [balance |-> balance, pos |-> Snapshot]
      /\ UNCHANGED <<balance, pos, house, calls, restarts, funded, vanished>>
    BY DEF Save
<1>2. Snapshot \in Book
    BY DEF IInv, Sound, Snapshot, Book
<1>3. Stakes(pos') = Stakes(pos)
    BY <1>1
<1> QED
    BY <1>1, <1>2, <1>3 DEF Ledger, BooksBalance

THEOREM LedgerInvariant == Spec => []Ledger
<1>1. IInv /\ Ledger /\ [Next]_vars => Ledger'
    <2> SUFFICES ASSUME IInv, Ledger, [Next]_vars
                 PROVE  Ledger'
        OBVIOUS
    <2>1. ASSUME NEW o \in Menu, OpenCfd(o) \/ OpenSpot(o) \/ OpenBinary(o)
          PROVE  Ledger'
        BY <2>1, OpenKeepsLedger
    <2>2. ASSUME NEW d \in Deltas, AdjustBalance(d)
          PROVE  Ledger'
        BY <2>2, AdjustKeepsLedger
    <2>3. ASSUME NEW i \in Ids, Close(i)
          PROVE  Ledger'
        BY <2>3, CloseKeepsLedger
    <2>4. CASE Tick
        BY <2>4, OnTickKeepsLedger DEF Tick
    <2>5. CASE Save
        BY <2>5, SaveKeepsLedger
    <2>6. CASE Restart
        BY <2>6, RestartKeepsLedger
    <2>7. CASE UNCHANGED vars
        <3>1. UNCHANGED vars /\ Stakes(pos') = Stakes(pos)
            BY <2>7 DEF vars
        <3> QED
            BY <3>1 DEF vars, Ledger, BooksBalance
    <2> QED
        BY <2>1, <2>2, <2>3, <2>4, <2>5, <2>6, <2>7 DEF Next
<1> QED
    BY <1>1, InitLedger, Invariant, PTL DEF Spec

\* The balance, the house's book and what the client brought in are numbers
\* whatever is bought, marked, closed, saved and restored, and every
\* position is a position.
THEOREM TypeCorrect == Spec => []TypeOK
<1>1. IInv /\ Ledger => TypeOK
    BY DEF IInv, Ledger, Sound, Book, Ticks, TypeOK
<1> QED
    BY <1>1, Invariant, LedgerInvariant, PTL

\* Nothing is made or lost: what the client has, stakes included, is what
\* was brought in and what the house recorded as lost to the client, for
\* any orders, ticks, stop-outs, transfers, snapshots and restarts
\* (close_cfd, close_spot, on_tick, SharedState::new).
THEOREM MoneyConserved == Spec => []BooksBalance
<1>1. Ledger => BooksBalance
    BY DEF Ledger
<1> QED
    BY <1>1, LedgerInvariant, PTL
=============================================================================
